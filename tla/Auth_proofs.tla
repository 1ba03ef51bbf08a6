---------------------------- MODULE Auth_proofs ----------------------------
(***************************************************************************)
(* Proofs about Auth.tla for any threads, names, targets, passwords, codes *)
(* and times to live, and any bounds: type correctness, the lapse of a     *)
(* session, the names tokens carry, codes and the ownership of names.      *)
(*                                                                         *)
(* What a thread has read may be stale when it acts on it.  The invariant  *)
(* says what of it cannot be: rows are never deleted, the login a refresh  *)
(* token goes back to never changes, and a code has one time of sending.   *)
(***************************************************************************)
EXTENDS Auth, TLAPS

Registering == {"regCode", "regFind", "regCreate"}
Resetting == {"resetCode", "resetUpdate"}
Minting == {"mintAccess", "mintRefresh", "remint"}

(* What a handler carries from one of its steps to the next. *)
Carries(t) ==
  /\ pc[t] \in Registering => req[t].name \in Names /\ req[t].password \in Passwords
                              /\ req[t].target \in Targets \cup {None}
  /\ pc[t] \in Resetting => req[t].password \in Passwords /\ req[t].code \in Codes
  /\ pc[t] \in {"regCode"} \cup Resetting => req[t].target \in Targets
  /\ pc[t] \in Minting => req[t].name \in DOMAIN users
  /\ pc[t] = "remint" => req[t].seen <= req[t].login + RefreshTTL

(* A refresh token names a row and dates from its login. *)
RefreshDated == \A r \in refresh : r.name \in DOMAIN users /\ r.expire = r.login + RefreshTTL
AccessDated == \A a \in access : a.name \in DOMAIN users /\ a.seen <= a.login + RefreshTTL

(* The expiry of a code tells when it was sent. *)
CodesDated == \A x \in Targets : codes[x] # None =>
                sentAt[x] # None /\ codes[x].expire = sentAt[x] + CodeTTL

AuthInv == /\ TypeOK /\ (\A t \in Threads : Carries(t))
           /\ RefreshDated /\ AccessDated /\ CodesDated

-----------------------------------------------------------------------------
(* At the start, and after a restart but for the table, nothing is carried. *)
LEMMA AuthInit == Init => AuthInv
<1> SUFFICES ASSUME Init PROVE AuthInv
  OBVIOUS
<1>1. TypeOK
  <2>1. NoRequest \in Request
    BY AuthAssumption DEF NoRequest, Request, Time
  <2>2. PICK S \in SUBSET Names : users \in [S -> User]
    BY DEF Init
  <2>3. DOMAIN users \subseteq Names /\ \A n \in DOMAIN users : users[n] \in User
    BY <2>2
  <2> QED BY <2>1, <2>3, AuthAssumption DEF Init, Empty, TypeOK, Time, Steps
<1>2. \A t \in Threads : Carries(t)
  BY DEF Init, Empty, Carries, Registering, Resetting, Minting
<1>3. RefreshDated /\ AccessDated /\ CodesDated
  BY DEF Init, Empty, RefreshDated, AccessDated, CodesDated
<1> QED BY <1>1, <1>2, <1>3 DEF AuthInv

(* A step that leaves codes and tokens alone, only adds rows and moves one  *)
(* thread to a place where it carries what it should.                       *)
LEMMA OnlyMoves ==
  ASSUME AuthInv, NEW t \in Threads, NEW l \in Steps, NEW r \in Request,
         NEW a \in {"none", "ok", "refused"},
         pc' = [pc EXCEPT ![t] = l], req' = [req EXCEPT ![t] = r],
         answer' = a, calls' \in 0..MaxCalls, now' = now,
         DOMAIN users \subseteq DOMAIN users', DOMAIN users' \subseteq Names,
         \A n \in DOMAIN users' : users'[n] \in User,
         Carries(t)'
  PROVE  /\ pc' \in [Threads -> Steps] /\ req' \in [Threads -> Request]
         /\ answer' \in {"none", "ok", "refused"}
         /\ \A u \in Threads : Carries(u)'
         /\ UNCHANGED <<codes, sentAt>> => CodesDated'
         /\ UNCHANGED access => AccessDated'
         /\ UNCHANGED refresh => RefreshDated'
         /\ codes' \in [Targets -> Code \cup {None}] /\ access' \subseteq Access
            /\ refresh' \subseteq Refresh /\ sentAt' \in [Targets -> Time \cup {None}]
            => TypeOK'
<1>1. /\ pc' \in [Threads -> Steps] /\ req' \in [Threads -> Request]
      /\ answer' \in {"none", "ok", "refused"}
  BY DEF AuthInv, TypeOK
<1>2. ASSUME NEW u \in Threads PROVE Carries(u)'
  <2>1. CASE u = t
    BY <2>1
  <2>2. CASE u # t
    <3>1. pc'[u] = pc[u] /\ req'[u] = req[u] /\ Carries(u)
      BY <2>2 DEF AuthInv, TypeOK
    <3> QED BY <3>1 DEF Carries
  <2> QED BY <2>1, <2>2
<1>3. UNCHANGED <<codes, sentAt>> => CodesDated'
  BY DEF AuthInv, CodesDated
<1>4. UNCHANGED access => AccessDated'
  BY DEF AuthInv, AccessDated
<1>5. UNCHANGED refresh => RefreshDated'
  BY DEF AuthInv, RefreshDated
<1>6. codes' \in [Targets -> Code \cup {None}] /\ access' \subseteq Access
      /\ refresh' \subseteq Refresh /\ sentAt' \in [Targets -> Time \cup {None}]
      => TypeOK'
  BY <1>1 DEF AuthInv, TypeOK
<1> QED BY <1>1, <1>2, <1>3, <1>4, <1>5, <1>6

(* A thread that leaves its handler carries nothing. *)
LEMMA AnswerMoves ==
  ASSUME AuthInv, NEW t \in Threads, NEW a \in {"ok", "refused"}, Answer(t, a)
  PROVE  /\ pc' = [pc EXCEPT ![t] = "idle"] /\ req' = [req EXCEPT ![t] = NoRequest]
         /\ answer' = a
         /\ NoRequest \in Request /\ Carries(t)'
<1>1. /\ pc' = [pc EXCEPT ![t] = "idle"] /\ req' = [req EXCEPT ![t] = NoRequest]
      /\ answer' = a
  BY DEF Answer, Goto
<1>2. pc'[t] = "idle"
  BY <1>1 DEF AuthInv, TypeOK
<1>3. NoRequest \in Request
  BY AuthAssumption DEF NoRequest, Request, Time
<1> QED BY <1>1, <1>2, <1>3 DEF Carries, Registering, Resetting, Minting

(* A thread may go on, or come in, with what it should carry. *)
LEMMA GoesOn ==
  ASSUME AuthInv, NEW t \in Threads, NEW l \in Steps, NEW r,
         pc' = [pc EXCEPT ![t] = l], req' = [req EXCEPT ![t] = r]
  PROVE  pc'[t] = l /\ req'[t] = r /\ pc[t] \in Steps /\ req[t] \in Request
         /\ Carries(t)
BY DEF AuthInv, TypeOK

(* Every request that comes in keeps the invariant. *)
LEMMA CallKeeps ==
  ASSUME AuthInv, NEW t \in Threads, NEW l \in Steps, NEW r \in Request, Call(t, l, r),
         UNCHANGED <<now, access, refresh, users>>,
         /\ codes' \in [Targets -> Code \cup {None}] /\ CodesDated'
         /\ sentAt' \in [Targets -> Time \cup {None}],
         Carries(t)'
  PROVE  AuthInv'
<1>1. /\ pc' = [pc EXCEPT ![t] = l] /\ req' = [req EXCEPT ![t] = r]
      /\ answer' = "none"
  BY DEF Call, Goto
<1>2. calls' \in 0..MaxCalls
  BY AuthAssumption DEF Call, AuthInv, TypeOK
<1>3. /\ DOMAIN users' \subseteq Names /\ \A n \in DOMAIN users' : users'[n] \in User
      /\ access' \subseteq Access /\ refresh' \subseteq Refresh
  BY DEF AuthInv, TypeOK
<1> QED BY <1>1, <1>2, <1>3, OnlyMoves DEF AuthInv

(* The step of a handler that leaves codes and tokens alone. *)
LEMMA TableKeeps ==
  ASSUME AuthInv, NEW t \in Threads, NEW l \in Steps, NEW r \in Request,
         NEW a \in {"none", "ok", "refused"},
         pc' = [pc EXCEPT ![t] = l], req' = [req EXCEPT ![t] = r],
         answer' = a,
         UNCHANGED <<now, codes, access, refresh, sentAt, calls>>,
         DOMAIN users \subseteq DOMAIN users', DOMAIN users' \subseteq Names,
         \A n \in DOMAIN users' : users'[n] \in User,
         Carries(t)'
  PROVE  AuthInv'
<1>1. /\ calls' \in 0..MaxCalls
      /\ codes' \in [Targets -> Code \cup {None}] /\ access' \subseteq Access
      /\ refresh' \subseteq Refresh /\ sentAt' \in [Targets -> Time \cup {None}]
  BY DEF AuthInv, TypeOK
<1> QED BY <1>1, OnlyMoves DEF AuthInv

(* Checking a code drops it once it has expired and changes nothing else. *)
LEMMA ExpireKeeps ==
  ASSUME AuthInv, NEW x \in Targets, Expire(x), UNCHANGED sentAt
  PROVE  codes' \in [Targets -> Code \cup {None}] /\ CodesDated'
<1>1. codes \in [Targets -> Code \cup {None}] /\ CodesDated
  BY DEF AuthInv, TypeOK
<1>2. CASE UNCHANGED codes
  BY <1>1, <1>2 DEF CodesDated
<1>3. CASE codes' = [codes EXCEPT ![x] = None]
  BY <1>1, <1>3 DEF CodesDated
<1> QED BY <1>2, <1>3 DEF Expire

-----------------------------------------------------------------------------
(* One step for each request that may come in. *)
LEMMA AskKeeps == ASSUME AuthInv, NEW t \in Threads, Ask(t) PROVE AuthInv'
<1>1. /\ codes \in [Targets -> Code \cup {None}] /\ CodesDated
      /\ sentAt \in [Targets -> Time \cup {None}] /\ now \in Time
      /\ NoRequest \in Request /\ refresh \subseteq Refresh
      /\ UNCHANGED <<codes, sentAt>> => CodesDated'
  BY AuthAssumption DEF AuthInv, TypeOK, NoRequest, Request, Time, CodesDated
<1>2. ASSUME NEW l \in Steps, NEW r \in Request, Call(t, l, r)
      PROVE  pc'[t] = l /\ req'[t] = r
  BY <1>2, GoesOn DEF Call, Goto
<1>3. ASSUME NEW x \in Targets, CheckCode(t, x) PROVE AuthInv'
  <2>1. "idle" \in Steps /\ Call(t, "idle", NoRequest) /\ UNCHANGED <<now, access, refresh, users, sentAt>>
    BY <1>3 DEF Steps, CheckCode
  <2>2. codes' \in [Targets -> Code \cup {None}] /\ CodesDated'
    BY <1>3, ExpireKeeps DEF CheckCode
  <2>3. Carries(t)'
    BY <1>1, <1>2, <2>1 DEF Carries, Registering, Resetting, Minting
  <2> QED BY <1>1, <2>1, <2>2, <2>3, CallKeeps
<1>4. ASSUME NEW x \in Targets, NEW c \in Codes, SendCode(t, x, c) PROVE AuthInv'
  <2>1. "idle" \in Steps /\ Call(t, "idle", NoRequest) /\ UNCHANGED <<now, access, refresh, users>>
    BY <1>4 DEF Steps, SendCode
  <2> DEFINE new == [code |-> c, expire |-> now + CodeTTL]
  <2>2. new \in Code /\ new.expire = now + CodeTTL
    BY <1>1, AuthAssumption DEF Code, Time
  <2>3. codes' = [codes EXCEPT ![x] = new] /\ sentAt' = [sentAt EXCEPT ![x] = now]
    BY <1>4 DEF SendCode
  <2>4. now # None
    BY <1>1, AuthAssumption DEF Time
  <2> HIDE DEF new
  <2>5. codes' \in [Targets -> Code \cup {None}] /\ sentAt' \in [Targets -> Time \cup {None}]
    BY <1>1, <2>2, <2>3
  <2>6. CodesDated'
    BY <1>1, <2>2, <2>3, <2>4 DEF CodesDated
  <2>7. Carries(t)'
    BY <1>1, <1>2, <2>1 DEF Carries, Registering, Resetting, Minting
  <2> QED BY <1>1, <2>1, <2>5, <2>6, <2>7, CallKeeps
<1>5. ASSUME NEW n \in Names, NEW p \in Passwords, NEW x \in Targets \cup {None},
             NEW c \in Codes \cup {None}, Register(t, n, p, x, c)
      PROVE  AuthInv'
  <2> DEFINE l == IF x # None /\ c # None THEN "regCode" ELSE "regFind"
             r == [NoRequest EXCEPT !.name = n, !.password = p, !.target = x, !.code = c]
  <2>1. l \in Steps /\ r \in Request /\ Call(t, l, r)
    BY <1>1, <1>5 DEF Steps, Register, Request, NoRequest
  <2>2. Carries(t)'
    BY <1>1, <1>2, <2>1 DEF Carries, Registering, Resetting, Minting, NoRequest
  <2> QED BY <1>1, <1>5, <2>1, <2>2, CallKeeps DEF Register
<1>6. ASSUME NEW a \in Names \cup Targets, NEW p \in Passwords, Login(t, a, p)
      PROVE  AuthInv'
  <2> DEFINE r == [NoRequest EXCEPT !.target = a, !.password = p]
  <2>1. "find" \in Steps /\ r \in Request /\ Call(t, "find", r)
    BY <1>1, <1>6 DEF Steps, Login, Request, NoRequest
  <2>2. Carries(t)'
    BY <1>1, <1>2, <2>1 DEF Carries, Registering, Resetting, Minting
  <2> QED BY <1>1, <1>6, <2>1, <2>2, CallKeeps DEF Login
<1>7. ASSUME NEW r \in refresh, RefreshToken(t, r) PROVE AuthInv'
  <2>1. CASE Call(t, "idle", NoRequest)
    <3>1. "idle" \in Steps
      BY DEF Steps
    <3>2. Carries(t)'
      BY <1>1, <1>2, <2>1, <3>1 DEF Carries, Registering, Resetting, Minting
    <3> QED BY <1>1, <1>7, <2>1, <3>1, <3>2, CallKeeps DEF RefreshToken
  <2>2. CASE RefreshGood(r) /\ Call(t, "remint", [NoRequest EXCEPT !.name = r.name,
                                                    !.login = r.login, !.seen = now])
    <3> DEFINE q == [NoRequest EXCEPT !.name = r.name, !.login = r.login, !.seen = now]
    <3>1. "remint" \in Steps /\ q \in Request
      BY <1>1 DEF Steps, Request, NoRequest, Refresh
    <3>2. q.name \in DOMAIN users /\ q.seen <= q.login + RefreshTTL
      BY <1>7, <2>2 DEF AuthInv, RefreshDated, RefreshGood, NoRequest
    <3>3. UNCHANGED users
      BY <1>7 DEF RefreshToken
    <3>4. pc'[t] = "remint" /\ req'[t] = q
      BY <1>2, <2>2, <3>1
    <3> HIDE DEF q
    <3>5. Carries(t)'
      BY <3>2, <3>3, <3>4 DEF Carries, Registering, Resetting, Minting
    <3> QED BY <1>1, <1>7, <2>2, <3>1, <3>5, CallKeeps DEF RefreshToken, q
  <2> QED BY <1>7, <2>1, <2>2 DEF RefreshToken
<1>8. ASSUME NEW x \in Targets, NEW c \in Codes, NEW p \in Passwords, Reset(t, x, c, p)
      PROVE  AuthInv'
  <2> DEFINE r == [NoRequest EXCEPT !.target = x, !.code = c, !.password = p]
  <2>1. "resetCode" \in Steps /\ r \in Request /\ Call(t, "resetCode", r)
    BY <1>1, <1>8 DEF Steps, Reset, Request, NoRequest
  <2>2. Carries(t)'
    BY <1>1, <1>2, <2>1 DEF Carries, Registering, Resetting, Minting, NoRequest
  <2> QED BY <1>1, <1>8, <2>1, <2>2, CallKeeps DEF Reset
<1> QED BY <1>3, <1>4, <1>5, <1>6, <1>7, <1>8 DEF Ask

(* Going on without a word to anybody, in the terms of the lemmas above. *)
LEMMA ProceedMoves ==
  ASSUME AuthInv, NEW t \in Threads, NEW l \in Steps, Proceed(t, l)
  PROVE  /\ pc' = [pc EXCEPT ![t] = l] /\ req' = [req EXCEPT ![t] = req[t]]
         /\ answer' = "none"
         /\ req[t] \in Request
         /\ pc'[t] = l /\ req'[t] = req[t] /\ Carries(t)
BY DEF AuthInv, TypeOK, Proceed, Goto

(* The two handlers that spend a code. *)
LEMMA UseCodeKeeps ==
  ASSUME AuthInv, NEW t \in Threads,
         NEW from, NEW to,
         <<from, to>> \in {<<"regCode", "regFind">>, <<"resetCode", "resetUpdate">>},
         UseCode(t, from, to)
  PROVE  AuthInv'
<1> DEFINE x == req[t].target
           c == req[t].code
<1>1. /\ pc[t] = from /\ Carries(t)
      /\ UNCHANGED <<now, access, refresh, users, calls>>
      /\ from \in {"regCode", "resetCode"} /\ to \in {"regFind", "resetUpdate"}
      /\ from = "regCode" <=> to = "regFind"
  BY DEF UseCode, AuthInv
<1>2. to \in Steps /\ x \in Targets
  BY <1>1 DEF Carries, Steps, Registering, Resetting
<1>3. /\ DOMAIN users' \subseteq Names /\ \A n \in DOMAIN users' : users'[n] \in User
      /\ access' \subseteq Access /\ refresh' \subseteq Refresh /\ calls' \in 0..MaxCalls
      /\ DOMAIN users' = DOMAIN users /\ AccessDated' /\ RefreshDated'
      /\ sentAt \in [Targets -> Time \cup {None}] /\ codes \in [Targets -> Code \cup {None}]
      /\ CodesDated
  BY <1>1 DEF AuthInv, TypeOK, AccessDated, RefreshDated
<1>4. CASE CodeGood(x, c) /\ Spend(x, c) /\ Proceed(t, to)
  <2>1. /\ codes' = [codes EXCEPT ![x] = None] /\ sentAt' = [sentAt EXCEPT ![x] = None]
    BY <1>4 DEF Spend
  <2>2. /\ codes' \in [Targets -> Code \cup {None}] /\ CodesDated'
        /\ sentAt' \in [Targets -> Time \cup {None}]
    BY <1>2, <1>3, <2>1 DEF CodesDated
  <2>3. /\ pc' = [pc EXCEPT ![t] = to] /\ req' = [req EXCEPT ![t] = req[t]]
        /\ answer' = "none"
        /\ req[t] \in Request
        /\ pc'[t] = to /\ req'[t] = req[t]
    BY <1>2, <1>4, ProceedMoves
  <2>4. Carries(t)'
    BY <1>1, <2>3 DEF Carries, Registering, Resetting, Minting
  <2> QED BY <1>1, <1>2, <1>3, <2>2, <2>3, <2>4, OnlyMoves DEF AuthInv
<1>5. CASE ~CodeGood(x, c) /\ Expire(x) /\ Refuse(t) /\ UNCHANGED sentAt
  <2>1. codes' \in [Targets -> Code \cup {None}] /\ CodesDated'
    BY <1>2, <1>5, ExpireKeeps
  <2>2. "idle" \in Steps /\ Answer(t, "refused")
    BY <1>5 DEF Steps, Refuse
  <2>3. /\ pc' = [pc EXCEPT ![t] = "idle"] /\ req' = [req EXCEPT ![t] = NoRequest]
        /\ answer' = "refused"
        /\ NoRequest \in Request /\ Carries(t)'
    BY <2>2, AnswerMoves
  <2> QED BY <1>1, <1>2, <1>3, <1>5, <2>1, <2>2, <2>3, OnlyMoves DEF AuthInv
<1> QED BY <1>4, <1>5 DEF UseCode

(* A refusal changes nothing but the thread. *)
LEMMA RefuseKeeps ==
  ASSUME AuthInv, NEW t \in Threads, Refuse(t),
         UNCHANGED <<now, codes, access, refresh, users, sentAt, calls>>
  PROVE  AuthInv'
<1>1. "idle" \in Steps /\ Answer(t, "refused")
  BY DEF Steps, Refuse
<1>2. /\ pc' = [pc EXCEPT ![t] = "idle"] /\ req' = [req EXCEPT ![t] = NoRequest]
      /\ answer' = "refused"
      /\ NoRequest \in Request /\ Carries(t)'
  BY <1>1, AnswerMoves
<1>3. /\ DOMAIN users' \subseteq Names /\ \A n \in DOMAIN users' : users'[n] \in User
      /\ DOMAIN users' = DOMAIN users
  BY DEF AuthInv, TypeOK
<1> QED BY <1>1, <1>2, <1>3, TableKeeps

(* One step for each place inside a handler. *)
LEMMA HandleKeeps == ASSUME AuthInv, NEW t \in Threads, Handle(t) PROVE AuthInv'
<1>1. /\ Carries(t) /\ req[t] \in Request /\ now \in Time
      /\ DOMAIN users \subseteq Names /\ (\A n \in DOMAIN users : users[n] \in User)
      /\ "idle" \in Steps
  BY DEF AuthInv, TypeOK, Steps
<1>2. CASE UseCode(t, "regCode", "regFind") \/ UseCode(t, "resetCode", "resetUpdate")
  BY <1>2, UseCodeKeeps
<1>3. CASE RegFind(t)
  <2>1. CASE Proceed(t, "regCreate")
    <3>1. "regCreate" \in Steps
      BY DEF Steps
    <3>2. /\ pc' = [pc EXCEPT ![t] = "regCreate"] /\ req' = [req EXCEPT ![t] = req[t]]
          /\ answer' = "none"
          /\ req[t] \in Request
          /\ pc'[t] = "regCreate" /\ req'[t] = req[t]
      BY <2>1, <3>1, ProceedMoves
    <3>3. pc[t] = "regFind" /\ UNCHANGED <<now, codes, access, refresh, users, sentAt, calls>>
      BY <1>3 DEF RegFind
    <3>4. Carries(t)'
      BY <1>1, <3>2, <3>3 DEF Carries, Registering, Resetting, Minting
    <3> QED BY <1>1, <3>1, <3>2, <3>3, <3>4, TableKeeps
  <2> QED BY <1>3, <2>1, RefuseKeeps DEF RegFind
<1>4. CASE RegCreate(t)
  <2> DEFINE n == req[t].name
             row == [target |-> req[t].target, password |-> req[t].password]
  <2>1. CASE users' = Set(users, n, row) /\ (Done(t) \/ Refuse(t))
    <3>1. n \in Names /\ row \in User
      BY <1>1, <1>4 DEF RegCreate, Carries, Registering, User
    <3> HIDE DEF n, row
    <3>2. /\ DOMAIN users' = DOMAIN users \cup {n}
          /\ \A m \in DOMAIN users' : users'[m] = row \/ (m \in DOMAIN users /\ users'[m] = users[m])
      BY <2>1 DEF Set
    <3>3. /\ pc' = [pc EXCEPT ![t] = "idle"] /\ req' = [req EXCEPT ![t] = NoRequest]
          /\ answer' \in {"ok", "refused"}
          /\ NoRequest \in Request /\ Carries(t)'
      BY <2>1, AnswerMoves DEF Done, Refuse
    <3>4. UNCHANGED <<now, codes, access, refresh, sentAt, calls>>
      BY <1>4 DEF RegCreate
    <3>5. /\ DOMAIN users \subseteq DOMAIN users' /\ DOMAIN users' \subseteq Names
          /\ \A m \in DOMAIN users' : users'[m] \in User
      BY <1>1, <3>1, <3>2
    <3>6. /\ calls' \in 0..MaxCalls /\ access' \subseteq Access /\ refresh' \subseteq Refresh
          /\ codes' \in [Targets -> Code \cup {None}]
          /\ sentAt' \in [Targets -> Time \cup {None}]
          /\ CodesDated'
      BY <3>4 DEF AuthInv, TypeOK, CodesDated
    <3>7. AccessDated' /\ RefreshDated'
      BY <3>2, <3>4 DEF AuthInv, AccessDated, RefreshDated
    <3> QED BY <1>1, <3>3, <3>4, <3>5, <3>6, <3>7, OnlyMoves DEF AuthInv
  <2>2. CASE Refuse(t) /\ UNCHANGED users
    BY <1>4, <2>2, RefuseKeeps DEF RegCreate
  <2> QED BY <1>4, <2>1, <2>2 DEF RegCreate
<1>5. CASE Find(t)
  <2>1. CASE Refuse(t)
    BY <1>5, <2>1, RefuseKeeps DEF Find
  <2>2. ASSUME NEW n \in Matches(req[t].target), Goto(t, "mintAccess"), answer' = "none",
               req' = [req EXCEPT ![t].name = n, ![t].seen = now]
        PROVE  AuthInv'
    <3> DEFINE q == [req[t] EXCEPT !.name = n, !.seen = now]
    <3>1. "mintAccess" \in Steps /\ q \in Request /\ q.name = n /\ n \in DOMAIN users
      BY <1>1, <2>2 DEF Steps, Request, Matches
    <3>2. req' = [req EXCEPT ![t] = q]
      BY <2>2 DEF AuthInv, TypeOK
    <3> HIDE DEF q
    <3>3. pc' = [pc EXCEPT ![t] = "mintAccess"]
      BY <2>2 DEF Goto
    <3>4. pc'[t] = "mintAccess" /\ req'[t] = q
      BY <3>1, <3>2, <3>3, GoesOn
    <3>5. UNCHANGED <<now, codes, access, refresh, users, sentAt, calls>>
      BY <1>5 DEF Find
    <3>6. Carries(t)'
      BY <3>1, <3>4, <3>5 DEF Carries, Registering, Resetting, Minting
    <3> QED BY <1>1, <2>2, <3>1, <3>2, <3>3, <3>5, <3>6, TableKeeps
  <2> QED BY <1>5, <2>1, <2>2 DEF Find
<1>6. CASE MintAccess(t)
  <2> DEFINE new == NewAccess(req[t], req[t].seen)
  <2>1. "mintRefresh" \in Steps /\ Proceed(t, "mintRefresh")
        /\ access' = access \cup {new} /\ pc[t] = "mintAccess"
        /\ UNCHANGED <<now, codes, refresh, users, sentAt, calls>>
    BY <1>6 DEF Steps, MintAccess
  <2>2. /\ pc' = [pc EXCEPT ![t] = "mintRefresh"] /\ req' = [req EXCEPT ![t] = req[t]]
        /\ answer' = "none"
        /\ req[t] \in Request
        /\ pc'[t] = "mintRefresh" /\ req'[t] = req[t]
    BY <2>1, ProceedMoves
  <2>3. Carries(t)'
    BY <1>1, <2>1, <2>2 DEF Carries, Registering, Resetting, Minting
  <2>4. new \in Access /\ new.name \in DOMAIN users /\ new.seen <= new.login + RefreshTTL
    BY <1>1, <2>1, AuthAssumption
       DEF Access, NewAccess, Request, Time, Carries, Minting
  <2> HIDE DEF new
  <2>5. access' \subseteq Access /\ AccessDated'
    BY <2>1, <2>4 DEF AuthInv, TypeOK, AccessDated
  <2>6. /\ refresh' \subseteq Refresh /\ calls' \in 0..MaxCalls
        /\ codes' \in [Targets -> Code \cup {None}]
        /\ sentAt' \in [Targets -> Time \cup {None}] /\ CodesDated' /\ RefreshDated'
    BY <2>1 DEF AuthInv, TypeOK, CodesDated, RefreshDated
  <2> QED BY <1>1, <2>1, <2>2, <2>3, <2>5, <2>6, OnlyMoves DEF AuthInv
<1>7. CASE MintRefresh(t)
  <2> DEFINE new == [name |-> req[t].name, login |-> now, expire |-> now + RefreshTTL]
  <2>1. Done(t) /\ refresh' = refresh \cup {new} /\ pc[t] = "mintRefresh"
        /\ UNCHANGED <<now, codes, access, users, sentAt, calls>>
    BY <1>7 DEF MintRefresh
  <2>2. /\ pc' = [pc EXCEPT ![t] = "idle"] /\ req' = [req EXCEPT ![t] = NoRequest]
        /\ answer' = "ok"
        /\ NoRequest \in Request /\ Carries(t)'
    BY <2>1, AnswerMoves DEF Done
  <2>3. new \in Refresh /\ new.name \in DOMAIN users /\ new.expire = new.login + RefreshTTL
    BY <1>1, <2>1, AuthAssumption DEF Refresh, Time, Carries, Minting
  <2> HIDE DEF new
  <2>4. refresh' \subseteq Refresh /\ RefreshDated'
    BY <2>1, <2>3 DEF AuthInv, TypeOK, RefreshDated
  <2>5. /\ access' \subseteq Access /\ calls' \in 0..MaxCalls
        /\ codes' \in [Targets -> Code \cup {None}]
        /\ sentAt' \in [Targets -> Time \cup {None}] /\ CodesDated' /\ AccessDated'
    BY <2>1 DEF AuthInv, TypeOK, CodesDated, AccessDated
  <2> QED BY <1>1, <2>1, <2>2, <2>4, <2>5, OnlyMoves DEF AuthInv
<1>8. CASE Remint(t)
  <2> DEFINE new == NewAccess(req[t], req[t].login)
  <2>1. Done(t) /\ access' = access \cup {new} /\ pc[t] = "remint"
        /\ UNCHANGED <<now, codes, refresh, users, sentAt, calls>>
    BY <1>8 DEF Remint
  <2>2. /\ pc' = [pc EXCEPT ![t] = "idle"] /\ req' = [req EXCEPT ![t] = NoRequest]
        /\ answer' = "ok"
        /\ NoRequest \in Request /\ Carries(t)'
    BY <2>1, AnswerMoves DEF Done
  <2>3. new \in Access /\ new.name \in DOMAIN users /\ new.seen <= new.login + RefreshTTL
    BY <1>1, <2>1, AuthAssumption
       DEF Access, NewAccess, Request, Time, Carries, Minting
  <2> HIDE DEF new
  <2>4. access' \subseteq Access /\ AccessDated'
    BY <2>1, <2>3 DEF AuthInv, TypeOK, AccessDated
  <2>5. /\ refresh' \subseteq Refresh /\ calls' \in 0..MaxCalls
        /\ codes' \in [Targets -> Code \cup {None}]
        /\ sentAt' \in [Targets -> Time \cup {None}] /\ CodesDated' /\ RefreshDated'
    BY <2>1 DEF AuthInv, TypeOK, CodesDated, RefreshDated
  <2> QED BY <1>1, <2>1, <2>2, <2>4, <2>5, OnlyMoves DEF AuthInv
<1>9. CASE ResetUpdate(t)
  <2>1. CASE Refuse(t) /\ UNCHANGED users
    BY <1>9, <2>1, RefuseKeeps DEF ResetUpdate
  <2>2. CASE /\ Done(t) \/ Refuse(t)
             /\ users' = [n \in DOMAIN users |-> IF n \in Matches(req[t].target)
                            THEN [users[n] EXCEPT !.password = req[t].password] ELSE users[n]]
    <3>1. /\ pc' = [pc EXCEPT ![t] = "idle"] /\ req' = [req EXCEPT ![t] = NoRequest]
          /\ answer' \in {"ok", "refused"}
          /\ NoRequest \in Request /\ Carries(t)'
      BY <2>2, AnswerMoves DEF Done, Refuse
    <3>2. pc[t] = "resetUpdate" /\ UNCHANGED <<now, codes, access, refresh, sentAt, calls>>
      BY <1>9 DEF ResetUpdate
    <3>3. req[t].password \in Passwords
      BY <1>1, <3>2 DEF Carries, Resetting
    <3>4. DOMAIN users' = DOMAIN users /\ \A n \in DOMAIN users' : users'[n] \in User
      BY <1>1, <2>2, <3>3 DEF User
    <3> QED BY <1>1, <3>1, <3>2, <3>4, TableKeeps
  <2> QED BY <1>9, <2>1, <2>2 DEF ResetUpdate
<1> QED BY <1>2, <1>3, <1>4, <1>5, <1>6, <1>7, <1>8, <1>9 DEF Handle

-----------------------------------------------------------------------------
(* The invariant is kept by every step. *)
LEMMA AuthStep == AuthInv /\ [Next]_vars => AuthInv'
<1> SUFFICES ASSUME AuthInv, [Next]_vars PROVE AuthInv'
  OBVIOUS
<1>1. CASE \E t \in Threads : Handle(t) \/ Ask(t)
  BY <1>1, HandleKeeps, AskKeeps
<1>2. CASE Tick
  <2>1. now' \in Time
    BY <1>2, AuthAssumption DEF Tick, AuthInv, TypeOK, Time
  <2>2. TypeOK'
    BY <1>2, <2>1 DEF Tick, AuthInv, TypeOK
  <2>3. (\A t \in Threads : Carries(t)') /\ RefreshDated' /\ AccessDated' /\ CodesDated'
    BY <1>2 DEF Tick, AuthInv, Carries, RefreshDated, AccessDated, CodesDated
  <2> QED BY <2>2, <2>3 DEF AuthInv
<1>3. CASE Restart
  <2>1. NoRequest \in Request
    BY AuthAssumption DEF NoRequest, Request, Time
  <2>2. TypeOK'
    BY <1>3, <2>1 DEF Restart, AuthInv, TypeOK, Steps
  <2>3. (\A t \in Threads : Carries(t)') /\ RefreshDated' /\ AccessDated' /\ CodesDated'
    BY <1>3 DEF Restart, Carries, Registering, Resetting, Minting,
                RefreshDated, AccessDated, CodesDated
  <2> QED BY <2>2, <2>3 DEF AuthInv
<1>4. CASE UNCHANGED vars
  <2>1. TypeOK'
    BY <1>4 DEF vars, AuthInv, TypeOK
  <2>2. (\A t \in Threads : Carries(t)') /\ RefreshDated' /\ AccessDated' /\ CodesDated'
    BY <1>4 DEF vars, AuthInv, Carries, RefreshDated, AccessDated, CodesDated
  <2> QED BY <2>1, <2>2 DEF AuthInv
<1> QED BY <1>1, <1>2, <1>3, <1>4 DEF Next

LEMMA AuthInvariant == Spec => []AuthInv
BY AuthInit, AuthStep, PTL DEF Spec

(* For any instance the variables keep their types: in particular no row    *)
(* has a name or a password of another request's, and no token comes from a *)
(* request that named nobody.                                               *)
THEOREM AuthTypeCorrect == Spec => []TypeOK
BY AuthInvariant, PTL DEF AuthInv

(* For any times to live, no access token goes back to a login whose        *)
(* refresh token had lapsed when it was last looked at, however often       *)
(* refreshToken extended the session and whatever ran between its holds of  *)
(* the mutex.                                                               *)
THEOREM SessionsLapse == Spec => []SessionLapses
<1>1. AuthInv => SessionLapses
  BY DEF AuthInv, AccessDated, SessionLapses
<1> QED BY <1>1, AuthInvariant, PTL

(* For any number of threads, the name in every token of AuthService::login *)
(* and refreshToken is that of a row of users.                              *)
THEOREM TokensNameTheirUsers == Spec => []TokensNameUsers
<1>1. AuthInv => TokensNameUsers
  BY DEF AuthInv, AccessDated, RefreshDated, TokensNameUsers
<1> QED BY <1>1, AuthInvariant, PTL

(* For any interleaving, a registration or a reset that CacheManager::      *)
(* verifyCode lets through has a code sent to its target in time, and none  *)
(* that another request used up.                                            *)
THEOREM CodesSpentOnce == Spec => CodeSpentOnceInTime
<1> DEFINE P == \A t \in Threads :
       <<pc[t], pc'[t]>> \in {<<"regCode", "regFind">>, <<"resetCode", "resetUpdate">>}
       => /\ sentAt[req[t].target] # None
          /\ now <= sentAt[req[t].target] + CodeTTL
<1>1. ASSUME AuthInv, AuthInv', Next PROVE P
  <2> SUFFICES ASSUME NEW t \in Threads,
                      \/ pc[t] = "regCode" /\ pc'[t] = "regFind"
                      \/ pc[t] = "resetCode" /\ pc'[t] = "resetUpdate"
               PROVE  /\ sentAt[req[t].target] # None
                      /\ now <= sentAt[req[t].target] + CodeTTL
    OBVIOUS
  <2>1. pc \in [Threads -> Steps] /\ Carries(t) /\ CodesDated
    BY <1>1 DEF AuthInv, TypeOK
  <2>2. ASSUME NEW u \in Threads, NEW l, pc' = [pc EXCEPT ![u] = l] PROVE u = t
    BY <2>1, <2>2
  <2>3. ASSUME NEW u \in Threads, Handle(u) PROVE u = t
    <3>1. \E l : pc' = [pc EXCEPT ![u] = l]
      BY <2>3 DEF Handle, UseCode, RegFind, RegCreate, Find, MintAccess, MintRefresh, Remint,
                  ResetUpdate, Proceed, Refuse, Done, Answer, Goto
    <3> QED BY <2>2, <3>1
  <2>4. ASSUME NEW u \in Threads, Ask(u) PROVE FALSE
    <3>1. pc[u] = "idle" /\ \E l : pc' = [pc EXCEPT ![u] = l]
      BY <2>4 DEF Ask, CheckCode, SendCode, Register, Login, RefreshToken, Reset, Call, Goto
    <3> QED BY <2>2, <3>1
  <2>5. Handle(t)
    <3>1. ~Tick /\ ~Restart
      BY <2>1 DEF Tick, Restart
    <3> QED BY <1>1, <2>3, <2>4, <3>1 DEF Next
  <2>6. UseCode(t, "regCode", "regFind") \/ UseCode(t, "resetCode", "resetUpdate")
    BY <2>5 DEF Handle, RegFind, RegCreate, Find, MintAccess, MintRefresh, Remint, ResetUpdate
  <2>7. CodeGood(req[t].target, req[t].code)
    <3>1. ASSUME Refuse(t) PROVE FALSE
      BY <2>1, <3>1 DEF Refuse, Answer, Goto
    <3> QED BY <2>6, <3>1 DEF UseCode
  <2>8. req[t].target \in Targets
    BY <2>1 DEF Carries, Resetting
  <2> QED BY <2>1, <2>7, <2>8 DEF CodeGood, CodesDated
<1>2. AuthInv /\ AuthInv' /\ [Next]_vars => [P]_vars
  BY <1>1
<1> QED BY <1>2, AuthInvariant, PTL DEF Spec, CodeSpentOnceInTime

(* For any number of racing registrations, a row belongs to whoever         *)
(* created it: INSERT leaves a name that is there alone, and only the       *)
(* UPDATE of resetPassword writes to it, to its password.                   *)
THEOREM NamesKeepTheirOwners == Spec => NameKeepsItsOwner
<1> DEFINE P == \A n \in DOMAIN users :
       /\ n \in DOMAIN users'
       /\ users'[n].target = users[n].target
       /\ users'[n].password # users[n].password
            => \E t \in Threads : pc[t] = "resetUpdate" /\ n \in Matches(req[t].target)
<1>1. ASSUME AuthInv, Next PROVE P
  <2>1. \/ UNCHANGED users
        \/ \E t \in Threads : RegCreate(t) \/ ResetUpdate(t)
    BY <1>1 DEF Next, Tick, Restart, Handle, UseCode, RegFind, Find, MintAccess, MintRefresh,
                Remint, Ask, CheckCode, SendCode, Register, Login, RefreshToken, Reset
  <2>2. CASE UNCHANGED users
    BY <2>2
  <2>3. ASSUME NEW t \in Threads, RegCreate(t) PROVE P
    <3>1. CASE /\ req[t].name \notin DOMAIN users
               /\ users' = Set(users, req[t].name,
                               [target |-> req[t].target, password |-> req[t].password])
      BY <3>1 DEF Set
    <3> QED BY <2>2, <2>3, <3>1 DEF RegCreate
  <2>4. ASSUME NEW t \in Threads, ResetUpdate(t) PROVE P
    <3>1. CASE users' = [n \in DOMAIN users |-> IF n \in Matches(req[t].target)
                           THEN [users[n] EXCEPT !.password = req[t].password] ELSE users[n]]
      <4> SUFFICES ASSUME NEW n \in DOMAIN users
                   PROVE  /\ users'[n].target = users[n].target
                          /\ users'[n].password # users[n].password => n \in Matches(req[t].target)
        BY <2>4, <3>1 DEF ResetUpdate
      <4>1. users[n] \in User
        BY <1>1 DEF AuthInv, TypeOK
      <4> QED BY <3>1, <4>1 DEF User
    <3> QED BY <2>2, <2>4, <3>1 DEF ResetUpdate
  <2> QED BY <2>1, <2>2, <2>3, <2>4
<1>2. AuthInv /\ [Next]_vars => [P]_vars
  BY <1>1
<1> QED BY <1>2, AuthInvariant, PTL DEF Spec, NameKeepsItsOwner

-----------------------------------------------------------------------------
(* The handlers keep the rules of accounts.  Where a thread is and what it  *)
(* carries determine its permit and its identity.                           *)
RuleVars == <<now, users, sentAt, Permit, Identity, access, refresh>>
AStranger == [name |-> None, by |-> "nobody", login |-> 0, seen |-> 0]

LEMMA RulesInit == Init => Rules!Init
<1> SUFFICES ASSUME Init PROVE Rules!Init
  OBVIOUS
<1>1. \A t \in Threads : Permit[t] = None /\ Identity[t] = AStranger
  BY DEF Init, Empty, Permit, Identity, PermitAt, IdentityAt, PastCode, LoggedIn, AStranger
<1>2. Permit = [t \in Threads |-> None] /\ Identity = [t \in Threads |-> AStranger]
  BY <1>1 DEF Permit, Identity
<1> QED BY <1>2 DEF Init, Empty, User, AStranger, Rules!Init, Rules!NoCodes, Rules!NoPermits,
                    Rules!Strangers, Rules!Stranger

LEMMA Held ==
  ASSUME NEW t \in Threads
  PROVE  Permit[t] = PermitAt(pc[t], req[t]) /\ Identity[t] = IdentityAt(pc[t], req[t])
BY DEF Permit, Identity

(* A thread that moves takes its permit and its identity from where it goes. *)
LEMMA MovesMap ==
  ASSUME AuthInv, NEW t \in Threads, NEW l, NEW r,
         pc' = [pc EXCEPT ![t] = l], req' = [req EXCEPT ![t] = r]
  PROVE  /\ Permit' = [Permit EXCEPT ![t] = PermitAt(l, r)]
         /\ Identity' = [Identity EXCEPT ![t] = IdentityAt(l, r)]
         /\ PermitAt(l, r) = Permit[t] => UNCHANGED Permit
         /\ IdentityAt(l, r) = Identity[t] => UNCHANGED Identity
<1>1. /\ pc'[t] = l /\ req'[t] = r
      /\ \A u \in Threads : u # t => pc'[u] = pc[u] /\ req'[u] = req[u]
  BY DEF AuthInv, TypeOK
<1>2. Permit' = [u \in Threads |-> PermitAt(pc'[u], req'[u])]
      /\ Identity' = [u \in Threads |-> IdentityAt(pc'[u], req'[u])]
  BY DEF Permit, Identity, PermitAt, IdentityAt
<1>3. /\ DOMAIN Permit = Threads /\ DOMAIN Identity = Threads
      /\ \A u \in Threads : Permit[u] = PermitAt(pc[u], req[u])
                              /\ Identity[u] = IdentityAt(pc[u], req[u])
  BY Held DEF Permit, Identity
<1>4. /\ Permit' = [u \in Threads |-> IF u = t THEN PermitAt(l, r) ELSE Permit[u]]
      /\ Identity' = [u \in Threads |-> IF u = t THEN IdentityAt(l, r) ELSE Identity[u]]
  <2>1. ASSUME NEW u \in Threads
        PROVE  /\ PermitAt(pc'[u], req'[u]) = IF u = t THEN PermitAt(l, r) ELSE Permit[u]
               /\ IdentityAt(pc'[u], req'[u]) = IF u = t THEN IdentityAt(l, r) ELSE Identity[u]
    <3>1. CASE u = t
      <4>1. pc'[u] = l /\ req'[u] = r
        BY <1>1, <3>1
      <4>2. PermitAt(pc'[u], req'[u]) = PermitAt(l, r)
            /\ IdentityAt(pc'[u], req'[u]) = IdentityAt(l, r)
        BY <4>1, Zenon
      <4> QED BY <3>1, <4>2, Zenon
    <3>2. CASE u # t
      <4>1. pc'[u] = pc[u] /\ req'[u] = req[u]
        BY <1>1, <3>2
      <4> QED BY <1>3, <3>2, <4>1, Zenon
    <3> QED BY <3>1, <3>2, Zenon
  <2> QED BY <1>2, <2>1, Zenon
<1>5. /\ Permit' = [Permit EXCEPT ![t] = PermitAt(l, r)]
      /\ Identity' = [Identity EXCEPT ![t] = IdentityAt(l, r)]
  BY <1>3, <1>4
<1>6. /\ PermitAt(l, r) = Permit[t] => UNCHANGED Permit
      /\ IdentityAt(l, r) = Identity[t] => UNCHANGED Identity
  <2>1. Permit = [u \in Threads |-> Permit[u]] /\ Identity = [u \in Threads |-> Identity[u]]
    BY DEF Permit, Identity
  <2> QED BY <1>4, <2>1
<1> QED BY <1>5, <1>6

LEMMA PermitMoves ==
  ASSUME AuthInv, NEW t \in Threads, NEW l, NEW r,
         pc' = [pc EXCEPT ![t] = l], req' = [req EXCEPT ![t] = r]
  PROVE  Permit' = [Permit EXCEPT ![t] = PermitAt(l, r)]
BY MovesMap, Zenon

LEMMA IdentityMoves ==
  ASSUME AuthInv, NEW t \in Threads, NEW l, NEW r,
         pc' = [pc EXCEPT ![t] = l], req' = [req EXCEPT ![t] = r]
  PROVE  Identity' = [Identity EXCEPT ![t] = IdentityAt(l, r)]
BY MovesMap, Zenon

(* Outside the places it is used in there is neither. *)
LEMMA NeitherHeld ==
  ASSUME NEW l, NEW r
  PROVE  /\ l \notin PastCode => PermitAt(l, r) = None
         /\ l \notin LoggedIn \cup {"remint"} => IdentityAt(l, r) = AStranger
BY DEF PermitAt, IdentityAt, AStranger

(* Coming in, a request has neither but for one with a good refresh token.  *)
LEMMA CallMaps ==
  ASSUME AuthInv, NEW t \in Threads, NEW l, NEW r, Call(t, l, r)
  PROVE  /\ PermitAt(l, r) = None => UNCHANGED Permit
         /\ l \notin LoggedIn \cup {"remint"} => UNCHANGED Identity
         /\ Identity[t] = AStranger
         /\ Identity' = [Identity EXCEPT ![t] = IdentityAt(l, r)]
<1>1. pc[t] = "idle" /\ pc' = [pc EXCEPT ![t] = l] /\ req' = [req EXCEPT ![t] = r]
  BY DEF Call, Goto
<1>2. Permit[t] = None /\ Identity[t] = AStranger
  <2>1. "idle" \notin PastCode /\ "idle" \notin LoggedIn \cup {"remint"}
    BY DEF PastCode, LoggedIn
  <2> QED BY <1>1, <2>1, Held, NeitherHeld
<1>3. /\ Identity' = [Identity EXCEPT ![t] = IdentityAt(l, r)]
      /\ PermitAt(l, r) = Permit[t] => UNCHANGED Permit
      /\ IdentityAt(l, r) = Identity[t] => UNCHANGED Identity
  <2>1. Identity' = [Identity EXCEPT ![t] = IdentityAt(l, r)]
    BY <1>1, IdentityMoves
  <2>2. PermitAt(l, r) = Permit[t] => UNCHANGED Permit
    BY <1>1, MovesMap
  <2>3. IdentityAt(l, r) = Identity[t] => UNCHANGED Identity
    BY <1>1, MovesMap
  <2> QED BY <2>1, <2>2, <2>3
<1>4. l \notin LoggedIn \cup {"remint"} => IdentityAt(l, r) = Identity[t]
  BY <1>2, NeitherHeld
<1> QED BY <1>2, <1>3, <1>4, Zenon

LEMMA AskRules == ASSUME AuthInv, NEW t \in Threads, Ask(t) PROVE [Rules!Next]_RuleVars
<1>1. "idle" \notin PastCode \cup LoggedIn \cup {"remint"}
  BY DEF PastCode, LoggedIn
<1>2. ASSUME NEW r, Call(t, "idle", r) PROVE UNCHANGED <<Permit, Identity>>
  BY <1>1, <1>2, CallMaps, NeitherHeld
<1>3. ASSUME NEW x \in Targets, CheckCode(t, x) PROVE UNCHANGED RuleVars
  BY <1>2, <1>3 DEF CheckCode, RuleVars
<1>4. ASSUME NEW x \in Targets, NEW c \in Codes, SendCode(t, x, c) PROVE Rules!Next
  <2>1. Rules!Send(x)
    BY <1>2, <1>4 DEF SendCode, Rules!Send
  <2> QED BY <2>1 DEF Rules!Next
<1>5. ASSUME NEW n \in Names, NEW p \in Passwords, NEW x \in Targets \cup {None},
             NEW c \in Codes \cup {None}, Register(t, n, p, x, c)
      PROVE  UNCHANGED RuleVars
  <2> DEFINE l == IF x # None /\ c # None THEN "regCode" ELSE "regFind"
             r == [NoRequest EXCEPT !.name = n, !.password = p, !.target = x, !.code = c]
  <2>1. Call(t, l, r) /\ l \notin LoggedIn \cup {"remint"}
    BY <1>5 DEF Register, LoggedIn
  <2>2. PermitAt(l, r) = None
    BY DEF PermitAt, PastCode, NoRequest
  <2> QED BY <1>5, <2>1, <2>2, CallMaps DEF Register, RuleVars
<1>6. ASSUME NEW a \in Names \cup Targets, NEW p \in Passwords, Login(t, a, p)
      PROVE  UNCHANGED RuleVars
  <2> DEFINE r == [NoRequest EXCEPT !.target = a, !.password = p]
  <2>1. Call(t, "find", r) /\ "find" \notin PastCode \cup LoggedIn \cup {"remint"}
    BY <1>6 DEF Login, PastCode, LoggedIn
  <2> QED BY <1>6, <2>1, CallMaps, NeitherHeld DEF Login, RuleVars
<1>7. ASSUME NEW r \in refresh, RefreshToken(t, r) PROVE [Rules!Next]_RuleVars
  <2>1. CASE Call(t, "idle", NoRequest)
    BY <1>2, <1>7, <2>1 DEF RefreshToken, RuleVars
  <2>2. CASE RefreshGood(r) /\ Call(t, "remint", [NoRequest EXCEPT !.name = r.name,
                                                    !.login = r.login, !.seen = now])
    <3> DEFINE q == [NoRequest EXCEPT !.name = r.name, !.login = r.login, !.seen = now]
    <3>1. IdentityAt("remint", q) = [name |-> r.name, by |-> "token", login |-> r.login, seen |-> now]
      BY DEF IdentityAt, LoggedIn, NoRequest
    <3>2. PermitAt("remint", q) = None
      BY NeitherHeld DEF PastCode
    <3> HIDE DEF q
    <3>3. /\ UNCHANGED Permit /\ Identity[t] = AStranger
          /\ Identity' = [Identity EXCEPT ![t] = IdentityAt("remint", q)]
      BY <2>2, <3>2, CallMaps DEF q
    <3>4. UNCHANGED <<now, users, sentAt, access, refresh>> /\ now <= r.expire
      BY <1>7, <2>2 DEF RefreshToken, RefreshGood
    <3>5. Identity[t].by = "nobody"
      BY <3>3 DEF AStranger
    <3>6. Rules!ByToken(t, r)
      BY <3>1, <3>3, <3>4, <3>5 DEF Rules!ByToken, Rules!Identify
    <3> QED BY <3>6 DEF Rules!Next
  <2> QED BY <1>7, <2>1, <2>2 DEF RefreshToken
<1>8. ASSUME NEW x \in Targets, NEW c \in Codes, NEW p \in Passwords, Reset(t, x, c, p)
      PROVE  UNCHANGED RuleVars
  <2> DEFINE r == [NoRequest EXCEPT !.target = x, !.code = c, !.password = p]
  <2>1. Call(t, "resetCode", r) /\ "resetCode" \notin PastCode \cup LoggedIn \cup {"remint"}
    BY <1>8 DEF Reset, PastCode, LoggedIn
  <2> QED BY <1>8, <2>1, CallMaps, NeitherHeld DEF Reset, RuleVars
<1> QED BY <1>3, <1>4, <1>5, <1>6, <1>7, <1>8 DEF Ask

(* Leaving its handler, a thread drops what it has. *)
LEMMA AnswerMaps ==
  ASSUME AuthInv, NEW t \in Threads, NEW a, Answer(t, a)
  PROVE  /\ Permit' = [Permit EXCEPT ![t] = None]
         /\ Identity' = [Identity EXCEPT ![t] = AStranger]
         /\ Identity[t] = AStranger => UNCHANGED Identity
         /\ Permit[t] = None => UNCHANGED Permit
<1>1. pc' = [pc EXCEPT ![t] = "idle"] /\ req' = [req EXCEPT ![t] = NoRequest]
  BY DEF Answer, Goto
<1>2. PermitAt("idle", NoRequest) = None /\ IdentityAt("idle", NoRequest) = AStranger
  BY NeitherHeld DEF PastCode, LoggedIn
<1>3. Permit' = [Permit EXCEPT ![t] = PermitAt("idle", NoRequest)]
  BY <1>1, PermitMoves
<1>4. Identity' = [Identity EXCEPT ![t] = IdentityAt("idle", NoRequest)]
  BY <1>1, IdentityMoves
<1>5. PermitAt("idle", NoRequest) = Permit[t] => UNCHANGED Permit
  BY <1>1, MovesMap
<1>6. IdentityAt("idle", NoRequest) = Identity[t] => UNCHANGED Identity
  BY <1>1, MovesMap
<1> QED BY <1>2, <1>3, <1>4, <1>5, <1>6

(* A refusal is a request that leaves. *)
LEMMA RefuseLeaves ==
  ASSUME AuthInv, NEW t \in Threads, Refuse(t), Identity[t] = AStranger,
         UNCHANGED <<now, access, refresh, users, sentAt>>
  PROVE  Rules!Next
<1>1. Answer(t, "refused")
  BY DEF Refuse
<1>2. Permit' = [Permit EXCEPT ![t] = None]
  BY <1>1, AnswerMaps
<1>3. UNCHANGED Identity
  BY <1>1, AnswerMaps
<1>4. Rules!Leave(t)
  BY <1>2, <1>3 DEF Rules!Leave
<1> QED BY <1>4 DEF Rules!Next

(* Going on, a thread takes what its new place gives it. *)
LEMMA ProceedMaps ==
  ASSUME AuthInv, NEW t \in Threads, NEW l, Proceed(t, l)
  PROVE  /\ Permit' = [Permit EXCEPT ![t] = PermitAt(l, req[t])]
         /\ PermitAt(l, req[t]) = Permit[t] => UNCHANGED Permit
         /\ IdentityAt(l, req[t]) = Identity[t] => UNCHANGED Identity
<1>1. pc' = [pc EXCEPT ![t] = l] /\ req' = [req EXCEPT ![t] = req[t]]
  BY DEF AuthInv, TypeOK, Proceed, Goto
<1>2. Permit' = [Permit EXCEPT ![t] = PermitAt(l, req[t])]
  BY <1>1, PermitMoves
<1>3. PermitAt(l, req[t]) = Permit[t] => UNCHANGED Permit
  BY <1>1, MovesMap
<1>4. IdentityAt(l, req[t]) = Identity[t] => UNCHANGED Identity
  BY <1>1, MovesMap
<1> QED BY <1>2, <1>3, <1>4

(* The code that lets a request past is the one good for its target.        *)
LEMMA UseCodeRules ==
  ASSUME AuthInv, NEW t \in Threads, NEW from, NEW to,
         <<from, to>> \in {<<"regCode", "regFind">>, <<"resetCode", "resetUpdate">>},
         UseCode(t, from, to)
  PROVE  [Rules!Next]_RuleVars
<1> DEFINE x == req[t].target
           c == req[t].code
<1>1. /\ pc[t] = from /\ UNCHANGED <<now, access, refresh, users, calls>>
      /\ from \in {"regCode", "resetCode"} /\ to \in {"regFind", "resetUpdate"}
  BY DEF UseCode
<1>2. x \in Targets
  BY <1>1 DEF AuthInv, Carries, Resetting
<1>3. Permit[t] = None /\ Identity[t] = AStranger
  <2>1. from \notin PastCode /\ from \notin LoggedIn \cup {"remint"}
    BY <1>1 DEF PastCode, LoggedIn
  <2> QED BY <1>1, <2>1, Held, NeitherHeld
<1>4. CASE CodeGood(x, c) /\ Spend(x, c) /\ Proceed(t, to)
  <2>1. codes[x] \in Code /\ codes[x].code = c /\ now <= codes[x].expire
    BY <1>2, <1>4 DEF CodeGood, AuthInv, TypeOK
  <2>2. c # None /\ sentAt[x] # None /\ now <= sentAt[x] + CodeTTL
    BY <1>2, <1>4, <2>1, AuthAssumption DEF CodeGood, Code, AuthInv, CodesDated
  <2>3. PermitAt(to, req[t]) = x
    BY <1>1, <2>2 DEF PermitAt, PastCode
  <2>4. Permit' = [Permit EXCEPT ![t] = x]
    BY <1>4, <2>3, ProceedMaps
  <2>5. UNCHANGED Identity
    <3>1. IdentityAt(to, req[t]) = AStranger
      BY <1>1, NeitherHeld DEF LoggedIn
    <3> QED BY <1>3, <1>4, <3>1, ProceedMaps
  <2>6. sentAt' = [sentAt EXCEPT ![x] = None]
    BY <1>4 DEF Spend
  <2>7. Rules!Admit(t, x)
    BY <1>1, <1>3, <2>2, <2>4, <2>5, <2>6 DEF Rules!Admit
  <2> QED BY <1>2, <2>7 DEF Rules!Next
<1>5. CASE ~CodeGood(x, c) /\ Expire(x) /\ Refuse(t) /\ UNCHANGED sentAt
  BY <1>1, <1>3, <1>5, RefuseLeaves
<1> QED BY <1>4, <1>5 DEF UseCode

(* One rule for each place inside a handler.  Where the INSERT fails, or    *)
(* the UPDATE, the permit is dropped all the same.                          *)
LEMMA HandleRules == ASSUME AuthInv, NEW t \in Threads, Handle(t) PROVE [Rules!Next]_RuleVars
<1>1. Permit[t] = PermitAt(pc[t], req[t]) /\ Identity[t] = IdentityAt(pc[t], req[t]) /\ Carries(t)
  BY Held DEF AuthInv
<1>2. CASE UseCode(t, "regCode", "regFind") \/ UseCode(t, "resetCode", "resetUpdate")
  BY <1>2, UseCodeRules
<1>3. CASE RegFind(t)
  <2>1. pc[t] = "regFind" /\ UNCHANGED <<now, access, refresh, users, sentAt>>
    BY <1>3 DEF RegFind
  <2>2. Identity[t] = AStranger
    BY <1>1, <2>1, NeitherHeld DEF LoggedIn
  <2>3. CASE Proceed(t, "regCreate")
    <3>1. PermitAt("regCreate", req[t]) = Permit[t]
      BY <1>1, <2>1 DEF PermitAt, PastCode
    <3>2. IdentityAt("regCreate", req[t]) = Identity[t]
      BY <2>2, NeitherHeld DEF LoggedIn
    <3> QED BY <2>1, <2>3, <3>1, <3>2, ProceedMaps DEF RuleVars
  <2>4. CASE Refuse(t)
    BY <2>1, <2>2, <2>4, RefuseLeaves
  <2> QED BY <1>3, <2>3, <2>4 DEF RegFind
<1>4. CASE RegCreate(t)
  <2> DEFINE n == req[t].name
             x == req[t].target
             p == req[t].password
  <2>1. /\ pc[t] = "regCreate" /\ UNCHANGED <<now, access, refresh, sentAt>>
        /\ n \in Names /\ x \in Targets \cup {None} /\ p \in Passwords
    BY <1>1, <1>4 DEF RegCreate, Carries, Registering
  <2>2. Identity[t] = AStranger /\ Permit[t] \in {x, None}
    BY <1>1, <2>1, NeitherHeld DEF LoggedIn, PermitAt
  <2>3. CASE /\ n \notin DOMAIN users
             /\ users' = Set(users, n, [target |-> x, password |-> p])
             /\ Done(t) \/ Refuse(t)
    <3>1. Permit' = [Permit EXCEPT ![t] = None] /\ UNCHANGED Identity
      BY <2>2, <2>3, AnswerMaps DEF Done, Refuse
    <3>2. users' = [m \in DOMAIN users \cup {n} |->
                      IF m = n THEN [target |-> x, password |-> p] ELSE users[m]]
      BY <2>3 DEF Set
    <3> HIDE DEF n, x, p
    <3>3. Rules!Claim(t, n, x, p)
      BY <2>1, <2>2, <2>3, <3>1, <3>2 DEF Rules!Claim
    <3> QED BY <2>1, <3>3 DEF Rules!Next
  <2>4. CASE Refuse(t) /\ UNCHANGED users
    BY <2>1, <2>2, <2>4, RefuseLeaves
  <2> QED BY <1>4, <2>3, <2>4 DEF RegCreate
<1>5. CASE Find(t)
  <2>1. pc[t] = "find" /\ UNCHANGED <<now, access, refresh, users, sentAt>>
    BY <1>5 DEF Find
  <2>2. Identity[t] = AStranger /\ Permit[t] = None
    BY <1>1, <2>1, NeitherHeld DEF LoggedIn, PastCode
  <2>3. CASE Refuse(t)
    BY <2>1, <2>2, <2>3, RefuseLeaves
  <2>4. ASSUME NEW n \in Matches(req[t].target), Goto(t, "mintAccess"),
               req' = [req EXCEPT ![t].name = n, ![t].seen = now]
        PROVE  Rules!Next
    <3> DEFINE q == [req[t] EXCEPT !.name = n, !.seen = now]
               who == [name |-> n, by |-> "password", login |-> now, seen |-> now]
    <3>1. req' = [req EXCEPT ![t] = q] /\ pc' = [pc EXCEPT ![t] = "mintAccess"]
      BY <2>4 DEF AuthInv, TypeOK, Goto
    <3>2. PermitAt("mintAccess", q) = Permit[t]
      BY <2>2, NeitherHeld DEF PastCode
    <3>3. IdentityAt("mintAccess", q) = who
      <4>1. q.name = n /\ q.seen = now
        BY DEF AuthInv, TypeOK, Request
      <4> QED BY <4>1 DEF IdentityAt, LoggedIn
    <3> HIDE DEF q
    <3>4. UNCHANGED Permit
      BY <3>1, <3>2, MovesMap
    <3>5. Identity' = [Identity EXCEPT ![t] = who]
      BY <3>1, <3>3, IdentityMoves
    <3>6. n \in DOMAIN users /\ Identity[t].by = "nobody"
      BY <2>2 DEF Matches, AStranger
    <3>7. Rules!ByPassword(t, n)
      BY <2>1, <3>4, <3>5, <3>6 DEF Rules!ByPassword, Rules!Identify
    <3> QED BY <3>6, <3>7 DEF Rules!Next
  <2> QED BY <1>5, <2>3, <2>4 DEF Find
<1>6. CASE MintAccess(t)
  <2>1. /\ pc[t] = "mintAccess" /\ UNCHANGED <<now, refresh, users, sentAt>>
        /\ access' = access \cup {NewAccess(req[t], req[t].seen)} /\ Proceed(t, "mintRefresh")
    BY <1>6 DEF MintAccess
  <2>2. Identity[t] = [name |-> req[t].name, by |-> "password",
                       login |-> req[t].seen, seen |-> req[t].seen]
        /\ Permit[t] = None
    BY <1>1, <2>1, NeitherHeld DEF IdentityAt, LoggedIn, PastCode
  <2>3. PermitAt("mintRefresh", req[t]) = Permit[t]
    BY <2>2, NeitherHeld DEF PastCode
  <2>4. IdentityAt("mintRefresh", req[t]) = Identity[t]
    BY <2>2 DEF IdentityAt, LoggedIn
  <2>5. UNCHANGED Permit
    BY <2>1, <2>3, ProceedMaps
  <2>6. UNCHANGED Identity
    BY <2>1, <2>4, ProceedMaps
  <2>7. Rules!GrantAccess(t)
    BY <2>1, <2>2, <2>5, <2>6 DEF NewAccess, Rules!GrantAccess
  <2> QED BY <2>7 DEF Rules!Next
<1>7. CASE MintRefresh(t)
  <2>1. /\ pc[t] = "mintRefresh" /\ UNCHANGED <<now, access, users, sentAt>> /\ Done(t)
        /\ refresh' = refresh \cup {[name |-> req[t].name, login |-> now, expire |-> now + RefreshTTL]}
    BY <1>7 DEF MintRefresh
  <2>2. Identity[t].by = "password" /\ Identity[t].name = req[t].name /\ Permit[t] = None
    BY <1>1, <2>1, NeitherHeld DEF IdentityAt, LoggedIn, PastCode
  <2>3. UNCHANGED Permit /\ Identity' = [Identity EXCEPT ![t] = AStranger]
    BY <2>1, <2>2, AnswerMaps DEF Done
  <2>4. Rules!GrantRefresh(t)
    BY <2>1, <2>2, <2>3 DEF AStranger, Rules!GrantRefresh, Rules!Stranger
  <2> QED BY <2>4 DEF Rules!Next
<1>8. CASE Remint(t)
  <2>1. /\ pc[t] = "remint" /\ UNCHANGED <<now, refresh, users, sentAt>> /\ Done(t)
        /\ access' = access \cup {NewAccess(req[t], req[t].login)}
    BY <1>8 DEF Remint
  <2>2. Identity[t] = [name |-> req[t].name, by |-> "token",
                       login |-> req[t].login, seen |-> req[t].seen]
        /\ Permit[t] = None
    BY <1>1, <2>1, NeitherHeld DEF IdentityAt, LoggedIn, PastCode
  <2>3. UNCHANGED Permit /\ Identity' = [Identity EXCEPT ![t] = AStranger]
    BY <2>1, <2>2, AnswerMaps DEF Done
  <2>4. Rules!GrantAccess(t)
    BY <2>1, <2>2, <2>3 DEF NewAccess, AStranger, Rules!GrantAccess, Rules!Stranger
  <2> QED BY <2>4 DEF Rules!Next
<1>9. CASE ResetUpdate(t)
  <2> DEFINE x == req[t].target
             p == req[t].password
  <2>1. /\ pc[t] = "resetUpdate" /\ UNCHANGED <<now, access, refresh, sentAt>>
        /\ x \in Targets /\ x # None /\ p \in Passwords /\ req[t].code # None
    BY <1>1, <1>9, AuthAssumption DEF ResetUpdate, Carries, Resetting
  <2>2. Identity[t] = AStranger /\ Permit[t] = x
    BY <1>1, <2>1, NeitherHeld DEF LoggedIn, PermitAt, PastCode
  <2>3. CASE /\ Done(t) \/ Refuse(t)
             /\ users' = [n \in DOMAIN users |-> IF n \in Matches(x)
                            THEN [users[n] EXCEPT !.password = p] ELSE users[n]]
    <3>1. Permit' = [Permit EXCEPT ![t] = None] /\ UNCHANGED Identity
      BY <2>2, <2>3, AnswerMaps DEF Done, Refuse
    <3>2. Rules!Rows(x) = Matches(x)
      BY DEF Rules!Rows, Matches
    <3> HIDE DEF x, p
    <3>3. Rules!ChangePassword(t, p)
      BY <2>1, <2>2, <2>3, <3>1, <3>2 DEF Rules!ChangePassword
    <3> QED BY <2>1, <3>3 DEF Rules!Next
  <2>4. CASE Refuse(t) /\ UNCHANGED users
    BY <2>1, <2>2, <2>4, RefuseLeaves
  <2> QED BY <1>9, <2>3, <2>4 DEF ResetUpdate
<1> QED BY <1>2, <1>3, <1>4, <1>5, <1>6, <1>7, <1>8, <1>9 DEF Handle

LEMMA RulesStep == AuthInv /\ [Next]_vars => [Rules!Next]_RuleVars
<1> SUFFICES ASSUME AuthInv, [Next]_vars PROVE [Rules!Next]_RuleVars
  OBVIOUS
<1>1. CASE \E t \in Threads : Handle(t) \/ Ask(t)
  BY <1>1, HandleRules, AskRules
<1>2. CASE Tick
  <2>1. UNCHANGED <<Permit, Identity>>
    BY <1>2 DEF Tick, Permit, Identity, PermitAt, IdentityAt
  <2>2. Rules!Tick
    BY <1>2, <2>1 DEF Tick, Rules!Tick
  <2> QED BY <2>2 DEF Rules!Next
<1>3. CASE Restart
  <2>1. Permit' = [t \in Threads |-> None] /\ Identity' = [t \in Threads |-> AStranger]
    BY <1>3 DEF Restart, Permit, Identity, PermitAt, IdentityAt, PastCode, LoggedIn, AStranger
  <2>2. Rules!Restart
    BY <1>3, <2>1 DEF Restart, AStranger, Rules!Restart, Rules!NoCodes, Rules!NoPermits,
                      Rules!Strangers, Rules!Stranger
  <2> QED BY <2>2 DEF Rules!Next
<1>4. CASE UNCHANGED vars
  BY <1>4 DEF vars, RuleVars, Permit, Identity, PermitAt, IdentityAt
<1> QED BY <1>1, <1>2, <1>3, <1>4 DEF Next

(* For any number of threads, names, targets and codes, any times to live   *)
(* and any interleaving of their queries and holds of the mutex, the        *)
(* handlers of AuthService keep the rules of AccountRules: a code lets one  *)
(* request in, that request registers a free name or changes the passwords  *)
(* of the rows its target names once at most, and tokens are made for those *)
(* who showed a password or a refresh token in time, and for nobody else.   *)
THEOREM AuthRefinement == Spec => ImplementsAccountRules
BY RulesInit, RulesStep, AuthInvariant, PTL DEF Spec, ImplementsAccountRules, Rules!Spec, RuleVars
=============================================================================
