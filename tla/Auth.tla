------------------------------- MODULE Auth -------------------------------
(***************************************************************************)
(* Accounts, verification codes and tokens: AuthService (src/src/          *)
(* AuthService.cpp) over CacheManager's maps of codes and tokens           *)
(* (src/src/Cache.cpp) and the table users.  Worker threads run the        *)
(* handlers side by side; each critical section of CacheManager and each   *)
(* query is one step, so that everything a handler has read may be stale   *)
(* when it acts on it.  A restart loses the codes and the tokens and keeps *)
(* the table.                                                              *)
(*                                                                         *)
(* Requests with a missing field are turned away with 400 at once and left *)
(* out.  A hash stands for its password.  Tokens are random and distinct;  *)
(* those of one name and the same times are told apart by nothing here.    *)
(***************************************************************************)
EXTENDS Integers, FiniteSets

CONSTANTS Threads, Names, Targets, Passwords, Codes,
          CodeTTL, TokenTTL, RefreshTTL, \* of config.ini
          MaxTime, MaxCalls,             \* bounds of the model
          None

ASSUME AuthAssumption ==
  /\ {CodeTTL, TokenTTL, RefreshTTL, MaxTime, MaxCalls} \subseteq Nat
  /\ None \notin Names \cup Targets \cup Passwords \cup Codes \cup Nat

VARIABLES now,     \* steady_clock, and the wall clock
          codes,   \* codes_: the code of each target and when it expires
          access,  \* access_tokens_
          refresh, \* refresh_tokens_
          users,   \* rows of the table, by their UNIQUE username
          pc, req, \* of each thread: where it is in a handler, its arguments
          answer,  \* what the last step answered, where it ended a handler
          sentAt,  \* history: when the code now good for a target was sent
          calls    \* history: requests made so far

vars == <<now, codes, access, refresh, users, pc, req, answer, sentAt, calls>>

Time == 0..MaxTime
User == [target : Targets \cup {None}, password : Passwords]
Code == [code : Codes, expire : 0..(MaxTime + CodeTTL)]
\* login: when the login it goes back to made its refresh token; seen: when the
\* password or the refresh token it was given for was last looked at.
Access == [name : Names, login : Time, seen : Time, expire : 0..(MaxTime + TokenTTL)]
Refresh == [name : Names, login : Time, expire : 0..(MaxTime + RefreshTTL)]
Request == [name : Names \cup {None}, target : Names \cup Targets \cup {None},
            code : Codes \cup {None}, password : Passwords \cup {None},
            login : Time, seen : Time]
NoRequest == [name |-> None, target |-> None, code |-> None, password |-> None,
              login |-> 0, seen |-> 0]
Steps == {"idle", "regCode", "regFind", "regCreate", "find", "mintAccess", "mintRefresh",
          "remint", "resetCode", "resetUpdate"}

TypeOK == /\ now \in Time /\ calls \in 0..MaxCalls
          /\ codes \in [Targets -> Code \cup {None}]
          /\ access \subseteq Access /\ refresh \subseteq Refresh
          /\ DOMAIN users \subseteq Names /\ \A n \in DOMAIN users : users[n] \in User
          /\ pc \in [Threads -> Steps] /\ req \in [Threads -> Request]
          /\ answer \in {"none", "ok", "refused"}
          /\ sentAt \in [Targets -> Time \cup {None}]

Empty == /\ codes = [x \in Targets |-> None] /\ access = {} /\ refresh = {}
         /\ sentAt = [x \in Targets |-> None]
         /\ pc = [t \in Threads |-> "idle"] /\ req = [t \in Threads |-> NoRequest]
         /\ answer = "none"
(* Any table earlier runs may have left. *)
Init == /\ Empty /\ now = 0 /\ calls = 0
        /\ \E S \in SUBSET Names : users \in [S -> User]

Goto(t, l) == pc' = [pc EXCEPT ![t] = l]
(* The end of a handler; a refusal stands for any of its 4xx and 5xx codes. *)
Answer(t, a) == /\ Goto(t, "idle") /\ answer' = a
                /\ req' = [req EXCEPT ![t] = NoRequest]
Done(t) == Answer(t, "ok")
Refuse(t) == Answer(t, "refused")
Proceed(t, l) == Goto(t, l) /\ answer' = "none" /\ UNCHANGED req
Set(f, x, v) == [y \in DOMAIN f \cup {x} |-> IF y = x THEN v ELSE f[y]]
(* WHERE phone_email = a OR username = a *)
Matches(a) == {n \in DOMAIN users : n = a \/ users[n].target = a}

-----------------------------------------------------------------------------
(* Faulty variants, each a bug such code may have; no part of Spec. *)

\* The code is not erased.
CodeKept(x, c) == UNCHANGED codes /\ sentAt' = [sentAt EXCEPT ![x] = None]

\* INSERT ... ON DUPLICATE KEY UPDATE, as addFavorite has it.
CreateOrUpdate(t) ==
  /\ pc[t] = "regCreate" /\ Done(t)
  /\ users' = Set(users, req[t].name, [target |-> req[t].target, password |-> req[t].password])
  /\ UNCHANGED <<now, codes, access, refresh, sentAt, calls>>

\* The refresh token's expiry is not looked at.
ValidateAny(r) == TRUE

\* The token carries the account as it was typed.
FindKeepsAccount(t) ==
  /\ pc[t] = "find"
  /\ \/ Refuse(t)
     \/ /\ \E n \in Matches(req[t].target) : users[n].password = req[t].password
        /\ Goto(t, "mintAccess") /\ answer' = "none"
        /\ req' = [req EXCEPT ![t].name = req[t].target, ![t].seen = now]
  /\ UNCHANGED <<now, codes, access, refresh, users, sentAt, calls>>

\* The two times to live the wrong way round.
LongAccess(r, login) == [name |-> r.name, login |-> login, seen |-> r.seen,
                         expire |-> now + RefreshTTL]

-----------------------------------------------------------------------------
(* CacheManager::verifyCode. *)
CodeGood(x, c) == codes[x] # None /\ now <= codes[x].expire /\ codes[x].code = c
Expire(x) == IF codes[x] # None /\ now > codes[x].expire
             THEN codes' = [codes EXCEPT ![x] = None] ELSE UNCHANGED codes
Spend(x, c) == /\ codes' = [codes EXCEPT ![x] = None]
               /\ sentAt' = [sentAt EXCEPT ![x] = None]

(* validateRefreshToken. *)
RefreshGood(r) == now <= r.expire

Call(t, l, r) == /\ pc[t] = "idle" /\ calls < MaxCalls /\ calls' = calls + 1
                 /\ Goto(t, l) /\ req' = [req EXCEPT ![t] = r]
                 /\ answer' = "none"

(* sendVerificationCode replaces whatever code the target had. *)
SendCode(t, x, c) ==
  /\ Call(t, "idle", NoRequest)
  /\ codes' = [codes EXCEPT ![x] = [code |-> c, expire |-> now + CodeTTL]]
  /\ sentAt' = [sentAt EXCEPT ![x] = now]
  /\ UNCHANGED <<now, access, refresh, users>>

(* AuthService::verifyCode looks without consuming; it drops an expired code. *)
CheckCode(t, x) ==
  /\ Call(t, "idle", NoRequest) /\ Expire(x)
  /\ UNCHANGED <<now, access, refresh, users, sentAt>>

(* registerUser: the code is checked only where both it and its target are  *)
(* given, and it is spent before the name is looked at.                     *)
Register(t, n, p, x, c) ==
  /\ Call(t, IF x # None /\ c # None THEN "regCode" ELSE "regFind",
          [NoRequest EXCEPT !.name = n, !.password = p, !.target = x, !.code = c])
  /\ UNCHANGED <<now, codes, access, refresh, users, sentAt>>

UseCode(t, from, to) ==
  LET x == req[t].target
      c == req[t].code
  IN  /\ pc[t] = from
      /\ \/ CodeGood(x, c) /\ Spend(x, c) /\ Proceed(t, to)
         \/ ~CodeGood(x, c) /\ Expire(x) /\ Refuse(t) /\ UNCHANGED sentAt
      /\ UNCHANGED <<now, access, refresh, users, calls>>

(* A failed query finds nobody. *)
RegFind(t) ==
  /\ pc[t] = "regFind"
  /\ \/ req[t].name \in DOMAIN users /\ Refuse(t)
     \/ Proceed(t, "regCreate")
  /\ UNCHANGED <<now, codes, access, refresh, users, sentAt, calls>>

(* The INSERT fails on a name that has appeared since, or for its own        *)
(* reasons; one that MySQL ran is refused too if its reply is lost.         *)
RegCreate(t) ==
  /\ pc[t] = "regCreate"
  /\ \/ /\ req[t].name \notin DOMAIN users
        /\ users' = Set(users, req[t].name,
                        [target |-> req[t].target, password |-> req[t].password])
        /\ Done(t) \/ Refuse(t)
     \/ Refuse(t) /\ UNCHANGED users
  /\ UNCHANGED <<now, codes, access, refresh, sentAt, calls>>

(* login by name or target: LIMIT 1 leaves the choice of the row to MySQL. *)
Login(t, a, p) ==
  /\ Call(t, "find", [NoRequest EXCEPT !.target = a, !.password = p])
  /\ UNCHANGED <<now, codes, access, refresh, users, sentAt>>

Find(t) ==
  /\ pc[t] = "find"
  /\ \/ Refuse(t)
     \/ \E n \in Matches(req[t].target) :
          IF users[n].password # req[t].password THEN Refuse(t)
          ELSE /\ Goto(t, "mintAccess") /\ answer' = "none"
               /\ req' = [req EXCEPT ![t].name = n, ![t].seen = now]
  /\ UNCHANGED <<now, codes, access, refresh, users, sentAt, calls>>

NewAccess(r, login) == [name |-> r.name, login |-> login, seen |-> r.seen,
                        expire |-> now + TokenTTL]

MintAccess(t) ==
  /\ pc[t] = "mintAccess"
  /\ access' = access \cup {NewAccess(req[t], req[t].seen)}
  /\ Proceed(t, "mintRefresh")
  /\ UNCHANGED <<now, codes, refresh, users, sentAt, calls>>

MintRefresh(t) ==
  /\ pc[t] = "mintRefresh"
  /\ refresh' = refresh \cup {[name |-> req[t].name, login |-> now, expire |-> now + RefreshTTL]}
  /\ Done(t)
  /\ UNCHANGED <<now, codes, access, users, sentAt, calls>>

(* refreshToken: the refresh token is looked at, and the new access token   *)
(* made, under two holds of the mutex.                                      *)
RefreshToken(t, r) ==
  /\ \/ /\ RefreshGood(r)
        /\ Call(t, "remint", [NoRequest EXCEPT !.name = r.name, !.login = r.login, !.seen = now])
     \/ ~RefreshGood(r) /\ Call(t, "idle", NoRequest)
  /\ UNCHANGED <<now, codes, access, refresh, users, sentAt>>

Remint(t) ==
  /\ pc[t] = "remint"
  /\ access' = access \cup {NewAccess(req[t], req[t].login)}
  /\ Done(t)
  /\ UNCHANGED <<now, codes, refresh, users, sentAt, calls>>

(* resetPassword: updatePasswordByTarget reports that the UPDATE ran and    *)
(* its reply came, not that it found a row.                                 *)
Reset(t, x, c, p) ==
  /\ Call(t, "resetCode", [NoRequest EXCEPT !.target = x, !.code = c, !.password = p])
  /\ UNCHANGED <<now, codes, access, refresh, users, sentAt>>

ResetUpdate(t) ==
  /\ pc[t] = "resetUpdate"
  /\ \/ /\ users' = [n \in DOMAIN users |-> IF n \in Matches(req[t].target)
                       THEN [users[n] EXCEPT !.password = req[t].password] ELSE users[n]]
        /\ Done(t) \/ Refuse(t)
     \/ Refuse(t) /\ UNCHANGED users
  /\ UNCHANGED <<now, codes, access, refresh, sentAt, calls>>

Tick == /\ now < MaxTime /\ now' = now + 1 /\ answer' = "none"
        /\ UNCHANGED <<codes, access, refresh, users, pc, req, sentAt, calls>>

(* The process is killed and started again. *)
Restart == /\ codes' = [x \in Targets |-> None] /\ access' = {} /\ refresh' = {}
           /\ sentAt' = [x \in Targets |-> None]
           /\ pc' = [t \in Threads |-> "idle"] /\ req' = [t \in Threads |-> NoRequest]
           /\ answer' = "none"
           /\ UNCHANGED <<now, users, calls>>

Handle(t) == \/ UseCode(t, "regCode", "regFind") \/ RegFind(t) \/ RegCreate(t)
             \/ Find(t) \/ MintAccess(t) \/ MintRefresh(t) \/ Remint(t)
             \/ UseCode(t, "resetCode", "resetUpdate") \/ ResetUpdate(t)

Ask(t) == \/ \E x \in Targets : CheckCode(t, x) \/ (\E c \in Codes : SendCode(t, x, c))
          \/ \E n \in Names, p \in Passwords, x \in Targets \cup {None},
                c \in Codes \cup {None} : Register(t, n, p, x, c)
          \/ \E a \in Names \cup Targets, p \in Passwords : Login(t, a, p)
          \/ \E r \in refresh : RefreshToken(t, r)
          \/ \E x \in Targets, c \in Codes, p \in Passwords : Reset(t, x, c, p)

Next == (\E t \in Threads : Handle(t) \/ Ask(t)) \/ Tick \/ Restart

Spec == Init /\ [][Next]_vars

-----------------------------------------------------------------------------
(* A registration or a reset that passes its code passes one sent to that   *)
(* very target, no longer ago than its time to live, and never one that let *)
(* another request pass before: sentAt forgets a code once it is spent.     *)
CodeSpentOnceInTime ==
  [][\A t \in Threads :
       <<pc[t], pc'[t]>> \in {<<"regCode", "regFind">>, <<"resetCode", "resetUpdate">>}
       => /\ sentAt[req[t].target] # None
          /\ now <= sentAt[req[t].target] + CodeTTL]_vars

(* A name belongs to whoever registered it first, even where two requests   *)
(* found it free: nothing but a reset changes its row, and that only the    *)
(* password, of the accounts its target names.                              *)
NameKeepsItsOwner ==
  [][\A n \in DOMAIN users :
       /\ n \in DOMAIN users'
       /\ users'[n].target = users[n].target
       /\ users'[n].password # users[n].password
            => \E t \in Threads : pc[t] = "resetUpdate" /\ n \in Matches(req[t].target)]_vars

(* However often it is refreshed, a session lapses: no access token is made *)
(* from a refresh token looked at later than its time to live after the     *)
(* login it goes back to.                                                   *)
SessionLapses == \A a \in access : a.seen <= a.login + RefreshTTL

(* A token carries the name of a row, found by name or by target, whatever  *)
(* registrations and resets went on while it was made.                      *)
TokensNameUsers == \A a \in access \cup refresh : a.name \in DOMAIN users

(* A request past a code holds a permit; one that mints tokens has said who *)
(* it is.                                                                   *)
PastCode == {"regFind", "regCreate", "resetUpdate"}
LoggedIn == {"mintAccess", "mintRefresh"}
PermitAt(l, r) == IF l \in PastCode /\ r.code # None THEN r.target ELSE None
IdentityAt(l, r) ==
  CASE l \in LoggedIn -> [name |-> r.name, by |-> "password", login |-> r.seen, seen |-> r.seen]
    [] l = "remint" -> [name |-> r.name, by |-> "token", login |-> r.login, seen |-> r.seen]
    [] OTHER -> [name |-> None, by |-> "nobody", login |-> 0, seen |-> 0]
Permit == [t \in Threads |-> PermitAt(pc[t], req[t])]
Identity == [t \in Threads |-> IdentityAt(pc[t], req[t])]
Rules == INSTANCE AccountRules WITH sent <- sentAt, permit <- Permit, identity <- Identity
(* The handlers, interleaved at every query and every hold of the mutex,    *)
(* keep the rules of accounts: one code lets one request in, which then     *)
(* registers a free name or changes passwords, once, and a token is made    *)
(* only for who has shown a password or a refresh token in time.            *)
ImplementsAccountRules == Rules!Spec

(* A reset that reports success changed somebody's password: the message    *)
(* for its failure is that the target may not exist.                        *)
ResetMeansChanged ==
  [][\A t \in Threads : pc[t] = "resetUpdate" /\ pc'[t] = "idle" /\ answer' = "ok"
       => Matches(req[t].target) # {}]_vars
=============================================================================
