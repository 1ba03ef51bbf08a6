---------------------------- MODULE AccountRules ----------------------------
(***************************************************************************)
(* The rules AuthService keeps about accounts, without maps that expire    *)
(* lazily, steps of a handler or mutexes.                                  *)
(*                                                                         *)
(* A code sent to a target lets one request in, in time; that request then *)
(* holds a permit for the target, which it uses once or drops.  A name     *)
(* that is free may be claimed, with a permit for the target it is claimed *)
(* with or without any; a row changes only in its password, by a request   *)
(* with a permit that names it.  A request that has identified itself for  *)
(* a row, by password or by a refresh token that is still good, may be     *)
(* granted an access token, and only the former a new refresh token.  A    *)
(* restart ends all but the rows.                                          *)
(***************************************************************************)
EXTENDS Integers

CONSTANTS Threads, Names, Targets, Passwords, CodeTTL, TokenTTL, RefreshTTL, None

VARIABLES now, users,      \* the clock and the rows
          sent,            \* when the code that is good for a target was sent
          permit, identity, \* of each request: the target it was let in for, who it is
          access, refresh  \* the tokens

Rows(x) == {n \in DOMAIN users : n = x \/ users[n].target = x}
Stranger == [name |-> None, by |-> "nobody", login |-> 0, seen |-> 0]
NoPermits == [t \in Threads |-> None]
Strangers == [t \in Threads |-> Stranger]
NoCodes == [x \in Targets |-> None]

Init == /\ now = 0
        /\ \E S \in SUBSET Names :
             users \in [S -> [target : Targets \cup {None}, password : Passwords]]
        /\ sent = NoCodes /\ permit = NoPermits /\ identity = Strangers
        /\ access = {} /\ refresh = {}

Send(x) == /\ UNCHANGED <<now, users, access, refresh, permit, identity>>
           /\ sent' = [sent EXCEPT ![x] = now]

Admit(t, x) == /\ sent[x] # None /\ now <= sent[x] + CodeTTL
               /\ sent' = [sent EXCEPT ![x] = None]
               /\ permit[t] = None /\ permit' = [permit EXCEPT ![t] = x]
               /\ UNCHANGED <<now, users, identity, access, refresh>>

Claim(t, n, x, p) ==
  /\ n \notin DOMAIN users
  /\ permit[t] \in {x, None}
  /\ users' = [m \in DOMAIN users \cup {n} |->
                 IF m = n THEN [target |-> x, password |-> p] ELSE users[m]]
  /\ permit' = [permit EXCEPT ![t] = None]
  /\ UNCHANGED <<now, sent, identity, access, refresh>>

ChangePassword(t, p) ==
  /\ UNCHANGED <<now, sent, access, refresh>>
  /\ permit[t] # None
  /\ users' = [n \in DOMAIN users |->
                 IF n \in Rows(permit[t]) THEN [users[n] EXCEPT !.password = p] ELSE users[n]]
  /\ permit' = [permit EXCEPT ![t] = None]
  /\ UNCHANGED identity

Leave(t) == /\ UNCHANGED <<now, users, sent, access, refresh, identity>>
            /\ permit' = [permit EXCEPT ![t] = None]

Identify(t, who) == /\ UNCHANGED <<now, users, sent, access, refresh, permit>>
                    /\ identity[t].by = "nobody"
                    /\ identity' = [identity EXCEPT ![t] = who]

ByPassword(t, n) ==
  /\ n \in DOMAIN users
  /\ Identify(t, [name |-> n, by |-> "password", login |-> now, seen |-> now])

ByToken(t, r) ==
  /\ now <= r.expire
  /\ Identify(t, [name |-> r.name, by |-> "token", login |-> r.login, seen |-> now])

\* Someone identified by password stays for a refresh token.
GrantAccess(t) ==
  /\ UNCHANGED <<now, users, sent, refresh>>
  /\ identity[t].by # "nobody"
  /\ access' = access \cup {[name |-> identity[t].name, login |-> identity[t].login,
                             seen |-> identity[t].seen, expire |-> now + TokenTTL]}
  /\ identity' = IF identity[t].by = "password" THEN identity
                 ELSE [identity EXCEPT ![t] = Stranger]
  /\ UNCHANGED permit

GrantRefresh(t) ==
  /\ UNCHANGED <<now, users, sent, access>>
  /\ identity[t].by = "password"
  /\ refresh' = refresh \cup {[name |-> identity[t].name, login |-> now,
                               expire |-> now + RefreshTTL]}
  /\ identity' = [identity EXCEPT ![t] = Stranger]
  /\ UNCHANGED permit

Tick == now' = now + 1 /\ UNCHANGED <<users, sent, access, refresh, permit, identity>>

Restart == /\ UNCHANGED <<now, users>>
           /\ sent' = NoCodes /\ access' = {} /\ refresh' = {}
           /\ permit' = NoPermits /\ identity' = Strangers

Next == \/ \E t \in Threads : Leave(t)
        \/ Tick \/ Restart
        \/ \E x \in Targets : Send(x)
        \/ \E t \in Threads :
             \/ GrantAccess(t) \/ GrantRefresh(t)
             \/ \E x \in Targets : Admit(t, x)
             \/ \E p \in Passwords : ChangePassword(t, p)
             \/ \E n \in Names, x \in Targets \cup {None}, p \in Passwords : Claim(t, n, x, p)
             \/ \E n \in DOMAIN users : ByPassword(t, n)
             \/ \E r \in refresh : ByToken(t, r)

Spec == Init /\ [][Next]_<<now, users, sent, permit, identity, access, refresh>>
=============================================================================
