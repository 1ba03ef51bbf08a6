---------------------------- MODULE DatabasePool ----------------------------
(***************************************************************************)
(* The MySQL connection pool (src/src/Database.cpp): a queue of handles    *)
(* behind a mutex and a condition variable, used by the request handlers   *)
(* through ScopedConnection.  Every worker thread of the server calls      *)
(* getConnection, runs its query and lets the ScopedConnection go; the     *)
(* main thread runs init() before any worker and close() at exit.          *)
(*                                                                         *)
(* A critical section that calls into MySQL (the ping and the reconnect of *)
(* getConnection) is split at those calls and keeps the mutex meanwhile;   *)
(* every other critical section is one step.  The MySQL server may fail    *)
(* and recover between any two steps.                                      *)
(***************************************************************************)
EXTENDS Integers, Sequences, FiniteSets, Functions

CONSTANTS Threads,   \* the server's worker threads
          Handles,   \* MYSQL* values; a closed one may be handed out again
          PoolSize,  \* mysql_pool_size of the configuration
          NoHandle,  \* the null MYSQL*
          NoThread   \* the mutex is free

ASSUME PoolAssumption ==
  /\ IsFiniteSet(Threads) /\ IsFiniteSet(Handles)
  /\ PoolSize \in Nat /\ PoolSize <= Cardinality(Handles)
  /\ NoHandle \notin Handles \cup Threads
  /\ NoThread \notin Threads \cup {NoHandle}

VARIABLES pool,        \* pool_, the idle handles in FIFO order
          mutex,       \* the thread inside getConnection's MySQL calls
          initialized, \* is_initialized_
          booted,      \* init() has returned and the workers run
          attempts,    \* i of init()'s loop
          pc,          \* where each worker is
          conn,        \* conn of getConnection, then conn_ of its ScopedConnection
          mysqlUp      \* does the MySQL server answer?

vars == <<pool, mutex, initialized, booted, attempts, pc, conn, mysqlUp>>

Locations == {"idle", "acquire", "waiting", "ping", "reconnect", "using"}
At(l) == {t \in Threads : pc[t] = l}
Waiting == At("waiting")

Pooled == Range(pool)
Held == {h \in Handles : \E t \in Threads : conn[t] = h}
Open == Pooled \cup Held

TypeOK == /\ pool \in Seq(Handles)
          /\ mutex \in Threads \cup {NoThread}
          /\ initialized \in BOOLEAN /\ booted \in BOOLEAN /\ mysqlUp \in BOOLEAN
          /\ attempts \in 0..PoolSize
          /\ pc \in [Threads -> Locations]
          /\ conn \in [Threads -> Handles \cup {NoHandle}]

Init == /\ pool = <<>> /\ mutex = NoThread
        /\ initialized = FALSE /\ booted = FALSE /\ attempts = 0
        /\ pc = [t \in Threads |-> "idle"]
        /\ conn = [t \in Threads |-> NoHandle]
        /\ mysqlUp \in BOOLEAN

-----------------------------------------------------------------------------
(* Faulty variants of the operations below, each a bug such code may have;  *)
(* they are no part of Spec, and every property has one that breaks it.     *)

\* The front handle is read and never popped.
TakeWithoutPop(t) ==
  /\ pc[t] = "acquire" /\ mutex = NoThread /\ initialized /\ pool # <<>>
  /\ conn' = [conn EXCEPT ![t] = Head(pool)] /\ mutex' = t
  /\ pc' = [pc EXCEPT ![t] = "ping"]
  /\ UNCHANGED <<pool, initialized, booted, attempts, mysqlUp>>

\* A handle that came back after close() is handed out.
TakeAfterClose(t) ==
  /\ pc[t] = "acquire" /\ mutex = NoThread /\ pool # <<>>
  /\ conn' = [conn EXCEPT ![t] = Head(pool)] /\ pool' = Tail(pool) /\ mutex' = t
  /\ pc' = [pc EXCEPT ![t] = "ping"]
  /\ UNCHANGED <<initialized, booted, attempts, mysqlUp>>

\* The null handle of a failed reconnect is returned to the pool like any other.
ReconnectUnchecked(t) ==
  /\ pc[t] = "reconnect"
  /\ \/ mysqlUp /\ UNCHANGED conn
     \/ ~mysqlUp /\ conn' = [conn EXCEPT ![t] = NoHandle]
  /\ pc' = [pc EXCEPT ![t] = "using"]
  /\ mutex' = NoThread
  /\ UNCHANGED <<pool, initialized, booted, attempts, mysqlUp>>

\* The handle is closed after the query and not queued again.
ReleaseForgets(t) ==
  /\ pc[t] = "using" /\ mutex = NoThread
  /\ conn' = [conn EXCEPT ![t] = NoHandle]
  /\ pc' = [pc EXCEPT ![t] = "idle"]
  /\ UNCHANGED <<pool, mutex, initialized, booted, attempts, mysqlUp>>

\* A waiter is notified only if the queue was empty.
NotifyIfWasEmpty(at) ==
  IF pool # <<>> \/ \A u \in Threads : at[u] # "waiting" THEN pc' = at
  ELSE \E u \in Threads : at[u] = "waiting" /\ pc' = [at EXCEPT ![u] = "acquire"]

-----------------------------------------------------------------------------
(* init(), run by main before the workers: PoolSize attempts, each of which *)
(* may fail, then is_initialized_ if at least one succeeded.                *)
Connect ==
  /\ ~booted /\ attempts < PoolSize
  /\ attempts' = attempts + 1
  /\ \/ mysqlUp /\ \E h \in Handles \ Open : pool' = Append(pool, h)
     \/ ~mysqlUp /\ UNCHANGED pool
  /\ UNCHANGED <<mutex, initialized, booted, pc, conn, mysqlUp>>

FinishInit ==
  /\ ~booted /\ attempts = PoolSize
  /\ booted' = TRUE
  /\ initialized' = (pool # <<>>)
  /\ UNCHANGED <<pool, mutex, attempts, pc, conn, mysqlUp>>

(* A handler enters getConnection. *)
Call(t) ==
  /\ booted /\ pc[t] = "idle"
  /\ pc' = [pc EXCEPT ![t] = "acquire"]
  /\ UNCHANGED <<pool, mutex, initialized, booted, attempts, conn, mysqlUp>>

(* The lock is taken and the predicate of cv_.wait is false. *)
Wait(t) ==
  /\ pc[t] = "acquire" /\ mutex = NoThread
  /\ pool = <<>> /\ initialized
  /\ pc' = [pc EXCEPT ![t] = "waiting"]
  /\ UNCHANGED <<pool, mutex, initialized, booted, attempts, conn, mysqlUp>>

(* The predicate holds but the pool is not initialised: nullptr. *)
FailFast(t) ==
  /\ pc[t] = "acquire" /\ mutex = NoThread
  /\ ~initialized
  /\ pc' = [pc EXCEPT ![t] = "idle"]
  /\ UNCHANGED <<pool, mutex, initialized, booted, attempts, conn, mysqlUp>>

(* The front handle leaves the queue; the mutex stays locked for the ping. *)
Take(t) ==
  /\ pc[t] = "acquire" /\ mutex = NoThread
  /\ initialized /\ pool # <<>>
  /\ conn' = [conn EXCEPT ![t] = Head(pool)]
  /\ pool' = Tail(pool)
  /\ mutex' = t
  /\ pc' = [pc EXCEPT ![t] = "ping"]
  /\ UNCHANGED <<initialized, booted, attempts, mysqlUp>>

(* mysql_ping, with MYSQL_OPT_RECONNECT: it fails only while MySQL is away, *)
(* and the handle is then closed (conn keeps the dangling pointer).         *)
Ping(t) ==
  /\ pc[t] = "ping"
  /\ \/ mysqlUp /\ pc' = [pc EXCEPT ![t] = "using"] /\ mutex' = NoThread
     \/ ~mysqlUp /\ pc' = [pc EXCEPT ![t] = "reconnect"] /\ UNCHANGED mutex
  /\ UNCHANGED <<pool, initialized, booted, attempts, conn, mysqlUp>>

(* createRawConnection in getConnection.  When it fails the caller gets a   *)
(* ScopedConnection on the null handle: it gives up, and nothing is         *)
(* returned to the pool.                                                    *)
Reconnect(t) ==
  /\ pc[t] = "reconnect"
  /\ \/ /\ mysqlUp
        /\ \E h \in Handles \ (Open \ {conn[t]}) : conn' = [conn EXCEPT ![t] = h]
        /\ pc' = [pc EXCEPT ![t] = "using"]
     \/ /\ ~mysqlUp
        /\ conn' = [conn EXCEPT ![t] = NoHandle]
        /\ pc' = [pc EXCEPT ![t] = "idle"]
  /\ mutex' = NoThread
  /\ UNCHANGED <<pool, initialized, booted, attempts, mysqlUp>>

(* notify_one: one waiter, if there is one, goes on to re-take the mutex. *)
NotifyOne(at) ==
  IF \A u \in Threads : at[u] # "waiting" THEN pc' = at
  ELSE \E u \in Threads : at[u] = "waiting" /\ pc' = [at EXCEPT ![u] = "acquire"]

(* The query is over: ~ScopedConnection and releaseConnection. *)
Release(t) ==
  /\ pc[t] = "using" /\ mutex = NoThread
  /\ pool' = Append(pool, conn[t])
  /\ conn' = [conn EXCEPT ![t] = NoHandle]
  /\ NotifyOne([pc EXCEPT ![t] = "idle"])
  /\ UNCHANGED <<mutex, initialized, booted, attempts, mysqlUp>>

(* A condition variable may wake without a notification. *)
SpuriousWakeup(t) ==
  /\ pc[t] = "waiting"
  /\ pc' = [pc EXCEPT ![t] = "acquire"]
  /\ UNCHANGED <<pool, mutex, initialized, booted, attempts, conn, mysqlUp>>

(* close(), from ~DatabasePool when main returns while workers may still    *)
(* run: the queue is drained, nobody is notified.                           *)
Close ==
  /\ initialized /\ mutex = NoThread
  /\ pool' = <<>>
  /\ initialized' = FALSE
  /\ UNCHANGED <<mutex, booted, attempts, pc, conn, mysqlUp>>

MysqlChanges ==
  /\ mysqlUp' = ~mysqlUp
  /\ UNCHANGED <<pool, mutex, initialized, booted, attempts, pc, conn>>

Step(t) == Wait(t) \/ FailFast(t) \/ Take(t) \/ Ping(t) \/ Reconnect(t) \/ Release(t)

Next == \/ Connect \/ FinishInit \/ Close \/ MysqlChanges
        \/ \E t \in Threads : Call(t) \/ Step(t) \/ SpuriousWakeup(t)

Spec == Init /\ [][Next]_vars

(* The main thread and every worker inside the pool keep running.  Calls,   *)
(* spurious wake-ups, outages and the exit may never happen.                *)
Fairness == /\ WF_vars(Connect) /\ WF_vars(FinishInit)
            /\ \A t \in Threads : WF_vars(Step(t))
FairSpec == Spec /\ Fairness

-----------------------------------------------------------------------------
(* Every open handle is in one place: once in the queue or with one thread, *)
(* whatever the order in which workers take, exchange and return handles.   *)
ExclusiveHandles ==
  /\ \A i, j \in 1..Len(pool) : pool[i] = pool[j] => i = j
  /\ Pooled \cap Held = {}
  /\ \A t, u \in Threads : conn[t] = conn[u] /\ conn[t] # NoHandle => t = u

(* One notify per returned handle is enough (releaseConnection calls        *)
(* notify_one and not notify_all): while a worker sleeps on the open pool,  *)
(* every queued handle has a worker of its own on its way to take it.       *)
NoLostWakeup ==
  initialized /\ Waiting # {} => Len(pool) <= Cardinality(At("acquire"))

Capacity == Len(pool) + Cardinality({t \in Threads : conn[t] # NoHandle})

(* Handles get lost one at a time and only in a failed reconnect, while     *)
(* MySQL is away, or all idle ones together in close(); after init() no     *)
(* step brings one back.                                                    *)
CapacityOnlyLostInOutage ==
  [][booted => /\ Capacity' <= Capacity
               /\ Capacity' < Capacity =>
                    \/ ~mysqlUp /\ Capacity' = Capacity - 1 /\ mutex # NoThread
                    \/ ~initialized' /\ At("using")' = At("using")]_vars

(* While the pool is open and owns a handle, sleeping workers do not stop   *)
(* the system: some worker is served again and again.                       *)
ServesWhileAHandleIsLeft ==
  <>[](initialized /\ Waiting # {} /\ Open # {}) => []<>(At("ping") # {})

(* The pool implements the allocator. *)
Owner == [h \in Handles |->
            IF h \in Pooled THEN NoHandle
            ELSE IF \E t \in Threads : conn[t] = h
                 THEN CHOOSE t \in Threads : conn[t] = h
                 ELSE NoThread]
Allocator == INSTANCE ConnectionAllocator
               WITH Free <- NoHandle, Closed <- NoThread, owner <- Owner,
                    phase <- IF ~booted THEN "starting"
                             ELSE IF initialized THEN "serving" ELSE "closed"
ImplementsAllocator == Allocator!Spec

(* Reconnecting is meant to survive an outage ("Connection lost,            *)
(* reconnecting..."): once MySQL is back for good, requests that find the   *)
(* pool open are served again.                                              *)
ServiceResumesAfterOutage ==
  <>[](mysqlUp /\ initialized /\ Waiting # {}) => []<>(At("using") # {})
=============================================================================
