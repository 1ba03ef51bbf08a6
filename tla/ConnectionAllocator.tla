------------------------ MODULE ConnectionAllocator ------------------------
(***************************************************************************)
(* What the connection pool promises to the request handlers, without      *)
(* queues, mutexes or condition variables: every MySQL handle is closed,   *)
(* free, or owned by exactly one thread.  Handles are opened only while    *)
(* the program starts, never more than PoolSize of them.  While the pool   *)
(* serves, a free handle may be granted to a thread that owns none, a      *)
(* dead handle may be exchanged for a new one or be lost, and an owned     *)
(* handle comes back.  Shutting down closes all that is free, and nothing  *)
(* is granted afterwards.                                                  *)
(***************************************************************************)
EXTENDS Integers, FiniteSets

CONSTANTS Threads, Handles, PoolSize, Free, Closed

VARIABLES phase, owner

Phases == {"starting", "serving", "closed"}

IsOpen(h) == owner[h] # Closed
OwnsNone(t) == \A h \in Handles : owner[h] # t

Init == /\ phase = "starting"
        /\ owner = [h \in Handles |-> Closed]

Connect(h) == /\ phase = "starting"
              /\ ~IsOpen(h)
              /\ Cardinality({g \in Handles : IsOpen(g)}) < PoolSize
              /\ owner' = [owner EXCEPT ![h] = Free]
              /\ UNCHANGED phase

Serve == /\ phase = "starting"
         /\ phase' = IF \E h \in Handles : IsOpen(h) THEN "serving" ELSE "closed"
         /\ UNCHANGED owner

Grant(t, h) == /\ phase = "serving"
               /\ owner[h] = Free
               /\ OwnsNone(t)
               /\ owner' = [owner EXCEPT ![h] = t]
               /\ UNCHANGED phase

\* The dead handle h of thread t is closed and g, perhaps h again, opened.
Exchange(t, h, g) ==
  /\ owner[h] = t
  /\ g = h \/ ~IsOpen(g)
  /\ owner' = [[owner EXCEPT ![h] = Closed] EXCEPT ![g] = t]
  /\ UNCHANGED phase

Lose(t, h) == /\ owner[h] = t
              /\ owner' = [owner EXCEPT ![h] = Closed]
              /\ UNCHANGED phase

Return(t, h) == /\ owner[h] = t
                /\ owner' = [owner EXCEPT ![h] = Free]
                /\ UNCHANGED phase

Shutdown == /\ phase = "serving"
            /\ phase' = "closed"
            /\ owner' = [h \in Handles |-> IF owner[h] = Free THEN Closed ELSE owner[h]]

Next == \/ Serve
        \/ Shutdown
        \/ \E h \in Handles : Connect(h)
        \/ \E t \in Threads, h \in Handles : Grant(t, h) \/ Lose(t, h) \/ Return(t, h)
        \/ \E t \in Threads, h, g \in Handles : Exchange(t, h, g)

Spec == Init /\ [][Next]_<<phase, owner>>
=============================================================================
