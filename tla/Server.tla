------------------------------- MODULE Server -------------------------------
(***************************************************************************)
(* The epoll reactor and the life of a connection (src/src/Server.cpp and  *)
(* src/src/main.cpp), on top of the worker pool of ThreadPool, whose       *)
(* tasks are the descriptors to serve.  The reactor thread accepts and     *)
(* watches connections and hands a readable one to the pool, where         *)
(* handleClient reads a request, runs its handler, writes the answer and   *)
(* closes.  After the loop the same thread runs the static destructors.    *)
(*                                                                         *)
(* Outside the program: clients connect, send a request in at most two     *)
(* pieces and leave whenever they like, the kernel reports edges, and a    *)
(* signal may arrive between any two steps.                                *)
(***************************************************************************)
EXTENDS ThreadPool

CONSTANTS Conns,    \* client connections
          ListenFd  \* the number of the listening descriptor

ASSUME ServerAssumption == /\ IsFiniteSet(Conns) /\ ListenFd \notin Conns
                           /\ Tasks = Conns \cup {ListenFd}

VARIABLES reactor,    \* where the reactor thread is
          running,    \* running_; the epoll and listen descriptors are open
          edge,       \* the kernel has an unreported edge on the listen socket
          acceptFailed, \* history: accept failed, and no edge has come since
          batch,      \* events[] of this epoll_wait, still to be handled
          conn,       \* the state of each connection
          sent,       \* how much of its request a client has sent: 0, part, all
          gone,       \* the client has closed its end
          got,        \* how much of the request the worker has read
          step,       \* where each worker is inside handleClient
          singletons  \* the service singletons have not been destroyed

serverVars == <<reactor, running, edge, acceptFailed, batch, conn, sent, gone, got,
                step, singletons>>
vars == <<poolVars, serverVars>>

Part == 1
All == 2

ConnStates == {"none", "backlog", "watched", "reported", "dispatched", "closed", "leaked"}
ReactorStates == {"starting", "loop", "batch", "accepting", "exited"}

Backlog == {c \in Conns : conn[c] = "backlog"}
Readable(c) == sent[c] > got[c] \/ gone[c]

TypeOK == /\ PoolTypeOK
          /\ reactor \in ReactorStates
          /\ running \in BOOLEAN /\ edge \in BOOLEAN /\ acceptFailed \in BOOLEAN
          /\ singletons \in BOOLEAN
          /\ batch \subseteq Conns \cup {ListenFd}
          /\ conn \in [Conns -> ConnStates]
          /\ sent \in [Conns -> 0..All] /\ got \in [Conns -> 0..All]
          /\ gone \in [Conns -> BOOLEAN]
          /\ step \in [Workers -> {"none", "read", "handle", "write"}]

Init == /\ PoolInit
        /\ reactor = "starting" /\ running = FALSE
        /\ edge = FALSE /\ acceptFailed = FALSE /\ batch = {}
        /\ conn = [c \in Conns |-> "none"]
        /\ sent = [c \in Conns |-> 0] /\ got = [c \in Conns |-> 0]
        /\ gone = [c \in Conns |-> FALSE]
        /\ step = [w \in Workers |-> "none"]
        /\ singletons = TRUE

(* A connection reaches its end; what its client did is forgotten. *)
EndConn(c, end) == /\ conn' = [conn EXCEPT ![c] = end]
                   /\ sent' = [sent EXCEPT ![c] = 0]
                   /\ got' = [got EXCEPT ![c] = 0]
                   /\ gone' = [gone EXCEPT ![c] = FALSE]

(* handleClient is done with its descriptor, which need not be a client's. *)
EndClient(w, end) == IF task[w] \in Conns THEN EndConn(task[w], end)
                     ELSE UNCHANGED <<conn, sent, got, gone>>

-----------------------------------------------------------------------------
(* The clients (outside the code). *)
ConnectClient(c) ==
  /\ conn[c] = "none" /\ reactor # "exited"
  /\ reactor = "starting" \/ running
  /\ conn' = [conn EXCEPT ![c] = "backlog"]
  /\ edge' = TRUE /\ acceptFailed' = FALSE
  /\ UNCHANGED <<poolVars, reactor, running, batch, sent, gone, got, step, singletons>>

Send(c) ==
  /\ conn[c] \notin {"none", "closed", "leaked"} /\ ~gone[c] /\ sent[c] < All
  /\ \E n \in sent[c] + 1 .. All : sent' = [sent EXCEPT ![c] = n]
  /\ UNCHANGED <<poolVars, reactor, running, edge, acceptFailed, batch, conn, gone, got, step,
                 singletons>>

Leave(c) ==
  /\ conn[c] \notin {"none", "closed", "leaked"} /\ ~gone[c]
  /\ gone' = [gone EXCEPT ![c] = TRUE]
  /\ UNCHANGED <<poolVars, reactor, running, edge, acceptFailed, batch, conn, sent, got, step,
                 singletons>>

-----------------------------------------------------------------------------
(* Faulty variants, each a bug such code may have; no part of Spec. *)

\* Only one connection is accepted per event, as if epoll were level-triggered.
AcceptOne ==
  /\ reactor = "accepting" /\ running
  /\ Backlog # {}
  /\ \E c \in Backlog : conn' = [conn EXCEPT ![c] = "watched"]
  /\ reactor' = "batch"
  /\ UNCHANGED <<poolVars, running, edge, acceptFailed, batch, sent, gone, got, step,
                 singletons>>

\* The connection is dispatched without EPOLL_CTL_DEL and EPOLLONESHOT.
DispatchStillWatched(e) ==
  /\ reactor = "batch" /\ owner = "open" /\ e \in batch
  /\ e = ListenFd => ~running
  /\ batch' = batch \ {e}
  /\ Push(e)
  /\ conn' = [c \in Conns |-> IF c = e THEN "watched" ELSE conn[c]]
  /\ UNCHANGED <<reactor, running, edge, acceptFailed, sent, gone, got, step, singletons>>

\* The accept loop leaves the loop over the events too.
EndBatchEarly ==
  /\ reactor = "batch" /\ owner = "open"
  /\ reactor' = (IF running THEN "loop" ELSE "exited") /\ batch' = {}
  /\ UNCHANGED <<poolVars, running, edge, acceptFailed, conn, sent, gone, got, step,
                 singletons>>

\* End of file is not told from EAGAIN: the loop keeps waiting for the rest.
ReadEndWaits(w) ==
  /\ step[w] = "read" /\ task[w] = ListenFd
  /\ Finish(w)
  /\ step' = [step EXCEPT ![w] = "none"]
  /\ UNCHANGED <<reactor, running, edge, acceptFailed, batch, conn, sent, gone, got,
                 singletons>>

-----------------------------------------------------------------------------
(* The reactor.  start() either fails to set its sockets up or enters the   *)
(* loop; a signal before running_ is set finds nothing to stop.             *)
Start ==
  /\ reactor = "starting"
  /\ \/ reactor' = "loop" /\ running' = TRUE
     \/ reactor' = "exited" /\ UNCHANGED running
  /\ UNCHANGED <<poolVars, edge, acceptFailed, batch, conn, sent, gone, got, step,
                 singletons>>

(* epoll_wait: the pending edge of the listen socket and every watched      *)
(* connection that is readable; EPOLLONESHOT disarms those.  A call that    *)
(* was waiting when a signal closed its descriptor may still return them.   *)
Poll ==
  LET ready == {c \in Conns : conn[c] = "watched" /\ Readable(c)}
  IN  /\ reactor = "loop"
      /\ ready # {} \/ edge
      /\ batch' = ready \cup (IF edge THEN {ListenFd} ELSE {})
      /\ edge' = FALSE
      /\ conn' = [c \in Conns |-> IF c \in ready THEN "reported" ELSE conn[c]]
      /\ reactor' = "batch"
      /\ UNCHANGED <<poolVars, running, acceptFailed, sent, gone, got, step, singletons>>

(* An event of the listen socket starts the accept loop. *)
BeginAccept ==
  /\ reactor = "batch" /\ owner = "open"
  /\ ListenFd \in batch /\ running
  /\ batch' = batch \ {ListenFd}
  /\ reactor' = "accepting"
  /\ UNCHANGED <<poolVars, running, edge, acceptFailed, conn, sent, gone, got, step,
                 singletons>>

(* accept and EPOLL_CTL_ADD. *)
Accept ==
  /\ reactor = "accepting" /\ running
  /\ Backlog # {}
  /\ \E c \in Backlog : conn' = [conn EXCEPT ![c] = "watched"]
  /\ UNCHANGED <<poolVars, reactor, running, edge, acceptFailed, batch, sent, gone, got, step,
                 singletons>>

(* The loop breaks on any error: nothing pending, the listen socket closed  *)
(* by stop(), or at any time because the process is out of descriptors      *)
(* (requests open others for MySQL and the music API).                      *)
EndAccept ==
  /\ reactor = "accepting"
  /\ reactor' = "batch"
  /\ acceptFailed' = (acceptFailed \/ (running /\ Backlog # {}))
  /\ UNCHANGED <<poolVars, running, edge, batch, conn, sent, gone, got, step,
                 singletons>>

(* Any other event is removed from epoll and enqueued.  stop() sets         *)
(* listen_fd_ to -1, so an event of the listen socket that is still in the  *)
(* batch then takes this branch too.                                        *)
Dispatch(e) ==
  /\ reactor = "batch" /\ owner = "open" /\ e \in batch
  /\ e = ListenFd => ~running
  /\ batch' = batch \ {e}
  /\ Push(e)
  /\ conn' = [c \in Conns |-> IF c = e THEN "dispatched" ELSE conn[c]]
  /\ UNCHANGED <<reactor, running, edge, acceptFailed, sent, gone, got, step, singletons>>

EndEnqueue ==
  /\ NotifyOne
  /\ UNCHANGED serverVars

(* The events are handled; the next wait only while running_.               *)
EndBatch ==
  /\ reactor = "batch" /\ owner = "open" /\ batch = {}
  /\ reactor' = IF running THEN "loop" ELSE "exited"
  /\ UNCHANGED <<poolVars, running, edge, acceptFailed, batch, conn, sent, gone, got, step,
                 singletons>>

(* A signal: stop() closes both descriptors; what was pending is refused.   *)
Stop ==
  /\ running
  /\ running' = FALSE /\ edge' = FALSE /\ acceptFailed' = FALSE
  /\ conn' = [c \in Conns |-> IF c \in Backlog THEN "closed" ELSE conn[c]]
  /\ sent' = [c \in Conns |-> IF c \in Backlog THEN 0 ELSE sent[c]]
  /\ gone' = [c \in Conns |-> IF c \in Backlog THEN FALSE ELSE gone[c]]
  /\ UNCHANGED <<poolVars, reactor, batch, got, step, singletons>>

(* epoll_wait fails on the closed descriptor, or its second is over.        *)
EndLoop ==
  /\ reactor = "loop" /\ ~running
  /\ reactor' = "exited"
  /\ UNCHANGED <<poolVars, running, edge, acceptFailed, batch, conn, sent, gone, got, step,
                 singletons>>

(* main returns.  The singletons are function-local statics, built after    *)
(* g_server and so destroyed before it; only then does ~Server reach        *)
(* ~ThreadPool.                                                             *)
DestroySingletons ==
  /\ reactor = "exited" /\ singletons
  /\ singletons' = FALSE
  /\ UNCHANGED <<poolVars, reactor, running, edge, acceptFailed, batch, conn, sent, gone, got,
                 step>>

DestroyServer ==
  /\ ~singletons
  /\ Destructor
  /\ UNCHANGED serverVars

-----------------------------------------------------------------------------
(* handleClient, on a worker.                                               *)
Begin(w) ==
  /\ Take(w)
  /\ step' = [step EXCEPT ![w] = "read"]
  /\ UNCHANGED <<reactor, running, edge, acceptFailed, batch, conn, sent, gone, got,
                 singletons>>

(* read returns data: all of the request, or less and the loop goes on.     *)
ReadData(w) ==
  LET c == task[w]
  IN  /\ step[w] = "read" /\ c \in Conns
      /\ got[c] < sent[c]
      /\ got' = [got EXCEPT ![c] = sent[c]]
      /\ step' = [step EXCEPT ![w] = IF sent[c] = All THEN "handle" ELSE "read"]
      /\ UNCHANGED <<poolVars, reactor, running, edge, acceptFailed, batch, conn, sent, gone,
                     singletons>>

(* EAGAIN: the loop ends and whatever was read is taken for the request.    *)
ReadAgain(w) ==
  LET c == task[w]
  IN  /\ step[w] = "read" /\ c \in Conns
      /\ got[c] = sent[c] /\ ~gone[c] /\ got[c] > 0
      /\ step' = [step EXCEPT ![w] = "handle"]
      /\ UNCHANGED <<poolVars, reactor, running, edge, acceptFailed, batch, conn, sent, gone,
                     got, singletons>>

(* End of file, an error, or nothing at all: close and return.              *)
ReadEnd(w) ==
  LET c == task[w]
  IN  /\ step[w] = "read"
      /\ c \in Conns => got[c] = sent[c] /\ (gone[c] \/ got[c] = 0)
      /\ EndClient(w, "closed")
      /\ Finish(w)
      /\ step' = [step EXCEPT ![w] = "none"]
      /\ UNCHANGED <<reactor, running, edge, acceptFailed, batch, singletons>>

(* The number of the closed listen socket may by now be that of a file or   *)
(* socket a handler has opened.  Reading that may block, and what it yields *)
(* is taken for a request: from here on the worker is as in a handler.      *)
ReadOther(w) ==
  /\ step[w] = "read" /\ task[w] = ListenFd
  /\ step' = [step EXCEPT ![w] = "handle"]
  /\ UNCHANGED <<poolVars, reactor, running, edge, acceptFailed, batch, conn, sent, gone,
                 got, singletons>>

(* The handler answers, or throws: the packaged_task keeps the exception    *)
(* and nobody closes the descriptor.  Or it never ends: getConnection waits *)
(* without a timeout, so nothing here says that this step is ever taken.    *)
Handle(w) ==
  /\ step[w] = "handle"
  /\ \/ /\ step' = [step EXCEPT ![w] = "write"]
        /\ UNCHANGED <<poolVars, conn, sent, got, gone>>
     \/ /\ step' = [step EXCEPT ![w] = "none"]
        /\ EndClient(w, "leaked")
        /\ Finish(w)
  /\ UNCHANGED <<reactor, running, edge, acceptFailed, batch, singletons>>

(* The answer is written, until a write fails because the client has left   *)
(* (SIGPIPE is ignored once libmysqlclient is initialised); either way the  *)
(* descriptor is closed.  A client that neither reads nor leaves keeps the  *)
(* loop going for ever.                                                     *)
Write(w) ==
  /\ step[w] = "write"
  /\ EndClient(w, "closed")
  /\ Finish(w)
  /\ step' = [step EXCEPT ![w] = "none"]
  /\ UNCHANGED <<reactor, running, edge, acceptFailed, batch, singletons>>

(* The worker loop around it. *)
Loop(w) == (Sleep(w) \/ Exit(w)) /\ UNCHANGED serverVars
Wake(w) == SpuriousWakeup(w) /\ UNCHANGED serverVars

-----------------------------------------------------------------------------
Reactor == \/ Start \/ Poll \/ BeginAccept \/ Accept \/ EndAccept \/ EndEnqueue
           \/ EndBatch \/ EndLoop \/ DestroySingletons \/ DestroyServer
           \/ \E e \in Conns \cup {ListenFd} : Dispatch(e)
\* What a worker does without waiting for a handler or a client:
Runs(w) == Begin(w) \/ ReadData(w) \/ ReadAgain(w) \/ ReadEnd(w) \/ ReadOther(w) \/ Loop(w)
Worker(w) == Runs(w) \/ Handle(w) \/ Write(w)
Environment == \/ Stop
               \/ \E c \in Conns : ConnectClient(c) \/ Send(c) \/ Leave(c)
               \/ \E w \in Workers : Wake(w)

Next == Reactor \/ Environment \/ \E w \in Workers : Worker(w)

Spec == Init /\ [][Next]_vars

(* The reactor and the workers run on.  No handler need end and no client   *)
(* need read or leave.                                                      *)
Fairness == /\ WF_vars(Reactor)
            /\ \A w \in Workers : WF_vars(Runs(w))
FairSpec == Spec /\ Fairness

-----------------------------------------------------------------------------
Count(c) == Cardinality({i \in 1..Len(tasks) : tasks[i] = c})
            + Cardinality({w \in Workers : task[w] = c})

(* A descriptor has one owner at a time (the comment "Remove from epoll to  *)
(* prevent duplicate triggers"): it is watched, or in the batch, or once in *)
(* the pool; one that was closed or leaked is nowhere.                      *)
OneOwner ==
  \A c \in Conns : /\ c \in batch <=> conn[c] = "reported"
                   /\ Count(c) = IF conn[c] = "dispatched" THEN 1 ELSE 0

(* The listen socket is edge-triggered: a pending connection always has an  *)
(* unreported edge, an event in the batch or a running accept loop to pick  *)
(* it up, except when accept had failed.                                    *)
PendingIsAnnounced ==
  Backlog # {} /\ reactor # "exited" =>
    edge \/ ListenFd \in batch \/ reactor = "accepting" \/ acceptFailed

(* With a handler or its client, for as long as that takes. *)
Engaged(w) == step[w] \in {"handle", "write"}

(* A connection was closed, or its request has got to a handler. *)
Attended(c) == conn[c] = "closed" \/ \E w \in Workers : Engaged(w) /\ task[w] = c

(* As long as not all workers stay with a handler or a client for ever, a   *)
(* readable connection is attended to unless the server is stopped first,   *)
(* and one that was dispatched even then.                                   *)
SomeWorkerReturns == \E w \in Workers : []<>~Engaged(w)
ReadableIsServed ==
  SomeWorkerReturns => \A c \in Conns : conn[c] = "watched" /\ Readable(c)
                                         ~> Attended(c) \/ ~running
DispatchedIsServed ==
  SomeWorkerReturns => \A c \in Conns : conn[c] = "dispatched" ~> Attended(c)

(* A stopped server lets its reactor and its workers go, as long as no      *)
(* worker stays with a handler or a client for ever.                        *)
StopEnds ==
  (\A w \in Workers : []<>~Engaged(w))
    => (reactor # "starting" /\ ~running ~> owner = "destroyed")

(* "If Content-Length present, check if full body received": a handler sees *)
(* the whole request.                                                       *)
HandlesWholeRequests ==
  \A w \in Workers : step[w] = "handle" /\ task[w] \in Conns => got[task[w]] = All

(* "shutting down gracefully": the services outlive the requests that use   *)
(* them.                                                                    *)
GracefulShutdown ==
  ~singletons => \A w \in Workers : task[w] \in Conns => step[w] # "handle"
=============================================================================
