--------------------------- MODULE Server_proofs ---------------------------
(***************************************************************************)
(* Proofs about ThreadPool, for any number of workers and tasks, and about *)
(* Server, for any number of workers and connections.                      *)
(*                                                                         *)
(* The pool's inductive invariant joins the checked invariants with what   *)
(* the owner's position says about stop and the workers (OwnerAgrees).  It *)
(* carries over to the server, since every step of the server is a step of *)
(* the pool or leaves it alone (ServerStepsPool).  The server's own says   *)
(* where each descriptor is (InPool): an index of the queue, a worker, or  *)
(* neither.                                                                *)
(***************************************************************************)
EXTENDS Server, TLAPS, FiniteSetTheorems, SequenceTheorems

OwnerAgrees == /\ stop <=> owner \in {"stopping", "joining", "destroyed"}
               /\ owner = "destroyed" => In("exited") = Workers

(* A step of the pool, without PoolNext's bound on what is enqueued. *)
PoolStep == \/ (\E t \in Tasks : Push(t)) \/ NotifyOne \/ Destructor
            \/ \E w \in Workers : WorkerStep(w) \/ SpuriousWakeup(w)

(* A worker is running while it has a task. *)
Busy == \A w \in Workers : worker[w] = "running" <=> task[w] # NoTask

ThreadPoolInv == /\ PoolTypeOK /\ OwnerAgrees /\ Busy /\ EveryTaskHasAWaker
                 /\ StartedInOrder /\ DrainsBeforeExit

-----------------------------------------------------------------------------
(* Popping the front moves one element from the second of two concatenated  *)
(* sequences to the end of the first.                                       *)
LEMMA PopMoves ==
  ASSUME NEW S, NEW s \in Seq(S), NEW t \in Seq(S), t # <<>>
  PROVE  Append(s, Head(t)) \o Tail(t) = s \o t
<1>1. /\ Head(t) \in S /\ Tail(t) \in Seq(S) /\ Len(Tail(t)) = Len(t) - 1
      /\ \A i \in 1..Len(Tail(t)) : Tail(t)[i] = t[i + 1]
      /\ Head(t) = t[1] /\ Len(t) \in Nat \ {0} /\ Len(s) \in Nat
  BY HeadTailProperties, LenProperties, EmptySeq
<1> DEFINE a == Append(s, Head(t))
<1>2. /\ a \in Seq(S) /\ Len(a) = Len(s) + 1 /\ a[Len(s) + 1] = t[1]
      /\ \A i \in 1..Len(s) : a[i] = s[i]
  BY <1>1, AppendProperties
<1> DEFINE r == Tail(t)
<1> HIDE DEF a, r
<1>3. /\ r \in Seq(S) /\ Len(r) = Len(t) - 1
      /\ \A i \in 1..Len(r) : r[i] = t[i + 1]
  BY <1>1 DEF r
<1>4. /\ a \o r \in Seq(S) /\ Len(a \o r) = Len(a) + Len(r)
      /\ \A i \in 1..Len(a) + Len(r) :
           (a \o r)[i] = IF i <= Len(a) THEN a[i] ELSE r[i - Len(a)]
  BY <1>2, <1>3, ConcatProperties
<1>5. /\ s \o t \in Seq(S) /\ Len(s \o t) = Len(s) + Len(t)
      /\ \A i \in 1..Len(s) + Len(t) :
           (s \o t)[i] = IF i <= Len(s) THEN s[i] ELSE t[i - Len(s)]
  BY ConcatProperties
<1>6. Len(a \o r) = Len(s \o t)
  BY <1>1, <1>2, <1>3, <1>4, <1>5
<1>7. ASSUME NEW i \in 1..Len(s \o t)
      PROVE  (a \o r)[i] = (s \o t)[i]
  <2>0. i \in 1..Len(s) + Len(t) /\ i \in 1..Len(a) + Len(r)
    BY <1>1, <1>2, <1>3, <1>5
  <2>1. CASE i <= Len(s)
    <3> i \in 1..Len(s) /\ i <= Len(a)
      BY <2>0, <2>1, <1>1, <1>2
    <3> QED  BY <2>0, <2>1, <1>2, <1>4, <1>5
  <2>2. CASE i = Len(s) + 1
    BY <2>0, <2>2, <1>1, <1>2, <1>4, <1>5
  <2>3. CASE i > Len(s) + 1
    <3>1. i - Len(a) \in 1..Len(r) /\ (i - Len(a)) + 1 = i - Len(s)
      BY <2>0, <2>3, <1>1, <1>2, <1>3
    <3>2. r[i - Len(a)] = t[i - Len(s)]
      BY <3>1, <1>3
    <3>3. (a \o r)[i] = r[i - Len(a)] /\ (s \o t)[i] = t[i - Len(s)]
      BY <2>0, <2>3, <1>1, <1>2, <1>4, <1>5
    <3> QED  BY <3>2, <3>3
  <2> QED  BY <2>1, <2>2, <2>3, <2>0, <1>1
<1>8. a \o r = s \o t
  BY <1>4, <1>5, <1>6, <1>7, SeqEqual
<1> QED  BY <1>8 DEF a, r

(* The number of workers in a state, when one enters or leaves it. *)
LEMMA EnterState ==
  ASSUME ThreadPoolAssumption, NEW w \in Workers, NEW s \in WorkerStates, worker[w] # s
  PROVE  /\ Cardinality(In(s)) \in Nat
         /\ Cardinality(In(s) \cup {w}) = Cardinality(In(s)) + 1
<1>1. IsFiniteSet(In(s)) /\ w \notin In(s)
  BY FS_Subset DEF ThreadPoolAssumption, In
<1> QED  BY <1>1, FS_AddElement, FS_CardinalityType

LEMMA LeaveState ==
  ASSUME ThreadPoolAssumption, NEW w \in Workers, NEW s \in WorkerStates, worker[w] = s
  PROVE  /\ Cardinality(In(s)) \in Nat
         /\ Cardinality(In(s) \ {w}) = Cardinality(In(s)) - 1
<1>1. IsFiniteSet(In(s)) /\ w \in In(s)
  BY FS_Subset DEF ThreadPoolAssumption, In
<1> QED  BY <1>1, FS_RemoveElement, FS_CardinalityType

LEMMA InitThreadPoolInv ==
  ASSUME ThreadPoolAssumption, PoolInit PROVE ThreadPoolInv
<1>1. <<>> \in Seq(Tasks) /\ Len(<<>>) = 0 /\ <<>> \o <<>> = <<>>
  BY EmptySeq, ConcatEmptySeq
<1>2. PoolTypeOK
  BY <1>1 DEF PoolInit, PoolTypeOK, WorkerStates, OwnerStates
<1>3. OwnerAgrees /\ Busy
  BY DEF PoolInit, OwnerAgrees, Busy
<1>4. In("waiting") = {} /\ In("exited") = {}
  BY DEF PoolInit, In
<1>5. EveryTaskHasAWaker /\ StartedInOrder /\ DrainsBeforeExit
  BY <1>1, <1>4 DEF PoolInit, EveryTaskHasAWaker, StartedInOrder, DrainsBeforeExit
<1> QED  BY <1>2, <1>3, <1>5 DEF ThreadPoolInv

LEMMA ThreadPoolInvStep ==
  ASSUME ThreadPoolAssumption, ThreadPoolInv, PoolStep \/ UNCHANGED poolVars
  PROVE  ThreadPoolInv'
<1> USE ThreadPoolAssumption DEF ThreadPoolInv
<1>0. Len(tasks) \in Nat /\ Cardinality(In("ready")) \in Nat
  BY LenProperties, FS_Subset, FS_CardinalityType
  DEF PoolTypeOK, ThreadPoolAssumption, In
<1>1. ASSUME NEW t \in Tasks, Push(t)
      PROVE  ThreadPoolInv'
  <2>1. /\ tasks' \in Seq(Tasks) /\ Len(tasks') = Len(tasks) + 1
        /\ submitted' \in Seq(Tasks)
    BY <1>1, AppendProperties DEF Push, PoolTypeOK
  <2>2. PoolTypeOK' /\ OwnerAgrees' /\ Busy'
    BY <1>1, <2>1 DEF Push, PoolTypeOK, OwnerStates, OwnerAgrees, Busy, In
  <2>3. EveryTaskHasAWaker'
    <3> In("waiting")' = In("waiting") /\ In("ready")' = In("ready")
      BY <1>1 DEF Push, In
    <3> QED  BY <1>0, <1>1, <2>1 DEF Push, EveryTaskHasAWaker
  <2>4. StartedInOrder'
    <3>1. Append(started \o tasks, t) = started \o Append(tasks, t)
      <4>1. <<t>> \in Seq(Tasks)
        OBVIOUS
      <4>2. Append(started \o tasks, t) = (started \o tasks) \o <<t>>
        BY AppendIsConcat, ConcatProperties DEF PoolTypeOK
      <4>3. Append(tasks, t) = tasks \o <<t>>
        BY AppendIsConcat DEF PoolTypeOK
      <4> QED  BY <4>1, <4>2, <4>3, ConcatAssociative DEF PoolTypeOK
    <3> QED  BY <1>1, <3>1 DEF Push, StartedInOrder
  <2>5. DrainsBeforeExit'
    BY <1>1 DEF Push, DrainsBeforeExit, In
  <2> QED  BY <2>2, <2>3, <2>4, <2>5
<1>2. ASSUME NotifyOne \/ NotifyAll
      PROVE  ThreadPoolInv'
  <2>1. /\ UNCHANGED <<tasks, stop, task, submitted, started>>
        /\ owner \in {"notifying", "stopping"} /\ owner' \in {"open", "joining"}
        /\ worker' \in [Workers -> WorkerStates]
        /\ \A w \in Workers : worker[w] # "waiting" => worker'[w] = worker[w]
        /\ \A w \in Workers : worker[w] = "waiting" => worker'[w] \in {"waiting", "ready"}
    BY <1>2 DEF NotifyOne, NotifyAll, PoolTypeOK, WorkerStates, In
  <2>2. In("exited")' = In("exited") /\ In("running")' = In("running")
    BY <2>1 DEF In
  <2>3. PoolTypeOK' /\ OwnerAgrees' /\ Busy'
    BY <1>2, <2>1 DEF NotifyOne, NotifyAll, PoolTypeOK, OwnerStates, OwnerAgrees, Busy
  <2>4. StartedInOrder' /\ DrainsBeforeExit'
    <3> owner' = "joining" => In("waiting")' = {}
      BY <1>2 DEF NotifyOne, NotifyAll, In
    <3> QED  BY <2>1, <2>2 DEF StartedInOrder, DrainsBeforeExit
  <2>5. EveryTaskHasAWaker'
    <3>1. CASE In("waiting")' = {}
      BY <3>1 DEF EveryTaskHasAWaker
    <3>2. CASE NotifyOne /\ In("waiting")' # {}
      <4>1. PICK w \in In("waiting") : worker' = [worker EXCEPT ![w] = "ready"]
        BY <2>1, <3>2 DEF NotifyOne, In
      <4>2. /\ w \in Workers /\ worker[w] # "ready" /\ "ready" \in WorkerStates
            /\ In("ready")' = In("ready") \cup {w}
        BY <4>1 DEF In, PoolTypeOK, WorkerStates
      <4>3. Cardinality(In("ready"))' = Cardinality(In("ready")) + 1
        BY <4>2, EnterState
      <4> QED  BY <1>0, <2>1, <3>2, <4>1, <4>3 DEF NotifyOne, EveryTaskHasAWaker
    <3>3. CASE NotifyAll
      <4> In("waiting")' = {}
        BY <3>3 DEF NotifyAll, In
      <4> QED  BY DEF EveryTaskHasAWaker
    <3> QED  BY <1>2, <3>1, <3>2, <3>3
  <2> QED  BY <2>3, <2>4, <2>5
<1>3. CASE SetStop
  <2>1. PoolTypeOK' /\ OwnerAgrees' /\ Busy' /\ StartedInOrder'
    BY <1>3 DEF SetStop, PoolTypeOK, OwnerStates, OwnerAgrees, Busy, StartedInOrder
  <2>2. /\ In("waiting")' = In("waiting") /\ In("ready")' = In("ready")
        /\ In("exited")' = In("exited")
    BY <1>3 DEF SetStop, In
  <2>3. EveryTaskHasAWaker' /\ DrainsBeforeExit'
    BY <1>3, <2>2 DEF SetStop, EveryTaskHasAWaker, DrainsBeforeExit
  <2> QED  BY <2>1, <2>3
<1>4. CASE Join
  <2>1. PoolTypeOK' /\ Busy' /\ StartedInOrder'
    BY <1>4 DEF Join, PoolTypeOK, OwnerStates, Busy, StartedInOrder
  <2>2. /\ In("waiting")' = {} /\ In("running")' = {} /\ In("exited")' = Workers
    BY <1>4 DEF Join, In
  <2>3. OwnerAgrees' /\ EveryTaskHasAWaker'
    BY <1>4, <2>2 DEF Join, OwnerAgrees, EveryTaskHasAWaker
  <2>4. stop /\ tasks = <<>>
    BY <1>4 DEF Join, DrainsBeforeExit, ThreadPoolAssumption
  <2>5. started = submitted
    BY <2>4, ConcatEmptySeq DEF StartedInOrder, PoolTypeOK
  <2>6. DrainsBeforeExit'
    BY <1>4, <2>2, <2>4, <2>5 DEF Join, DrainsBeforeExit
  <2> QED  BY <2>1, <2>3, <2>6
<1>5. ASSUME NEW w \in Workers, Sleep(w) \/ Exit(w)
      PROVE  ThreadPoolInv'
  <2>1. tasks = <<>> /\ Len(tasks) = 0
    BY <1>5, EmptySeq DEF Sleep, Exit
  <2>2. PoolTypeOK'
    BY <1>5 DEF Sleep, Exit, PoolTypeOK, WorkerStates
  <2>3. w \notin In("exited") /\ In("exited")' \subseteq In("exited") \cup {w}
        /\ owner' = owner
    BY <1>5 DEF Sleep, Exit, In, PoolTypeOK
  <2>4. owner # "destroyed"
    BY <2>3 DEF OwnerAgrees
  <2>5. OwnerAgrees' /\ Busy' /\ StartedInOrder'
    BY <1>5, <2>4 DEF Sleep, Exit, PoolTypeOK, OwnerAgrees, Busy, StartedInOrder
  <2>6. EveryTaskHasAWaker'
    <3> Cardinality(In("ready"))' \in Nat
      BY FS_Subset, FS_CardinalityType DEF ThreadPoolAssumption, In
    <3> QED  BY <1>5, <2>1 DEF Sleep, Exit, EveryTaskHasAWaker
  <2>7. DrainsBeforeExit'
    <3>1. CASE Sleep(w)
      <4> In("exited")' \subseteq In("exited") /\ owner # "joining"
        BY <3>1 DEF Sleep, In, PoolTypeOK, OwnerAgrees
      <4> QED  BY <2>4, <3>1 DEF Sleep, DrainsBeforeExit
    <3>2. CASE Exit(w)
      <4> In("waiting")' = In("waiting")
        BY <3>2 DEF Exit, In, PoolTypeOK
      <4> QED  BY <2>4, <3>2 DEF Exit, DrainsBeforeExit
    <3> QED  BY <1>5, <3>1, <3>2
  <2> QED  BY <2>2, <2>5, <2>6, <2>7
<1>6. ASSUME NEW w \in Workers, Take(w)
      PROVE  ThreadPoolInv'
  <2>1. /\ Head(tasks) \in Tasks /\ tasks' \in Seq(Tasks) /\ Len(tasks') = Len(tasks) - 1
        /\ started' \in Seq(Tasks)
    BY <1>6, HeadTailProperties, AppendProperties DEF Take, PoolTypeOK
  <2>2. PoolTypeOK'
    BY <1>6, <2>1 DEF Take, PoolTypeOK, WorkerStates
  <2>3. /\ In("exited")' = In("exited") /\ In("waiting")' = In("waiting")
        /\ In("ready")' = In("ready") \ {w} /\ In("exited") = {}
        /\ worker[w] = "ready" /\ "ready" \in WorkerStates
    BY <1>6 DEF Take, In, PoolTypeOK, WorkerStates, DrainsBeforeExit
  <2>4. owner # "destroyed"
    BY <2>3 DEF OwnerAgrees, ThreadPoolAssumption
  <2>5. OwnerAgrees' /\ Busy' /\ DrainsBeforeExit'
    BY <1>6, <2>1, <2>3, <2>4
    DEF Take, PoolTypeOK, OwnerAgrees, Busy, DrainsBeforeExit, ThreadPoolAssumption
  <2>6. EveryTaskHasAWaker'
    <3>1. Cardinality(In("ready"))' = Cardinality(In("ready")) - 1
      BY <2>3, LeaveState
    <3> QED  BY <1>0, <1>6, <2>1, <2>3, <3>1 DEF Take, EveryTaskHasAWaker
  <2>7. StartedInOrder'
    <3>1. Append(started, Head(tasks)) \o Tail(tasks) = started \o tasks
      BY <1>6, PopMoves DEF Take, PoolTypeOK
    <3> QED  BY <1>6, <3>1 DEF Take, StartedInOrder
  <2> QED  BY <2>2, <2>5, <2>6, <2>7
<1>7. ASSUME NEW w \in Workers, Finish(w) \/ SpuriousWakeup(w)
      PROVE  ThreadPoolInv'
  <2>1. PoolTypeOK'
    BY <1>7 DEF Finish, SpuriousWakeup, PoolTypeOK, WorkerStates
  <2>2. /\ In("exited")' = In("exited") /\ In("waiting")' \subseteq In("waiting")
        /\ In("running")' \subseteq In("running")
        /\ In("ready")' = In("ready") \cup {w}
        /\ worker[w] # "ready" /\ "ready" \in WorkerStates
        /\ UNCHANGED <<tasks, stop, owner, submitted, started>>
    BY <1>7 DEF Finish, SpuriousWakeup, In, PoolTypeOK, WorkerStates
  <2>3. OwnerAgrees' /\ StartedInOrder' /\ DrainsBeforeExit'
    BY <2>2 DEF OwnerAgrees, StartedInOrder, DrainsBeforeExit
  <2>5. Busy'
    BY <1>7 DEF Finish, SpuriousWakeup, PoolTypeOK, Busy
  <2>4. EveryTaskHasAWaker'
    <3>1. Cardinality(In("ready"))' = Cardinality(In("ready")) + 1
      BY <2>2, EnterState
    <3> QED  BY <1>0, <2>2, <3>1 DEF EveryTaskHasAWaker
  <2> QED  BY <2>1, <2>3, <2>4, <2>5
<1>8. CASE UNCHANGED poolVars
  BY <1>8 DEF poolVars, PoolTypeOK, OwnerAgrees, Busy, EveryTaskHasAWaker, StartedInOrder,
              DrainsBeforeExit, In
<1> QED
  BY <1>1, <1>2, <1>3, <1>4, <1>5, <1>6, <1>7, <1>8 DEF PoolStep, Destructor, WorkerStep

LEMMA ThreadPoolIsSafe == PoolSpec => []ThreadPoolInv
<1>1. PoolNext => PoolStep
  BY DEF PoolNext, PoolStep
<1> QED
  BY <1>1, ThreadPoolAssumption, InitThreadPoolInv, ThreadPoolInvStep, PTL DEF PoolSpec

(* For any number of workers: no task waits behind a missed notification,   *)
(* tasks start once each in order, and the destructor drains the queue.     *)
THEOREM ThreadPoolSafety ==
  PoolSpec => [](PoolTypeOK /\ EveryTaskHasAWaker /\ StartedInOrder /\ DrainsBeforeExit)
<1>1. ThreadPoolInv => PoolTypeOK /\ EveryTaskHasAWaker /\ StartedInOrder /\ DrainsBeforeExit
  BY DEF ThreadPoolInv
<1> QED  BY <1>1, ThreadPoolIsSafe, PTL

-----------------------------------------------------------------------------
(* The pool as a queue: what the other threads of the pool see of a step.   *)
Phase == IF owner = "destroyed" THEN "done" ELSE IF stop THEN "stopped" ELSE "open"

LEMMA QueueInit == PoolInit => TheQueue!Init
BY DEF PoolInit, TheQueue!Init

LEMMA QueueStep ==
  ASSUME ThreadPoolAssumption, ThreadPoolInv, PoolStep \/ UNCHANGED poolVars
  PROVE  [TheQueue!Next]_<<Phase, tasks, task>>
<1> USE DEF ThreadPoolInv, Phase
<1>1. ASSUME NEW t \in Tasks, Push(t)
      PROVE  TheQueue!Enqueue(t)
  BY <1>1 DEF Push, TheQueue!Enqueue
<1>2. CASE NotifyOne \/ NotifyAll
  BY <1>2 DEF NotifyOne, NotifyAll
<1>3. CASE SetStop
  BY <1>3 DEF SetStop, OwnerAgrees, TheQueue!Stop, TheQueue!Next
<1>4. CASE Join
  <2>1. stop /\ tasks = <<>>
    BY <1>4 DEF Join, DrainsBeforeExit, ThreadPoolAssumption
  <2>2. \A w \in Workers : task[w] = NoTask
    BY <1>4 DEF Join, In, Busy
  <2>3. TheQueue!Done
    BY <1>4, <2>1, <2>2 DEF Join, TheQueue!Done
  <2> QED  BY <2>3 DEF TheQueue!Next
<1>5. ASSUME NEW w \in Workers, Sleep(w) \/ Exit(w) \/ SpuriousWakeup(w)
      PROVE  UNCHANGED <<Phase, tasks, task>>
  BY <1>5 DEF Sleep, Exit, SpuriousWakeup
<1>6. ASSUME NEW w \in Workers, Take(w) \/ Finish(w)
      PROVE  TheQueue!Run(w) \/ TheQueue!End(w)
  <2>1. owner # "destroyed"
    BY <1>6 DEF Take, Finish, OwnerAgrees, In
  <2> QED  BY <1>6, <2>1 DEF Take, Finish, Busy, TheQueue!Run, TheQueue!End
<1>7. CASE UNCHANGED poolVars
  BY <1>7 DEF poolVars
<1> QED
  BY <1>1, <1>2, <1>3, <1>4, <1>5, <1>6, <1>7
  DEF PoolStep, Destructor, WorkerStep, TheQueue!Next

(* The pool implements the queue of tasks, for any workers and tasks.       *)
THEOREM ThreadPoolRefinement == PoolSpec => ImplementsTaskQueue
<1>1. ASSUME ThreadPoolInv, [PoolNext]_poolVars
      PROVE  [TheQueue!Next]_<<Phase, tasks, task>>
  BY <1>1, ThreadPoolAssumption, QueueStep DEF PoolNext, PoolStep
<1> QED
  BY <1>1, QueueInit, ThreadPoolIsSafe, PTL DEF PoolSpec, ImplementsTaskQueue, TheQueue!Spec, Phase
-----------------------------------------------------------------------------
ServerTypes == /\ reactor \in ReactorStates
               /\ running \in BOOLEAN /\ edge \in BOOLEAN /\ acceptFailed \in BOOLEAN
               /\ singletons \in BOOLEAN
               /\ batch \subseteq Conns \cup {ListenFd}
               /\ conn \in [Conns -> ConnStates]
               /\ sent \in [Conns -> 0..All] /\ got \in [Conns -> 0..All]
               /\ gone \in [Conns -> BOOLEAN]
               /\ step \in [Workers -> {"none", "read", "handle", "write"}]

Queued(c) == {i \in 1..Len(tasks) : tasks[i] = c}
Held(c) == {w \in Workers : task[w] = c}

(* A batch exists only while it is handled, and the backlog only while the  *)
(* listen socket does.                                                      *)
ReactorAgrees == /\ reactor \in {"starting", "loop", "exited"} => batch = {}
                 /\ Backlog # {} => running \/ reactor \in {"starting", "exited"}

Reported == \A c \in Conns : c \in batch <=> conn[c] = "reported"

Placed(c) ==
  \/ conn[c] # "dispatched" /\ Queued(c) = {} /\ Held(c) = {}
  \/ conn[c] = "dispatched" /\ Held(c) = {} /\ \E i \in 1..Len(tasks) : Queued(c) = {i}
  \/ conn[c] = "dispatched" /\ Queued(c) = {} /\ \E w \in Workers : Held(c) = {w}
InPool == \A c \in Conns : Placed(c)

ServerInv == /\ ThreadPoolInv /\ ServerTypes /\ ReactorAgrees /\ Reported
             /\ InPool /\ PendingIsAnnounced

-----------------------------------------------------------------------------
LEMMA ServerStepsPool ==
  ASSUME ServerAssumption, ServerTypes, [Next]_vars
  PROVE  PoolStep \/ UNCHANGED poolVars
<1> USE DEF PoolStep, WorkerStep
<1>1. CASE Reactor
  <2>1. ASSUME NEW e \in Conns \cup {ListenFd}, Dispatch(e)
        PROVE  PoolStep
    BY <2>1 DEF Dispatch, ServerAssumption
  <2>2. CASE EndEnqueue \/ DestroyServer
    BY <2>2 DEF EndEnqueue, DestroyServer
  <2>3. CASE Start \/ Poll \/ BeginAccept \/ Accept \/ EndAccept \/ EndBatch \/ EndLoop
             \/ DestroySingletons
    BY <2>3 DEF Start, Poll, BeginAccept, Accept, EndAccept, EndBatch, EndLoop,
                DestroySingletons
  <2> QED  BY <1>1, <2>1, <2>2, <2>3 DEF Reactor
<1>2. CASE Environment
  BY <1>2 DEF Environment, Stop, ConnectClient, Send, Leave, Wake
<1>3. ASSUME NEW w \in Workers, Worker(w)
      PROVE  PoolStep \/ UNCHANGED poolVars
  BY <1>3 DEF Worker, Runs, Begin, ReadData, ReadAgain, ReadOther, ReadEnd, Handle, Write, Loop
<1>4. CASE UNCHANGED vars
  BY <1>4 DEF vars
<1> QED  BY <1>1, <1>2, <1>3, <1>4 DEF Next

LEMMA InitServerInv ==
  ASSUME ThreadPoolAssumption, ServerAssumption, Init PROVE ServerInv
<1>1. ThreadPoolInv
  BY InitThreadPoolInv DEF Init
<1>2. ServerTypes
  <2>1. /\ conn \in [Conns -> ConnStates] /\ sent \in [Conns -> 0..All]
        /\ got \in [Conns -> 0..All] /\ gone \in [Conns -> BOOLEAN]
        /\ step \in [Workers -> {"none", "read", "handle", "write"}]
    BY DEF Init, ConnStates, All
  <2>2. /\ reactor \in ReactorStates /\ running \in BOOLEAN /\ edge \in BOOLEAN
        /\ acceptFailed \in BOOLEAN /\ singletons \in BOOLEAN
        /\ batch \subseteq Conns \cup {ListenFd}
    BY DEF Init, ReactorStates
  <2> QED  BY <2>1, <2>2 DEF ServerTypes
<1>. ReactorAgrees /\ Reported /\ PendingIsAnnounced
  BY DEF Init, PoolInit, ReactorAgrees, Backlog, Reported, PendingIsAnnounced
<1>3. InPool
  <2> SUFFICES ASSUME NEW c \in Conns PROVE Queued(c) = {} /\ Held(c) = {}
    BY DEF Init, InPool, Placed
  <2>1. Len(tasks) = 0
    BY EmptySeq DEF Init, PoolInit
  <2> QED
    BY <2>1 DEF Init, PoolInit, Queued, Held, ThreadPoolAssumption, ServerAssumption
<1> QED  BY <1>1, <1>2, <1>3 DEF ServerInv

LEMMA EndConnTypes ==
  ASSUME ServerTypes, NEW c, NEW end \in ConnStates, EndConn(c, end)
  PROVE  /\ conn' \in [Conns -> ConnStates] /\ sent' \in [Conns -> 0..All]
         /\ got' \in [Conns -> 0..All] /\ gone' \in [Conns -> BOOLEAN]
<1>1. conn' \in [Conns -> ConnStates]
  BY DEF ServerTypes, EndConn
<1>2. 0 \in 0..All
  BY DEF All
<1>3. sent' \in [Conns -> 0..All]
  BY <1>2 DEF ServerTypes, EndConn
<1>4. got' \in [Conns -> 0..All]
  BY <1>2 DEF ServerTypes, EndConn
<1>5. gone' \in [Conns -> BOOLEAN]
  BY DEF ServerTypes, EndConn
<1> QED  BY <1>1, <1>3, <1>4, <1>5

LEMMA ServerTypesStep ==
  ASSUME ServerAssumption, ServerInv, [Next]_vars PROVE ServerTypes'
<1> USE DEF ServerInv
<1>1. CASE Reactor
  BY <1>1 DEF ServerTypes, ReactorStates, ConnStates, serverVars, Reactor, Start, Poll, BeginAccept, Accept, EndAccept, EndEnqueue, EndBatch,
              EndLoop, DestroySingletons, DestroyServer, Dispatch, Backlog
<1>2. CASE Stop
  <2>1. conn' \in [Conns -> ConnStates] /\ gone' \in [Conns -> BOOLEAN]
    BY <1>2 DEF Stop, ServerTypes, ConnStates
  <2>2. sent' \in [Conns -> 0..All]
    BY <1>2 DEF Stop, ServerTypes, All
  <2> QED  BY <1>2, <2>1, <2>2 DEF Stop, ServerTypes
<1>3. ASSUME NEW c \in Conns, ConnectClient(c) \/ Send(c) \/ Leave(c)
      PROVE  ServerTypes'
  <2>1. CASE Send(c)
    <3> USE DEF ServerTypes, All
    <3>1. PICK n \in sent[c] + 1 .. All : sent' = [sent EXCEPT ![c] = n]
      BY <2>1 DEF Send
    <3>2. n \in 0..All
      BY <3>1
    <3> QED  BY <2>1, <3>1, <3>2 DEF Send
  <2>2. CASE ConnectClient(c)
    BY <2>2 DEF ConnectClient, ServerTypes, ConnStates
  <2>3. CASE Leave(c)
    BY <2>3 DEF Leave, ServerTypes
  <2> QED  BY <1>3, <2>1, <2>2, <2>3
<1>4. ASSUME NEW w \in Workers, Wake(w) \/ Loop(w)
      PROVE  ServerTypes'
  BY <1>4 DEF Wake, Loop, ServerTypes, serverVars
<1>5. ASSUME NEW w \in Workers, Begin(w) \/ ReadData(w) \/ ReadAgain(w) \/ ReadOther(w)
      PROVE  ServerTypes'
  BY <1>5 DEF Begin, ReadData, ReadAgain, ReadOther, ServerTypes, All
<1>6. ASSUME NEW w \in Workers, ReadEnd(w) \/ Handle(w) \/ Write(w)
      PROVE  ServerTypes'
  <2> USE DEF ServerTypes
  <2>1. CASE UNCHANGED <<conn, sent, got, gone>>
    BY <1>6, <2>1 DEF ReadEnd, Handle, Write
  <2>2. CASE ~UNCHANGED <<conn, sent, got, gone>>
    <3>1. PICK end \in ConnStates : EndConn(task[w], end)
      BY <1>6, <2>2 DEF ReadEnd, Handle, Write, EndClient, ConnStates
    <3>2. /\ conn' \in [Conns -> ConnStates] /\ sent' \in [Conns -> 0..All]
          /\ got' \in [Conns -> 0..All] /\ gone' \in [Conns -> BOOLEAN]
      BY <3>1, EndConnTypes
    <3> QED  BY <1>6, <3>2 DEF ReadEnd, Handle, Write
  <2> QED  BY <2>1, <2>2
<1>7. CASE UNCHANGED vars
  BY <1>7 DEF vars, ServerTypes, serverVars
<1> QED
  BY <1>1, <1>2, <1>3, <1>4, <1>5, <1>6, <1>7 DEF Next, Environment, Worker, Runs

(* Where the reactor is, and what waits at the listen socket. *)
LEMMA ReactorStep ==
  ASSUME ServerAssumption, ServerInv, [Next]_vars
  PROVE  ReactorAgrees' /\ Reported' /\ PendingIsAnnounced'
<1> USE DEF ServerInv, ServerTypes, ReactorAgrees, Reported, PendingIsAnnounced, Backlog
<1>1. CASE Start \/ EndAccept \/ EndEnqueue \/ EndBatch \/ EndLoop \/ DestroySingletons
           \/ DestroyServer
  BY <1>1 DEF Start, EndAccept, EndEnqueue, EndBatch, EndLoop, DestroySingletons,
              DestroyServer, serverVars, ReactorStates
<1>2. CASE Poll
  BY <1>2 DEF Poll, ServerAssumption
<1>3. CASE BeginAccept \/ Accept
  BY <1>3 DEF BeginAccept, Accept, ServerAssumption
<1>4. ASSUME NEW e \in Conns \cup {ListenFd}, Dispatch(e)
      PROVE  ReactorAgrees' /\ Reported' /\ PendingIsAnnounced'
  <2>1. \A c \in Conns : conn'[c] = IF c = e THEN "dispatched" ELSE conn[c]
    BY <1>4 DEF Dispatch
  <2>2. Backlog' \subseteq Backlog
    BY <2>1
  <2>3. e \in Conns => ListenFd \in batch' <=> ListenFd \in batch
    BY <1>4 DEF Dispatch, ServerAssumption
  <2> QED  BY <1>4, <2>1, <2>2, <2>3 DEF Dispatch
<1>5. CASE Stop
  BY <1>5 DEF Stop
<1>6. ASSUME NEW c \in Conns, ConnectClient(c) \/ Send(c) \/ Leave(c)
      PROVE  ReactorAgrees' /\ Reported' /\ PendingIsAnnounced'
  BY <1>6 DEF ConnectClient, Send, Leave
<1>7. ASSUME NEW w \in Workers,
             \/ Wake(w) \/ Loop(w) \/ Begin(w)
             \/ ReadData(w) \/ ReadAgain(w) \/ ReadOther(w)
      PROVE  ReactorAgrees' /\ Reported' /\ PendingIsAnnounced'
  BY <1>7 DEF Wake, Loop, Begin, ReadData, ReadAgain, ReadOther, serverVars
<1>8. ASSUME NEW w \in Workers, ReadEnd(w) \/ Handle(w) \/ Write(w)
      PROVE  ReactorAgrees' /\ Reported' /\ PendingIsAnnounced'
  <2>1. CASE UNCHANGED conn
    BY <1>8, <2>1 DEF ReadEnd, Handle, Write
  <2>2. CASE ~UNCHANGED conn
    <3>1. task[w] \in Tasks \cup {NoTask} /\ worker[w] = "running"
      BY <1>8, <2>2 DEF ReadEnd, Handle, Write, Finish, ThreadPoolInv, PoolTypeOK
    <3>2. PICK end \in {"closed", "leaked"} : conn' = [conn EXCEPT ![task[w]] = end]
      BY <1>8, <2>2 DEF ReadEnd, Handle, Write, EndClient, EndConn
    <3>3. task[w] \in Conns
      BY <2>2, <3>2
    <3>4. conn[task[w]] = "dispatched"
      BY <3>3 DEF InPool, Placed, Held
    <3> QED  BY <1>8, <3>2, <3>3, <3>4 DEF ReadEnd, Handle, Write
  <2> QED  BY <2>1, <2>2
<1>9. CASE UNCHANGED vars
  BY <1>9 DEF vars, serverVars
<1> QED
  BY <1>1, <1>2, <1>3, <1>4, <1>5, <1>6, <1>7, <1>8, <1>9
  DEF Next, Reactor, Environment, Worker, Runs

(* Where the descriptors are in the pool: each is queued once, or in the    *)
(* hands of one worker, or not there at all.                                *)
LEMMA InPoolStep ==
  ASSUME ThreadPoolAssumption, ServerAssumption, ServerInv, [Next]_vars
  PROVE  InPool'
<1> USE DEF ServerInv, ThreadPoolInv, PoolTypeOK, ServerTypes
<1>0. Len(tasks) \in Nat
  BY LenProperties
(* A step that leaves queue, workers' tasks and dispatched connections. *)
<1>a. ASSUME UNCHANGED <<tasks, task>>,
             \A c \in Conns : conn'[c] = "dispatched" <=> conn[c] = "dispatched"
      PROVE  InPool'
  <2>1. \A c : Queued(c)' = Queued(c) /\ Held(c)' = Held(c)
    BY <1>a DEF Queued, Held
  <2> QED  BY <1>a, <2>1 DEF InPool, Placed
<1>1. CASE Start \/ BeginAccept \/ EndAccept \/ EndBatch \/ EndLoop \/ DestroySingletons
  BY <1>1, <1>a DEF Start, BeginAccept, EndAccept, EndBatch, EndLoop, DestroySingletons, poolVars
<1>2. CASE Poll \/ Accept \/ Stop
  BY <1>2, <1>a DEF Poll, Accept, Stop, Backlog, poolVars
<1>3. CASE EndEnqueue \/ DestroyServer
  BY <1>3, <1>a DEF EndEnqueue, NotifyOne, DestroyServer, Destructor, SetStop, NotifyAll, Join,
                    serverVars, In
<1>4. ASSUME NEW c \in Conns, ConnectClient(c) \/ Send(c) \/ Leave(c)
      PROVE  InPool'
  BY <1>4, <1>a DEF ConnectClient, Send, Leave, poolVars
<1>5. ASSUME NEW w \in Workers,
             Wake(w) \/ Loop(w) \/ ReadData(w) \/ ReadAgain(w) \/ ReadOther(w)
      PROVE  InPool'
  BY <1>5, <1>a DEF Wake, SpuriousWakeup, Loop, Sleep, Exit, ReadData, ReadAgain, ReadOther,
                    poolVars, serverVars
<1>6. ASSUME NEW e \in Conns \cup {ListenFd}, Dispatch(e)
      PROVE  InPool'
  <2>1. /\ e \in Tasks /\ Len(tasks') = Len(tasks) + 1 /\ tasks'[Len(tasks) + 1] = e
        /\ \A i \in 1..Len(tasks) : tasks'[i] = tasks[i]
        /\ UNCHANGED <<worker, task>>
    BY <1>6, AppendProperties DEF Dispatch, Push, ServerAssumption
  <2>3. ASSUME NEW c \in Conns
        PROVE  /\ Held(c)' = Held(c)
               /\ Queued(c)' = IF c = e THEN Queued(c) \cup {Len(tasks) + 1} ELSE Queued(c)
    BY <1>0, <2>1 DEF Held, Queued
  <2>4. \A c \in Conns : conn'[c] = IF c = e THEN "dispatched" ELSE conn[c]
    BY <1>6 DEF Dispatch
  <2>5. e \in Conns => conn[e] # "dispatched"
    BY <1>6 DEF Dispatch, Reported
  <2>6. ASSUME NEW c \in Conns
        PROVE  Placed(c)'
    <3>1. CASE c = e
      <4>1. Queued(c) = {} /\ Held(c) = {}
        BY <2>5, <3>1 DEF InPool, Placed
      <4>2. Queued(c)' = {Len(tasks) + 1} /\ Held(c)' = {}
        BY <2>3, <3>1, <4>1
      <4>3. Len(tasks) + 1 \in 1..Len(tasks') /\ conn'[c] = "dispatched"
        BY <1>0, <2>1, <2>4, <3>1
      <4> QED  BY <4>2, <4>3 DEF Placed
    <3>2. CASE c # e
      <4>1. Queued(c)' = Queued(c) /\ Held(c)' = Held(c) /\ conn'[c] = conn[c]
        BY <2>3, <2>4, <3>2
      <4>2. Placed(c) /\ 1..Len(tasks) \subseteq 1..Len(tasks')
        BY <1>0, <2>1 DEF InPool
      <4> QED  BY <4>1, <4>2 DEF Placed
    <3> QED  BY <3>1, <3>2
  <2> QED  BY <2>6 DEF InPool
<1>7. ASSUME NEW w \in Workers, Begin(w)
      PROVE  InPool'
  <2>1. /\ Len(tasks) # 0 /\ Len(tasks') = Len(tasks) - 1 /\ Head(tasks) = tasks[1]
        /\ \A i \in 1..Len(tasks') : tasks'[i] = tasks[i + 1]
    BY <1>7, HeadTailProperties, EmptySeq DEF Begin, Take
  <2>2. /\ task' = [task EXCEPT ![w] = tasks[1]] /\ worker' = [worker EXCEPT ![w] = "running"]
        /\ task[w] = NoTask /\ UNCHANGED conn
    BY <1>7, <2>1 DEF Begin, Take, Busy
  <2>4. ASSUME NEW c \in Conns
        PROVE  /\ Queued(c)' = {i \in 1..Len(tasks) - 1 : i + 1 \in Queued(c)}
               /\ Held(c)' = IF c = tasks[1] THEN Held(c) \cup {w} ELSE Held(c)
    BY <1>0, <2>1, <2>2 DEF Queued, Held, ThreadPoolAssumption, ServerAssumption
  <2>5. ASSUME NEW c \in Conns
        PROVE  Placed(c)'
    <3>0. Placed(c)
      BY DEF InPool
    <3>1. CASE conn[c] # "dispatched"
      <4>1. Queued(c) = {} /\ Held(c) = {}
        BY <3>0, <3>1 DEF Placed
      <4>2. c # tasks[1]
        <5>1. 1 \in 1..Len(tasks)
          BY <1>0, <2>1
        <5> QED  BY <4>1, <5>1 DEF Queued
      <4>3. Queued(c)' = {} /\ Held(c)' = {}
        BY <2>4, <4>1, <4>2
      <4> QED  BY <2>2, <3>1, <4>3 DEF Placed
    <3>2. CASE c = tasks[1]
      <4>1. 1 \in Queued(c)
        BY <1>0, <2>1, <3>2 DEF Queued
      <4>2. conn[c] = "dispatched" /\ Held(c) = {} /\ Queued(c) = {1}
        BY <3>0, <4>1 DEF Placed
      <4>3. Queued(c)' = {} /\ Held(c)' = {w}
        BY <1>0, <2>4, <3>2, <4>2
      <4> QED  BY <2>2, <4>2, <4>3 DEF Placed
    <3>3. CASE conn[c] = "dispatched" /\ c # tasks[1]
      <4>0. Held(c)' = Held(c) /\ conn'[c] = "dispatched"
        BY <2>2, <2>4, <3>3
      <4>1. CASE Queued(c) = {}
        <5>1. Queued(c)' = {}
          BY <2>4, <4>1
        <5>2. \A i : {i} # {}
          OBVIOUS
        <5>3. PICK v \in Workers : Held(c) = {v}
          BY <3>0, <3>3, <4>1, <5>2 DEF Placed
        <5> QED  BY <4>0, <5>1, <5>3 DEF Placed
      <4>2. CASE Queued(c) # {}
        <5>1. PICK i \in 1..Len(tasks) : Queued(c) = {i} /\ Held(c) = {}
          BY <3>0, <3>3, <4>2 DEF Placed
        <5>2. i # 1 /\ i - 1 \in 1..Len(tasks') /\ tasks[i] = c
          BY <1>0, <2>1, <3>3, <5>1 DEF Queued
        <5>3. \A k \in 1..Len(tasks) - 1 : k + 1 \in Queued(c) <=> k = i - 1
          BY <1>0, <5>1, <5>2
        <5>4. Queued(c)' = {i - 1}
          BY <1>0, <2>1, <2>4, <5>2, <5>3
        <5> QED  BY <4>0, <5>1, <5>2, <5>4 DEF Placed
      <4> QED  BY <4>1, <4>2
    <3> QED  BY <3>1, <3>2, <3>3
  <2> QED  BY <2>5 DEF InPool
<1>8. ASSUME NEW w \in Workers, ReadEnd(w) \/ Handle(w) \/ Write(w)
      PROVE  InPool'
  <2>1. CASE UNCHANGED poolVars
    BY <1>8, <2>1, <1>a DEF ReadEnd, Handle, Write, Finish, poolVars
  <2>2. CASE Finish(w)
    <3>1. /\ UNCHANGED tasks /\ task' = [task EXCEPT ![w] = NoTask]
          /\ worker' = [worker EXCEPT ![w] = "ready"] /\ task[w] \in Tasks \cup {NoTask}
      BY <2>2 DEF Finish
    <3>3. ASSUME NEW c \in Conns
          PROVE  Queued(c)' = Queued(c) /\ Held(c)' = Held(c) \ {w}
      BY <3>1 DEF Queued, Held, ThreadPoolAssumption, ServerAssumption
    <3>4. /\ \A c \in Conns : c # task[w] => conn'[c] = conn[c] /\ w \notin Held(c)
          /\ task[w] \in Conns => conn'[task[w]] # "dispatched" /\ w \in Held(task[w])
      BY <1>8, <2>2 DEF ReadEnd, Handle, Write, EndClient, EndConn, Held, poolVars, Finish,
                          ServerAssumption
    <3>5. ASSUME NEW c \in Conns
          PROVE  Placed(c)'
      <4>1. CASE c = task[w]
        <5>1. Queued(c) = {} /\ \E v \in Workers : Held(c) = {v}
          BY <3>4, <4>1 DEF InPool, Placed
        <5>2. Queued(c)' = {} /\ Held(c)' = {}
          BY <3>3, <3>4, <4>1, <5>1
        <5> QED  BY <3>4, <4>1, <5>2 DEF Placed
      <4>2. CASE c # task[w]
        <5>1. w \notin Held(c) /\ conn'[c] = conn[c]
          BY <3>4, <4>2
        <5>2. Queued(c)' = Queued(c) /\ Held(c)' = Held(c)
          <6>1. \A S : w \notin S => S \ {w} = S
            OBVIOUS
          <6> QED  BY <3>3, <5>1, <6>1, Zenon
        <5> QED  BY <3>1, <5>1, <5>2 DEF InPool, Placed
      <4> QED  BY <4>1, <4>2
    <3> QED  BY <3>5 DEF InPool
  <2> QED  BY <1>8, <2>1, <2>2 DEF ReadEnd, Handle, Write
<1>9. CASE UNCHANGED vars
  BY <1>9, <1>a DEF vars, poolVars, serverVars
<1> QED
  BY <1>1, <1>2, <1>3, <1>4, <1>5, <1>6, <1>7, <1>8, <1>9
  DEF Next, Reactor, Environment, Worker, Runs

LEMMA ServerIsSafe == Spec => []ServerInv
<1>1. ASSUME ServerInv, [Next]_vars PROVE ServerInv'
  <2>1. ThreadPoolInv'
    BY <1>1, ThreadPoolAssumption, ServerAssumption, ServerStepsPool, ThreadPoolInvStep
    DEF ServerInv
  <2> QED
    BY <1>1, <2>1, ThreadPoolAssumption, ServerAssumption, ServerTypesStep, ReactorStep,
       InPoolStep DEF ServerInv
<1> QED
  BY <1>1, InitServerInv, ThreadPoolAssumption, ServerAssumption, PTL DEF Spec

(* A descriptor is watched, or in the batch, or once in the pool, for any   *)
(* number of connections and workers.                                       *)
THEOREM DescriptorsHaveOneOwner == Spec => []OneOwner
<1>1. ASSUME ServerInv PROVE OneOwner
  <2> SUFFICES ASSUME NEW c \in Conns
               PROVE  Count(c) = IF conn[c] = "dispatched" THEN 1 ELSE 0
    BY <1>1 DEF ServerInv, Reported, OneOwner
  <2>1. Count(c) = Cardinality(Queued(c)) + Cardinality(Held(c))
    BY DEF Count, Queued, Held
  <2>2. \A x : Cardinality({x}) = 1
    BY FS_Singleton
  <2>3. Placed(c) /\ Cardinality({}) = 0
    BY <1>1, FS_EmptySet DEF ServerInv, InPool
  <2>4. \/ /\ conn[c] # "dispatched"
           /\ Cardinality(Queued(c)) = 0 /\ Cardinality(Held(c)) = 0
        \/ /\ conn[c] = "dispatched"
           /\ \/ Cardinality(Queued(c)) = 1 /\ Cardinality(Held(c)) = 0
              \/ Cardinality(Queued(c)) = 0 /\ Cardinality(Held(c)) = 1
    BY <2>2, <2>3, Zenon DEF Placed
  <2> QED  BY <2>1, <2>4
<1> QED  BY <1>1, ServerIsSafe, PTL

(* A pending connection always has something to announce it, unless accept  *)
(* had failed.                                                              *)
THEOREM PendingConnectionsAreAnnounced == Spec => []PendingIsAnnounced
<1>1. ServerInv => PendingIsAnnounced
  BY DEF ServerInv
<1> QED  BY <1>1, ServerIsSafe, PTL

THEOREM ServerTypeCorrect == Spec => []TypeOK
<1>1. ServerInv => TypeOK
  BY DEF ServerInv, ThreadPoolInv, ServerTypes, TypeOK
<1> QED  BY <1>1, ServerIsSafe, PTL

(* What the pool guarantees holds of it inside the server: no task waits    *)
(* behind a missed notification, ...                                        *)
THEOREM ServerTasksHaveAWaker == Spec => []EveryTaskHasAWaker
<1>1. ServerInv => EveryTaskHasAWaker
  BY DEF ServerInv, ThreadPoolInv
<1> QED  BY <1>1, ServerIsSafe, PTL

(* ... the server's pool, too, implements the queue of tasks, ...           *)
THEOREM ServerRefinesTaskQueue == Spec => ImplementsTaskQueue
<1>1. ASSUME ServerInv, [Next]_vars
      PROVE  [TheQueue!Next]_<<Phase, tasks, task>>
  BY <1>1, ThreadPoolAssumption, ServerAssumption, ServerStepsPool, QueueStep DEF ServerInv
<1>2. Init => TheQueue!Init
  BY QueueInit DEF Init
<1> QED
  BY <1>1, <1>2, ServerIsSafe, PTL DEF Spec, ImplementsTaskQueue, TheQueue!Spec, Phase

(* ... connections are served in the order they were dispatched, ...        *)
THEOREM ServerStartsInOrder == Spec => []StartedInOrder
<1>1. ServerInv => StartedInOrder
  BY DEF ServerInv, ThreadPoolInv
<1> QED  BY <1>1, ServerIsSafe, PTL

(* ... and the pool drains before it is gone.                               *)
THEOREM ServerDrains == Spec => []DrainsBeforeExit
<1>1. ServerInv => DrainsBeforeExit
  BY DEF ServerInv, ThreadPoolInv
<1> QED  BY <1>1, ServerIsSafe, PTL
=============================================================================
