----------------------------- MODULE ThreadPool -----------------------------
(***************************************************************************)
(* The server's worker pool (src/src/ThreadPool.cpp and                    *)
(* src/include/ThreadPool.hpp): a FIFO of tasks behind a mutex and a       *)
(* condition variable.  One thread, the owner, enqueues and finally        *)
(* destroys the pool; in this program it is the reactor's thread.  Every   *)
(* critical section is one step; notify_one, notify_all and join happen    *)
(* outside the mutex and are steps of their own.                           *)
(***************************************************************************)
EXTENDS Integers, Sequences, FiniteSets, Functions

CONSTANTS Workers, \* threads of the pool
          Tasks,   \* what may be enqueued
          NoTask

\* A configuration with no thread would run nothing at all.
ASSUME ThreadPoolAssumption ==
  /\ IsFiniteSet(Workers) /\ Workers # {}
  /\ NoTask \notin Tasks

VARIABLES tasks,     \* the queue of tasks
          stop,
          worker,    \* where each worker thread is
          task,      \* the local variable task of each worker
          owner,     \* what the owner thread is doing with the pool
          submitted, \* history: the tasks in the order enqueue pushed them
          started    \* history: the tasks in the order workers popped them

poolVars == <<tasks, stop, worker, task, owner, submitted, started>>

WorkerStates == {"ready", "waiting", "running", "exited"}
OwnerStates == {"open", "notifying", "stopping", "joining", "destroyed"}
In(s) == {w \in Workers : worker[w] = s}

PoolTypeOK == /\ tasks \in Seq(Tasks) /\ submitted \in Seq(Tasks) /\ started \in Seq(Tasks)
              /\ stop \in BOOLEAN
              /\ worker \in [Workers -> WorkerStates]
              /\ task \in [Workers -> Tasks \cup {NoTask}]
              /\ owner \in OwnerStates

PoolInit == /\ tasks = <<>> /\ submitted = <<>> /\ started = <<>>
            /\ stop = FALSE /\ owner = "open"
            /\ worker = [w \in Workers |-> "ready"]
            /\ task = [w \in Workers |-> NoTask]

-----------------------------------------------------------------------------
(* Faulty variants, each a bug such code may have; no part of Spec. *)

\* The worker leaves as soon as stop is set.
ExitAtOnce(w) ==
  /\ worker[w] = "ready" /\ stop
  /\ worker' = [worker EXCEPT ![w] = "exited"]
  /\ UNCHANGED <<tasks, stop, task, owner, submitted, started>>

\* The worker copies the front task and pops it only if others remain.
TakeLastTwice(w) ==
  /\ worker[w] = "ready" /\ tasks # <<>>
  /\ task' = [task EXCEPT ![w] = Head(tasks)]
  /\ tasks' = IF Len(tasks) = 1 THEN tasks ELSE Tail(tasks)
  /\ started' = Append(started, Head(tasks))
  /\ worker' = [worker EXCEPT ![w] = "running"]
  /\ UNCHANGED <<stop, owner, submitted>>

\* The predicate is tested once, not again after a wake-up.
TakeUnchecked(w) ==
  /\ worker[w] = "ready"
  /\ task' = [task EXCEPT ![w] = IF tasks = <<>> THEN NoTask ELSE Head(tasks)]
  /\ tasks' = IF tasks = <<>> THEN tasks ELSE Tail(tasks)
  /\ started' = Append(started, task'[w])
  /\ worker' = [worker EXCEPT ![w] = "running"]
  /\ UNCHANGED <<stop, owner, submitted>>

\* Nobody is notified when the worker pool has other tasks queued already.
NotifyIfFirst ==
  /\ owner = "notifying"
  /\ owner' = "open"
  /\ IF Len(tasks) > 1 \/ In("waiting") = {} THEN UNCHANGED worker
     ELSE \E w \in In("waiting") : worker' = [worker EXCEPT ![w] = "ready"]
  /\ UNCHANGED <<tasks, stop, task, submitted, started>>

\* The destructor wakes one worker instead of all.
NotifyOneAtStop ==
  /\ owner = "stopping"
  /\ owner' = "joining"
  /\ IF In("waiting") = {} THEN UNCHANGED worker
     ELSE \E w \in In("waiting") : worker' = [worker EXCEPT ![w] = "ready"]
  /\ UNCHANGED <<tasks, stop, task, submitted, started>>

-----------------------------------------------------------------------------
(* enqueue: the task is pushed under the mutex ... *)
Push(t) ==
  /\ owner = "open" /\ ~stop
  /\ tasks' = Append(tasks, t)
  /\ submitted' = Append(submitted, t)
  /\ owner' = "notifying"
  /\ UNCHANGED <<stop, worker, task, started>>

(* ... and one worker, if any waits, is notified after it is released. *)
NotifyOne ==
  /\ owner = "notifying"
  /\ owner' = "open"
  /\ IF In("waiting") = {} THEN UNCHANGED worker
     ELSE \E w \in In("waiting") : worker' = [worker EXCEPT ![w] = "ready"]
  /\ UNCHANGED <<tasks, stop, task, submitted, started>>

(* A worker's loop: wait for a task or the stop flag, ... *)
Sleep(w) ==
  /\ worker[w] = "ready"
  /\ ~stop /\ tasks = <<>>
  /\ worker' = [worker EXCEPT ![w] = "waiting"]
  /\ UNCHANGED <<tasks, stop, task, owner, submitted, started>>

SpuriousWakeup(w) ==
  /\ worker[w] = "waiting"
  /\ worker' = [worker EXCEPT ![w] = "ready"]
  /\ UNCHANGED <<tasks, stop, task, owner, submitted, started>>

(* ... return once stopped and out of tasks, ... *)
Exit(w) ==
  /\ worker[w] = "ready"
  /\ stop /\ tasks = <<>>
  /\ worker' = [worker EXCEPT ![w] = "exited"]
  /\ UNCHANGED <<tasks, stop, task, owner, submitted, started>>

(* ... or pop the front task and run it outside the mutex, ... *)
Take(w) ==
  /\ worker[w] = "ready" /\ tasks # <<>>
  /\ task' = [task EXCEPT ![w] = Head(tasks)]
  /\ tasks' = Tail(tasks)
  /\ started' = Append(started, Head(tasks))
  /\ worker' = [worker EXCEPT ![w] = "running"]
  /\ UNCHANGED <<stop, owner, submitted>>

(* ... until it returns or throws: the packaged_task keeps the exception.   *)
Finish(w) ==
  /\ worker[w] = "running"
  /\ worker' = [worker EXCEPT ![w] = "ready"]
  /\ task' = [task EXCEPT ![w] = NoTask]
  /\ UNCHANGED <<tasks, stop, owner, submitted, started>>

(* ~ThreadPool: stop under the mutex, wake everybody, join. *)
SetStop ==
  /\ owner = "open"
  /\ stop' = TRUE
  /\ owner' = "stopping"
  /\ UNCHANGED <<tasks, worker, task, submitted, started>>

NotifyAll ==
  /\ owner = "stopping"
  /\ owner' = "joining"
  /\ worker' = [w \in Workers |-> IF worker[w] = "waiting" THEN "ready" ELSE worker[w]]
  /\ UNCHANGED <<tasks, stop, task, submitted, started>>

Join ==
  /\ owner = "joining" /\ In("exited") = Workers
  /\ owner' = "destroyed"
  /\ UNCHANGED <<tasks, stop, worker, task, submitted, started>>

WorkerStep(w) == Sleep(w) \/ Exit(w) \/ Take(w) \/ Finish(w)
Destructor == SetStop \/ NotifyAll \/ Join

(* Bound: each task is enqueued at most once. *)
PoolNext == \/ \E t \in Tasks \ Range(submitted) : Push(t)
            \/ NotifyOne \/ Destructor
            \/ \E w \in Workers : WorkerStep(w) \/ SpuriousWakeup(w)

PoolSpec == PoolInit /\ [][PoolNext]_poolVars

-----------------------------------------------------------------------------
(* enqueue notifies one worker, after the mutex is released: whatever       *)
(* happens in between, while a worker sleeps every queued task has a worker *)
(* awake, or about to be woken, to run it.                                  *)
EveryTaskHasAWaker ==
  In("waiting") # {} =>
    Len(tasks) <= Cardinality(In("ready")) + (IF owner = "notifying" THEN 1 ELSE 0)

(* Tasks are started once each, in the order they were enqueued. *)
StartedInOrder == submitted = started \o tasks

(* A stopped pool drains: no worker leaves a queued task behind or sleeps   *)
(* through notify_all, and after the destructor every task enqueued was     *)
(* started and has ended.                                                   *)
DrainsBeforeExit ==
  /\ In("exited") # {} => stop /\ tasks = <<>>
  /\ owner \in {"joining", "destroyed"} => In("waiting") = {}
  /\ owner = "destroyed" => started = submitted /\ In("running") = {}

(* The pool implements the queue of tasks. *)
TheQueue == INSTANCE TaskQueue
              WITH queue <- tasks, running <- task,
                   phase <- IF owner = "destroyed" THEN "done"
                            ELSE IF stop THEN "stopped" ELSE "open"
ImplementsTaskQueue == TheQueue!Spec
=============================================================================
