----------------------------- MODULE TaskQueue -----------------------------
(***************************************************************************)
(* What the worker pool promises to the code that enqueues, without        *)
(* mutexes, condition variables or sleeping threads: a queue from which    *)
(* any idle worker takes the oldest task, and runs it to its end before it *)
(* takes another.  A task is taken once.  Once the queue is stopped        *)
(* nothing enters it, and it is done when it is empty and nobody runs a    *)
(* task any more; no worker takes anything after that.                     *)
(***************************************************************************)
EXTENDS Sequences

CONSTANTS Workers, Tasks, NoTask

VARIABLES phase, queue, running

Init == /\ phase = "open"
        /\ queue = <<>>
        /\ running = [w \in Workers |-> NoTask]

Enqueue(t) == /\ phase = "open"
              /\ queue' = Append(queue, t)
              /\ UNCHANGED <<phase, running>>

Run(w) == /\ phase # "done"
          /\ queue # <<>> /\ running[w] = NoTask
          /\ running' = [running EXCEPT ![w] = Head(queue)]
          /\ queue' = Tail(queue)
          /\ UNCHANGED phase

End(w) == /\ phase # "done"
          /\ running[w] # NoTask
          /\ running' = [running EXCEPT ![w] = NoTask]
          /\ UNCHANGED <<phase, queue>>

Stop == /\ phase = "open"
        /\ phase' = "stopped"
        /\ UNCHANGED <<queue, running>>

Done == /\ phase = "stopped"
        /\ queue = <<>> /\ \A w \in Workers : running[w] = NoTask
        /\ phase' = "done"
        /\ UNCHANGED <<queue, running>>

Next == \/ Stop \/ Done
        \/ \E t \in Tasks : Enqueue(t)
        \/ \E w \in Workers : Run(w) \/ End(w)

Spec == Init /\ [][Next]_<<phase, queue, running>>
=============================================================================
