------------------------------ MODULE CallQueue ------------------------------
(***************************************************************************)
(* What the pending calls promise: a bounded queue.  A registration that   *)
(* succeeds puts its call at the end; the main thread takes the first one  *)
(* and makes it before it takes the next.                                  *)
(***************************************************************************)
EXTENDS Naturals, Sequences

CONSTANTS Call, NoCall, Capacity

VARIABLES queue, running
queueVars == <<queue, running>>

QueueInit == queue = <<>> /\ running = NoCall

Register(c) == /\ Len(queue) < Capacity
               /\ queue' = Append(queue, c)
               /\ UNCHANGED running

Take == /\ queue # <<>> /\ running = NoCall
        /\ running' = Head(queue)
        /\ queue' = Tail(queue)

Finish == /\ running # NoCall
          /\ running' = NoCall
          /\ UNCHANGED queue

QueueNext == (\E c \in Call : Register(c)) \/ Take \/ Finish

QueueSpec == QueueInit /\ [][QueueNext]_queueVars
=============================================================================
