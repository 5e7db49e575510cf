------------------------------ MODULE SharedQueue ------------------------------
(***************************************************************************)
(* What Lib/Queue.py promises to its threads: every call takes effect, or  *)
(* is refused, at one moment after it has begun.                           *)
(***************************************************************************)
EXTENDS Integers, Sequences

CONSTANTS Thread, maxsize, Idle,
          Calls       \* [Thread -> the calls it makes]
VARIABLES queue, unfinished_tasks,
          call,       \* [Thread -> its call that has yet to take effect, or Idle]
          interrupted \* a signal handler has raised in a call

data == <<queue, unfinished_tasks>>
queueVars == <<data, call, interrupted>>
QueueInit ==
  queue = <<>> /\ unfinished_tasks = 0 /\ call = [t \in Thread |-> Idle] /\ interrupted = FALSE

In(t, kind) == call[t] # Idle /\ call[t].kind = kind
Full == maxsize > 0 /\ Len(queue) = maxsize
Done(t) == call' = [call EXCEPT ![t] = Idle]

Called(t) == /\ call[t] = Idle /\ \E c \in Calls[t] : call' = [call EXCEPT ![t] = c]
             /\ UNCHANGED data
Put(t) == /\ In(t, "put") /\ ~Full /\ Done(t)
          /\ queue' = Append(queue, call[t].item) /\ unfinished_tasks' = unfinished_tasks + 1
Get(t) == /\ In(t, "get") /\ queue # <<>> /\ Done(t)
          /\ queue' = Tail(queue) /\ UNCHANGED unfinished_tasks
TaskDone(t) == /\ In(t, "task_done") /\ unfinished_tasks > 0 /\ Done(t)
               /\ unfinished_tasks' = unfinished_tasks - 1 /\ UNCHANGED queue
Join(t) == /\ In(t, "join") /\ unfinished_tasks = 0 /\ Done(t)
           /\ UNCHANGED data

\* Full, Empty or ValueError; a call that may wait as long as it takes is not refused.
Refused(t) ==
  /\ \/ In(t, "put") /\ Full /\ call[t].mode # "block"
     \/ In(t, "get") /\ queue = <<>> /\ call[t].mode # "block"
     \/ In(t, "task_done") /\ unfinished_tasks = 0
  /\ Done(t) /\ UNCHANGED data
\* A call with a timeout sleeps, and a signal handler may raise in it (bound: once).
Interrupted(t) ==
  /\ In(t, "put") \/ In(t, "get")
  /\ call[t].mode = "timed" /\ ~interrupted /\ interrupted' = TRUE
  /\ Done(t) /\ UNCHANGED data

QueueNext == \E t \in Thread :
  \/ /\ Called(t) \/ Put(t) \/ Get(t) \/ TaskDone(t) \/ Join(t) \/ Refused(t)
     /\ UNCHANGED interrupted
  \/ Interrupted(t)
QueueSpec == QueueInit /\ [][QueueNext]_queueVars
=============================================================================
