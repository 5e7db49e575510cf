------------------------------- MODULE LibQueue -------------------------------
(***************************************************************************)
(* Queue.Queue of Lib/Queue.py, on the three conditions of                 *)
(* Lib/threading.py that share its mutex.                                  *)
(*                                                                         *)
(* What a thread does with the mutex is one step, the taking and the       *)
(* letting go included, but for the notification: notify() releases the    *)
(* locks of waiters that may be giving up just then.  What a thread does in*)
(* Condition.wait() without the mutex are steps of their own.              *)
(***************************************************************************)
EXTENDS Integers, Sequences, FiniteSets

CONSTANTS
  Thread, Nobody, Idle,
  maxsize,
  Calls,          \* [Thread -> the calls it makes]
  Interruptible,  \* threads with Python signal handlers: the main thread or none
  MaxTasks        \* bound: nobody puts when so many tasks are unfinished

Condition == {"not_empty", "not_full", "all_tasks_done"}
Kind == {"put", "get", "task_done", "join"}
Mode == {"nowait", "block", "timed"}

ASSUME LibQueueAssumption ==
  /\ Nobody \notin Thread /\ maxsize \in Nat /\ MaxTasks \in Nat
  /\ Interruptible \subseteq Thread
  /\ \A t \in Thread : Idle \notin Calls[t] /\ \A c \in Calls[t] :
       /\ c.kind \in Kind /\ c.mode \in Mode
       /\ c.kind \notin {"put", "get"} => c.mode = "block"

VARIABLES
  queue, unfinished_tasks, mutex,
  waiters,     \* [Condition -> the threads whose locks are in __waiters, or Nobody for a lock
               \*               whose thread has left]
  released,    \* threads whose waiter lock has been released
  notifying,   \* the waiters that the notify() under way has yet to serve
  late,        \* threads whose timeout is over
  call,        \* [Thread -> the call it is in, or Idle]
  pc,
  interrupted  \* history: a signal handler has raised in a wait

data == <<queue, unfinished_tasks>>
waiting == <<waiters, released, late>>
vars == <<data, mutex, waiting, notifying, call, pc, interrupted>>

\* In a method before it has taken effect; and after.
Before == {"acquire", "sleep", "forget"}
PC == {"out", "notify", "remove", "raise"} \cup Before

Init ==
  /\ queue = <<>> /\ unfinished_tasks = 0 /\ mutex = Nobody
  /\ waiters = [c \in Condition |-> <<>>] /\ released = {} /\ notifying = <<>> /\ late = {}
  /\ call = [t \in Thread |-> Idle] /\ pc = [t \in Thread |-> "out"] /\ interrupted = FALSE

Go(t, l) == pc' = [pc EXCEPT ![t] = l]
Return(t) ==
  /\ Go(t, "out") /\ call' = [call EXCEPT ![t] = Idle] /\ late' = late \ {t}
Full == maxsize > 0 /\ Len(queue) = maxsize
\* list.remove(), or nothing when it is not there.
Without(s, x) ==
  LET At == {i \in 1..Len(s) : s[i] = x}
      i == CHOOSE k \in At : \A l \in At : k <= l
  IN  IF At = {} THEN s ELSE SubSeq(s, 1, i - 1) \o SubSeq(s, i + 1, Len(s))
-----------------------------------------------------------------------------
\* A method begins.
Begin(t) ==
  /\ pc[t] = "out" /\ Go(t, "acquire")
  /\ \E c \in Calls[t] :
       /\ c.kind = "put" => unfinished_tasks < MaxTasks
       /\ call' = [call EXCEPT ![t] = c]
  /\ UNCHANGED <<data, mutex, waiting, notifying, interrupted>>

\* The time of a call with a timeout passes.
Expire(t) ==
  /\ pc[t] \in Before /\ call[t].mode = "timed" /\ t \notin late
  /\ late' = late \cup {t}
  /\ UNCHANGED <<data, mutex, waiters, released, notifying, call, pc, interrupted>>

\* The thread takes the mutex, at the beginning of the method or at the end of wait(), and tests
\* what it waits for.
Tests(t, kind) == pc[t] = "acquire" /\ mutex = Nobody /\ call[t].kind = kind
MustWait(t) ==
  \/ call[t].kind = "put" /\ Full
  \/ call[t].kind = "get" /\ queue = <<>>
  \/ call[t].kind = "join" /\ unfinished_tasks # 0
ConditionOf(t) == CASE call[t].kind = "put" -> "not_full"
                    [] call[t].kind = "get" -> "not_empty"
                    [] OTHER -> "all_tasks_done"

\* wait() up to where the mutex is free again.
wait(t) ==
  /\ \E kind \in Kind : Tests(t, kind)
  /\ MustWait(t) /\ call[t].mode # "nowait" /\ t \notin late
  /\ waiters' = [waiters EXCEPT ![ConditionOf(t)] = Append(@, t)]
  /\ released' = released \ {t}        \* a new lock
  /\ Go(t, "sleep")
  /\ UNCHANGED <<data, mutex, notifying, late, call, interrupted>>

\* A slip: a timeout that is over is the answer.
Refuse_late(t) ==
  /\ \/ (\E kind \in {"put", "get"} : Tests(t, kind))
        /\ (t \in late \/ (MustWait(t) /\ call[t].mode = "nowait"))
     \/ Tests(t, "task_done") /\ unfinished_tasks = 0
  /\ Return(t)
  /\ UNCHANGED <<data, mutex, waiters, released, notifying, interrupted>>

\* Full, Empty, or ValueError.
Refuse(t) ==
  /\ \/ (\E kind \in {"put", "get"} : Tests(t, kind))
        /\ MustWait(t) /\ (call[t].mode = "nowait" \/ t \in late)
     \/ Tests(t, "task_done") /\ unfinished_tasks = 0
  /\ Return(t)
  /\ UNCHANGED <<data, mutex, waiters, released, notifying, interrupted>>

\* notify() of these waiters, with the mutex, or the end of the method when there are none.
Notify(t, slice) ==
  /\ notifying' = slice
  /\ IF slice = <<>> THEN Return(t) /\ UNCHANGED mutex
     ELSE Go(t, "notify") /\ mutex' = t /\ UNCHANGED <<call, late>>
First(s) == IF s = <<>> THEN <<>> ELSE <<Head(s)>>

put(t) ==
  /\ Tests(t, "put") /\ ~MustWait(t)
  /\ queue' = Append(queue, call[t].item) /\ unfinished_tasks' = unfinished_tasks + 1
  /\ Notify(t, First(waiters["not_empty"]))
  /\ UNCHANGED <<waiters, released, interrupted>>

\* A slip: producers are told only when the queue was full.
get_from_full(t) ==
  /\ Tests(t, "get") /\ ~MustWait(t)
  /\ queue' = Tail(queue) /\ UNCHANGED unfinished_tasks
  /\ Notify(t, IF Full THEN First(waiters["not_full"]) ELSE <<>>)
  /\ UNCHANGED <<waiters, released, interrupted>>

get(t) ==
  /\ Tests(t, "get") /\ ~MustWait(t)
  /\ queue' = Tail(queue) /\ UNCHANGED unfinished_tasks
  /\ Notify(t, First(waiters["not_full"]))
  /\ UNCHANGED <<waiters, released, interrupted>>

task_done(t) ==
  /\ Tests(t, "task_done") /\ unfinished_tasks > 0
  /\ unfinished_tasks' = unfinished_tasks - 1 /\ UNCHANGED queue
  /\ Notify(t, IF unfinished_tasks = 1 THEN waiters["all_tasks_done"] ELSE <<>>)
  /\ UNCHANGED <<waiters, released, interrupted>>

join(t) ==
  /\ Tests(t, "join") /\ ~MustWait(t) /\ Return(t)
  /\ UNCHANGED <<data, mutex, waiters, released, notifying, interrupted>>

\* The condition that the thread notifies.
Notified(t) == CASE call[t].kind = "put" -> "not_empty"
                 [] call[t].kind = "get" -> "not_full"
                 [] OTHER -> "all_tasks_done"
NotifyRelease(t) ==
  /\ pc[t] = "notify" /\ Go(t, "remove")
  /\ released' = released \cup ({Head(notifying)} \ {Nobody})
  /\ UNCHANGED <<data, mutex, waiters, notifying, late, call, interrupted>>
NotifyRemove(t) ==
  /\ pc[t] = "remove"
  /\ waiters' = [waiters EXCEPT ![Notified(t)] = Without(@, Head(notifying))]
  /\ notifying' = Tail(notifying)
  /\ IF Len(notifying) = 1 THEN Return(t) /\ mutex' = Nobody
     ELSE Go(t, "notify") /\ UNCHANGED <<mutex, call, late>>
  /\ UNCHANGED <<data, released, interrupted>>
-----------------------------------------------------------------------------
(* The rest of Condition.wait(): a thread with a timeout polls its lock.    *)

GotIt(t) ==
  /\ pc[t] = "sleep" /\ t \in released /\ released' = released \ {t}
  /\ Go(t, "acquire")
  /\ UNCHANGED <<data, mutex, waiters, late, notifying, call, interrupted>>

TimedOut(t) ==
  /\ pc[t] = "sleep" /\ t \notin released /\ t \in late
  /\ Go(t, "forget")
  /\ UNCHANGED <<data, mutex, waiting, notifying, call, interrupted>>

\* Slips: the lock stays; the call ends without another test.
Forget_keeps(t) ==
  /\ pc[t] = "forget" /\ Go(t, "acquire")
  /\ UNCHANGED <<data, mutex, waiting, notifying, call, interrupted>>
Forget_gives_up(t) ==
  /\ pc[t] = "forget" /\ Go(t, "raise")
  /\ waiters' = [waiters EXCEPT ![ConditionOf(t)] = Without(@, t)]
  /\ UNCHANGED <<data, mutex, released, late, notifying, call, interrupted>>

\* The lock leaves the list of waiters; a release of it that comes too late is lost with it.
Forget(t) ==
  /\ pc[t] = "forget" /\ Go(t, "acquire")
  /\ waiters' = [waiters EXCEPT ![ConditionOf(t)] = Without(@, t)]
  /\ UNCHANGED <<data, mutex, released, late, notifying, call, interrupted>>

\* A Python signal handler raises in the sleep of wait(): the lock stays in the list.  The call
\* ends when the mutex has been taken again.
Abandoned(s, t) == [i \in 1..Len(s) |-> IF s[i] = t THEN Nobody ELSE s[i]]
Interrupt(t) ==
  /\ t \in Interruptible /\ pc[t] = "sleep" /\ call[t].mode = "timed"
  /\ ~interrupted                  \* bound: once
  /\ waiters' = [c \in Condition |-> Abandoned(waiters[c], t)]
  /\ notifying' = Abandoned(notifying, t)
  /\ released' = released \ {t} /\ interrupted' = TRUE
  /\ Go(t, "raise")
  /\ UNCHANGED <<data, mutex, late, call>>
Raise(t) ==
  /\ pc[t] = "raise" /\ mutex = Nobody /\ Return(t)
  /\ UNCHANGED <<data, mutex, waiters, released, notifying, interrupted>>
-----------------------------------------------------------------------------
Step(t) ==
  \/ wait(t) \/ Refuse(t) \/ put(t) \/ get(t) \/ task_done(t) \/ join(t)
  \/ NotifyRelease(t) \/ NotifyRemove(t) \/ GotIt(t) \/ TimedOut(t) \/ Forget(t) \/ Raise(t)
Next == \E t \in Thread : Begin(t) \/ Step(t) \/ Expire(t) \/ Interrupt(t)
Spec == Init /\ [][Next]_vars

\* A thread that can move does, and time passes.  At last no more calls are begun.
FairSpec ==
  /\ Spec /\ \A t \in Thread : WF_vars(Step(t)) /\ WF_vars(Expire(t))
  /\ <>[][\A t \in Thread : ~Begin(t)]_vars
-----------------------------------------------------------------------------
(* Properties.                                                              *)

\* Threads that wait on a condition and have neither been notified nor given up.
Sleeping(c) == {t \in Thread : pc[t] = "sleep" /\ ConditionOf(t) = c /\ t \notin released}

\* A condition knows its waiters: each thread that sleeps on it is in the list once, or about to
\* be served; besides them the list has threads that are just giving up, a waiter that is just
\* being served, and locks that signal handlers left.
WaitersExact ==
  \A c \in Condition :
    LET In(t) == {i \in 1..Len(waiters[c]) : waiters[c][i] = t} IN
    /\ \A t \in Sleeping(c) : Cardinality(In(t)) = 1
    /\ \A t \in Thread : In(t) # {} =>
         \/ t \in Sleeping(c) \/ pc[t] = "forget"
         \/ \E n \in Thread : pc[n] = "remove" /\ Notified(n) = c /\ Head(notifying) = t
    /\ ~interrupted => In(Nobody) = {}

\* Threads that will test again for what they wait for, or are being notified of it.
Coming(kind) ==
  {t \in Thread : /\ pc[t] \in Before /\ call[t].kind = kind
                  /\ \/ pc[t] # "sleep" \/ t \in released
                     \/ \E i \in 1..Len(notifying) : notifying[i] = t}

\* No notification is lost, to a waiter that gives up or to a thread that comes between: while
\* somebody sleeps for an item (for a free place), at least as many threads are on their way to
\* the queue as there are items (free places) in it; and nobody sleeps for the end of the tasks
\* when none is unfinished.
NotificationsReach ==
  ~interrupted =>
    /\ Sleeping("not_empty") \ Coming("get") # {} => Len(queue) <= Cardinality(Coming("get"))
    /\ Sleeping("not_full") \ Coming("put") # {} =>
         maxsize - Len(queue) <= Cardinality(Coming("put"))
    /\ Sleeping("all_tasks_done") \ Coming("join") # {} => unfinished_tasks > 0

\* The methods are atomic, in an order that agrees with when they are called: items come out in
\* the order they went in, a call is refused only when the queue is full (empty) at that time,
\* and join() returns after a moment with no unfinished task.
Pending == [t \in Thread |-> IF pc[t] \in Before THEN call[t] ELSE Idle]
Atomic == INSTANCE SharedQueue WITH call <- Pending
ImplementsQueue == Atomic!QueueSpec

\* Once no more calls are begun, whoever still waits waits in vain: for an item of an empty
\* queue, for a place in a full one, for tasks that nobody finishes.  Nobody with a timeout
\* does, nor anybody else, unless a signal handler raised inside a wait.
OnlyVainWaits ==
  <>[](\A t \in Thread : pc[t] # "out" =>
         interrupted \/ (pc[t] = "sleep" /\ call[t].mode = "block" /\ MustWait(t)))
=============================================================================
