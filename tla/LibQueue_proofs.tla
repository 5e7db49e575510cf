---------------------------- MODULE LibQueue_proofs ----------------------------
(***************************************************************************)
(* LibQueue implements SharedQueue, for any threads, calls and maxsize.    *)
(***************************************************************************)
EXTENDS LibQueue, TLAPS, SequenceTheorems, FiniteSetTheorems,
        WellFoundedInduction

\* What the methods rely on about the calls under way: a thread outside is in none, and only a
\* call with a timeout can be late.
CallsTyped ==
  /\ pc \in [Thread -> PC] /\ DOMAIN call = Thread
  /\ \A t \in Thread : pc[t] = "out" => call[t] = Idle
  /\ \A t \in Thread : pc[t] # "out" => call[t] \in Calls[t]
  /\ \A t \in Thread : t \in late => pc[t] # "out" /\ call[t].mode = "timed"

\* The calls of a thread are not Idle, and only put and get have a mode.
LEMMA CallsAre ==
  ASSUME NEW t \in Thread, NEW c \in Calls[t]
  PROVE  c # Idle /\ c.mode \in Mode /\ (c.kind \notin {"put", "get"} => c.mode = "block")
  BY LibQueueAssumption

LEMMA InitCalls == Init => CallsTyped
<1> SUFFICES ASSUME Init PROVE CallsTyped
  OBVIOUS
<1>1. pc \in [Thread -> PC] /\ DOMAIN call = Thread
  BY DEF Init, PC, Before
<1> QED
  BY <1>1 DEF Init, CallsTyped

\* A thread moves inside its call.
LEMMA Moves ==
  ASSUME CallsTyped, NEW t \in Thread, NEW l \in PC, pc[t] # "out", l # "out",
         Go(t, l), call' = call, late' = late
  PROVE  CallsTyped'
  BY DEF CallsTyped, Go

\* A call ends.
LEMMA Returns == ASSUME CallsTyped, NEW t \in Thread, Return(t) PROVE CallsTyped'
<1>1. "out" \in PC
  BY DEF PC
<1> QED
  BY <1>1 DEF CallsTyped, Return, Go

LEMMA StepCalls == CallsTyped /\ [Next]_vars => CallsTyped'
<1> SUFFICES ASSUME CallsTyped, [Next]_vars PROVE CallsTyped'
  OBVIOUS
<1>0. {"acquire", "sleep", "forget", "notify", "remove", "raise"} \subseteq PC
  BY DEF PC, Before
<1>1. ASSUME NEW t \in Thread, Begin(t) PROVE CallsTyped'
  BY <1>0, <1>1 DEF Begin, Go, CallsTyped, waiting
<1>2. ASSUME NEW t \in Thread, Expire(t) PROVE CallsTyped'
  BY <1>2 DEF Expire, CallsTyped, Before
<1>3. ASSUME NEW t \in Thread, wait(t) PROVE CallsTyped'
  BY <1>0, <1>3, Moves DEF wait, Tests
<1>4. ASSUME NEW t \in Thread, Refuse(t) \/ join(t) \/ Raise(t) PROVE CallsTyped'
  BY <1>4, Returns DEF Refuse, join, Raise
<1>5. ASSUME NEW t \in Thread, NEW slice, Notify(t, slice), pc[t] = "acquire" PROVE CallsTyped'
  BY <1>0, <1>5, Moves, Returns DEF Notify
<1>6. ASSUME NEW t \in Thread, put(t) \/ get(t) \/ task_done(t) PROVE CallsTyped'
  BY <1>5, <1>6 DEF put, get, task_done, Tests
<1>7. ASSUME NEW t \in Thread, NotifyRelease(t) \/ NotifyRemove(t) PROVE CallsTyped'
  BY <1>0, <1>7, Moves, Returns DEF NotifyRelease, NotifyRemove
<1>8. ASSUME NEW t \in Thread, GotIt(t) \/ TimedOut(t) \/ Forget(t) \/ Interrupt(t)
      PROVE CallsTyped'
  BY <1>0, <1>8, Moves DEF GotIt, TimedOut, Forget, Interrupt, waiting
<1>9. CASE UNCHANGED vars
  BY <1>9 DEF vars, waiting, CallsTyped
<1> QED
  BY <1>1, <1>2, <1>3, <1>4, <1>6, <1>7, <1>8, <1>9 DEF Next, Step

THEOREM CallsKept == Spec => []CallsTyped
  BY InitCalls, StepCalls, PTL DEF Spec
-----------------------------------------------------------------------------
\* A thread that has not taken effect is in its call, and no other's changes.
LEMMA PendingIs ==
  ASSUME CallsTyped, NEW t \in Thread, pc[t] \in Before
  PROVE  Pending[t] = call[t] /\ call[t] \in Calls[t] /\ call[t] # Idle
  BY CallsAre DEF Pending, CallsTyped, Before

\* The call of a thread takes effect when the thread leaves these places.
LEMMA TakesEffect ==
  ASSUME CallsTyped, CallsTyped', NEW t \in Thread, pc[t] \in Before, pc'[t] \notin Before,
         \A u \in Thread \ {t} : pc'[u] = pc[u] /\ call'[u] = call[u]
  PROVE  Atomic!Done(t)
<1>1. Pending' = [Pending EXCEPT ![t] = Idle]
  BY DEF Pending
<1> QED
  BY <1>1 DEF Atomic!Done

\* A step that takes no effect.
LEMMA NoEffect ==
  ASSUME CallsTyped, CallsTyped', UNCHANGED <<data, call, interrupted>>,
         \A u \in Thread : pc'[u] \in Before <=> pc[u] \in Before
  PROVE  UNCHANGED Atomic!queueVars
<1>1. Pending' = Pending
  BY DEF Pending
<1> QED
  BY <1>1 DEF Atomic!queueVars, Atomic!data, data

\* Every way out of the mutex is out of the places before the effect.
LEMMA LeaveBefore ==
  ASSUME CallsTyped, NEW t \in Thread, Return(t) \/ (\E slice : Notify(t, slice))
  PROVE  /\ pc'[t] \notin Before
         /\ \A u \in Thread \ {t} : pc'[u] = pc[u] /\ call'[u] = call[u]
  BY DEF CallsTyped, Return, Notify, Go, Before

LEMMA StepQueue ==
  CallsTyped /\ CallsTyped' /\ [Next]_vars => [Atomic!QueueNext]_(Atomic!queueVars)
<1> SUFFICES ASSUME CallsTyped, CallsTyped', [Next]_vars
             PROVE  [Atomic!QueueNext]_(Atomic!queueVars)
  OBVIOUS
<1> USE DEF Atomic!QueueNext
<1>1. ASSUME NEW t \in Thread, Begin(t) PROVE Atomic!QueueNext
  <2>1. PICK c \in Calls[t] : call' = [call EXCEPT ![t] = c]
    BY <1>1 DEF Begin
  <2>2. Pending[t] = Idle
    BY <1>1 DEF Begin, Pending, Before
  <2>3. Pending' = [Pending EXCEPT ![t] = c]
    BY <1>1, <2>1 DEF Begin, Pending, CallsTyped, Go, Before
  <2>4. UNCHANGED <<queue, unfinished_tasks, interrupted>>
    BY <1>1 DEF Begin, data
  <2> QED BY <2>2, <2>3, <2>4 DEF Atomic!Called, Atomic!data
<1>2. ASSUME NEW t \in Thread, pc[t] = "acquire" PROVE pc[t] \in Before
  BY <1>2 DEF Before
<1>3. ASSUME NEW t \in Thread, put(t) PROVE Atomic!QueueNext
  <2>1. pc[t] \in Before /\ Atomic!Done(t)
    BY <1>2, <1>3, TakesEffect, LeaveBefore DEF put, Tests
  <2>2. Atomic!In(t, "put") /\ ~Atomic!Full /\ Pending[t].item = call[t].item
    BY <1>3, <2>1, PendingIs DEF put, Tests, MustWait, Full, Atomic!In, Atomic!Full
  <2>3. Atomic!Put(t)
    BY <1>3, <2>1, <2>2 DEF put, Atomic!Put
  <2> QED BY <1>3, <2>3 DEF put
<1>4. ASSUME NEW t \in Thread, get(t) PROVE Atomic!QueueNext
  <2>1. pc[t] \in Before /\ Atomic!Done(t)
    BY <1>2, <1>4, TakesEffect, LeaveBefore DEF get, Tests
  <2>2. Atomic!In(t, "get") /\ queue # <<>>
    BY <1>4, <2>1, PendingIs DEF get, Tests, MustWait, Atomic!In
  <2>3. Atomic!Get(t)
    BY <1>4, <2>1, <2>2 DEF get, Atomic!Get
  <2> QED BY <1>4, <2>3 DEF get
<1>5. ASSUME NEW t \in Thread, task_done(t) PROVE Atomic!QueueNext
  <2>1. pc[t] \in Before /\ Atomic!Done(t)
    BY <1>2, <1>5, TakesEffect, LeaveBefore DEF task_done, Tests
  <2>2. Atomic!In(t, "task_done")
    BY <1>5, <2>1, PendingIs DEF task_done, Tests, Atomic!In
  <2>3. Atomic!TaskDone(t)
    BY <1>5, <2>1, <2>2 DEF task_done, Atomic!TaskDone
  <2> QED BY <1>5, <2>3 DEF task_done
<1>6. ASSUME NEW t \in Thread, join(t) PROVE Atomic!QueueNext
  <2>1. pc[t] \in Before /\ Atomic!Done(t)
    BY <1>2, <1>6, TakesEffect, LeaveBefore DEF join, Tests
  <2>2. Atomic!In(t, "join") /\ unfinished_tasks = 0
    BY <1>6, <2>1, PendingIs DEF join, Tests, MustWait, Atomic!In
  <2>3. Atomic!Join(t)
    BY <1>6, <2>1, <2>2 DEF join, data, Atomic!Join, Atomic!data
  <2> QED BY <1>6, <2>3 DEF join
<1>7. ASSUME NEW t \in Thread, Refuse(t) PROVE Atomic!QueueNext
  <2>1. pc[t] \in Before /\ Atomic!Done(t)
    BY <1>2, <1>7, TakesEffect, LeaveBefore DEF Refuse, Tests
  <2>2. Pending[t] = call[t] /\ call[t] # Idle
    BY <2>1, PendingIs
  <2>3. t \in late => call[t].mode = "timed"
    BY DEF CallsTyped
  <2>4. \/ Atomic!In(t, "put") /\ Atomic!Full /\ Pending[t].mode # "block"
        \/ Atomic!In(t, "get") /\ queue = <<>> /\ Pending[t].mode # "block"
        \/ Atomic!In(t, "task_done") /\ unfinished_tasks = 0
    BY <1>7, <2>2, <2>3 DEF Refuse, Tests, MustWait, Full, Atomic!In, Atomic!Full
  <2>5. Atomic!Refused(t)
    BY <1>7, <2>1, <2>4 DEF Refuse, data, Atomic!Refused, Atomic!data
  <2> QED BY <1>7, <2>5 DEF Refuse
<1>8. ASSUME NEW t \in Thread, Interrupt(t) PROVE Atomic!QueueNext
  <2>1. pc[t] \in Before /\ pc'[t] \notin Before
    BY <1>8 DEF Interrupt, Go, Before, CallsTyped
  <2>2. Atomic!Done(t)
    BY <1>8, <2>1, TakesEffect DEF Interrupt, Go, CallsTyped
  <2>3. Pending[t] = call[t] /\ call[t] \in Calls[t] /\ call[t] # Idle
    BY <2>1, PendingIs
  <2>4. Atomic!In(t, "put") \/ Atomic!In(t, "get")
    BY <1>8, <2>3, CallsAre DEF Interrupt, Atomic!In
  <2>5. Atomic!Interrupted(t)
    BY <1>8, <2>2, <2>3, <2>4 DEF Interrupt, data, Atomic!Interrupted, Atomic!data
  <2> QED BY <2>5
<1>9. ASSUME NEW t \in Thread,
             wait(t) \/ Expire(t) \/ NotifyRelease(t) \/ GotIt(t) \/ TimedOut(t) \/ Forget(t)
      PROVE UNCHANGED Atomic!queueVars
  <2>1. UNCHANGED <<data, call, interrupted>>
    BY <1>9 DEF wait, Expire, NotifyRelease, GotIt, TimedOut, Forget, data
  <2>2. \A u \in Thread : pc'[u] \in Before <=> pc[u] \in Before
    BY <1>9 DEF wait, Tests, Expire, NotifyRelease, GotIt, TimedOut, Forget, Go, Before, CallsTyped
  <2> QED BY <2>1, <2>2, NoEffect
<1>10. ASSUME NEW t \in Thread, NotifyRemove(t) \/ Raise(t) PROVE UNCHANGED Atomic!queueVars
  <2>1. UNCHANGED <<queue, unfinished_tasks, interrupted>>
    BY <1>10 DEF NotifyRemove, Raise, data
  <2>2. Pending' = Pending
    BY <1>10 DEF NotifyRemove, Raise, Return, Pending, Go, Before, CallsTyped
  <2> QED BY <2>1, <2>2 DEF Atomic!queueVars, Atomic!data
<1>11. CASE UNCHANGED vars
  BY <1>11, NoEffect DEF vars, waiting, data
<1> QED
  BY <1>1, <1>3, <1>4, <1>5, <1>6, <1>7, <1>8, <1>9, <1>10, <1>11 DEF Next, Step

\* The methods of a Queue are atomic: LibQueue implements SharedQueue, with any number of threads,
\* timeouts, interrupted waits, and any maxsize.
THEOREM QueueIsShared == Spec => ImplementsQueue
<1>1. Init => Atomic!QueueInit
  BY DEF Init, Atomic!QueueInit, Pending, Before
<1> QED
  BY <1>1, CallsKept, StepQueue, PTL DEF Spec, ImplementsQueue, Atomic!QueueSpec
-----------------------------------------------------------------------------
(* The lists of waiters.                                                    *)

Waiter == Thread \cup {Nobody}
Has(s, x) == \E i \in 1..Len(s) : s[i] = x
\* A thread waits with one lock at a time; locks that were left may be many.
Once(s) == \A i, j \in 1..Len(s) : s[i] = s[j] /\ s[i] \in Thread => i = j

\* A set of indices has a first one.
LEMMA Least ==
  ASSUME NEW T \in SUBSET Nat, T # {}
  PROVE  \E k \in T : \A l \in T : k <= l
<1> DEFINE R == OpToRel(<, Nat)
<1>1. IsWellFoundedOn(R, Nat)
  BY NatLessThanWellFounded
<1>2. \A k, l \in Nat : <<k, l>> \in R <=> k < l
  BY DEF OpToRel
<1> HIDE DEF R
<1>3. PICK k \in T : \A l \in T : <<l, k>> \notin R
  BY <1>1, WFMin
<1>4. \A l \in T : ~(l < k)
  BY <1>2, <1>3
<1> QED
  BY <1>4

\* list.remove() takes one element out and keeps the order of the others.
LEMMA WithoutIs ==
  ASSUME NEW s \in Seq(Waiter), NEW x, Has(s, x)
  PROVE  \E i \in 1..Len(s) :
           /\ s[i] = x
           /\ Without(s, x) \in Seq(Waiter) /\ Len(Without(s, x)) = Len(s) - 1
           /\ \A k \in 1..(Len(s) - 1) : Without(s, x)[k] = IF k < i THEN s[k] ELSE s[k + 1]
<1> DEFINE At == {k \in 1..Len(s) : s[k] = x}
           i == CHOOSE k \in At : \A l \in At : k <= l
           front == SubSeq(s, 1, i - 1)
           back == SubSeq(s, i + 1, Len(s))
<1>1. Len(s) \in Nat /\ \A k \in 1..Len(s) : s[k] \in Waiter
  BY LenProperties
<1>2. At \in SUBSET Nat /\ At # {}
  BY <1>1 DEF Has
<1>3. \E k \in At : \A l \in At : k <= l
  <2> HIDE DEF At
  <2> QED BY <1>2, Least
<1>4. i \in At
  <2> HIDE DEF At
  <2> QED BY <1>3
<1>5. i \in 1..Len(s) /\ s[i] = x
  BY <1>4
<1> HIDE DEF i
<1>6. /\ front \in Seq(Waiter) /\ Len(front) = i - 1
      /\ \A k \in 1..(i - 1) : front[k] = s[k]
  <2>1. 1 \in Int /\ i - 1 \in Int /\ \A k \in 1..(i - 1) : s[k] \in Waiter
    BY <1>1, <1>5
  <2>2. /\ front \in Seq(Waiter) /\ Len(front) = IF 1 <= i - 1 THEN (i - 1) - 1 + 1 ELSE 0
        /\ \A k \in 1..((i - 1) - 1 + 1) : front[k] = s[1 + k - 1]
    BY <2>1, SubSeqProperties
  <2> HIDE DEF front
  <2> QED BY <2>2, <1>5
<1>7. /\ back \in Seq(Waiter) /\ Len(back) = Len(s) - i
      /\ \A k \in 1..(Len(s) - i) : back[k] = s[i + k]
  <2>1. i + 1 \in Int /\ Len(s) \in Int /\ \A k \in (i + 1)..Len(s) : s[k] \in Waiter
    BY <1>1, <1>5
  <2>2. /\ back \in Seq(Waiter)
        /\ Len(back) = IF i + 1 <= Len(s) THEN Len(s) - (i + 1) + 1 ELSE 0
        /\ \A k \in 1..(Len(s) - (i + 1) + 1) : back[k] = s[(i + 1) + k - 1]
    BY <2>1, SubSeqProperties
  <2> HIDE DEF back
  <2>3. \A k \in 1..(Len(s) - i) : (i + 1) + k - 1 = i + k /\ k \in 1..(Len(s) - (i + 1) + 1)
    BY <1>1, <1>5
  <2> QED BY <2>2, <2>3, <1>1, <1>5
<1>8. Without(s, x) = front \o back
  BY <1>2 DEF Without, i
<1> HIDE DEF front, back, At
<1>9. /\ front \o back \in Seq(Waiter) /\ Len(front \o back) = Len(front) + Len(back)
      /\ \A k \in 1..(Len(front) + Len(back)) :
           (front \o back)[k] = IF k <= Len(front) THEN front[k] ELSE back[k - Len(front)]
  BY <1>6, <1>7, ConcatProperties
<1> DEFINE w == front \o back
<1>10. w \in Seq(Waiter) /\ Len(w) = Len(s) - 1
  BY <1>1, <1>5, <1>6, <1>7, <1>9
<1>11. ASSUME NEW k \in 1..(Len(s) - 1) PROVE w[k] = IF k < i THEN s[k] ELSE s[k + 1]
  <2>1. w[k] = IF k <= i - 1 THEN front[k] ELSE back[k - (i - 1)]
    BY <1>1, <1>5, <1>6, <1>7, <1>9
  <2>2. CASE k < i
    BY <2>1, <2>2, <1>5, <1>6
  <2>3. CASE ~(k < i)
    <3>1. k - (i - 1) \in 1..(Len(s) - i) /\ i + (k - (i - 1)) = k + 1 /\ ~(k <= i - 1)
      BY <2>3, <1>1, <1>5
    <3> QED BY <2>1, <2>3, <3>1, <1>7
  <2> QED BY <2>2, <2>3
<1> QED
  BY <1>5, <1>8, <1>10, <1>11

\* What that does to the waiters: the others stay, and a thread that is taken out is out.
LEMMA WithoutKeeps ==
  ASSUME NEW s \in Seq(Waiter), NEW x
  PROVE  /\ Without(s, x) \in Seq(Waiter)
         /\ \A y : Has(Without(s, x), y) => Has(s, y)
         /\ \A y : y # x /\ Has(s, y) => Has(Without(s, x), y)
         /\ Once(s) => Once(Without(s, x))
         /\ Once(s) /\ x \in Thread => ~Has(Without(s, x), x)
<1>0. Len(s) \in Nat /\ \A k \in 1..Len(s) : s[k] \in Waiter
  BY LenProperties
<1>1. CASE ~Has(s, x)
  <2>1. {i \in 1..Len(s) : s[i] = x} = {}
    BY <1>1 DEF Has
  <2>2. Without(s, x) = s
    BY <2>1 DEF Without
  <2> QED BY <1>1, <2>2
<1>2. CASE Has(s, x)
  <2> DEFINE w == Without(s, x)
  <2>1. PICK i \in 1..Len(s) :
           /\ s[i] = x
           /\ w \in Seq(Waiter) /\ Len(w) = Len(s) - 1
           /\ \A k \in 1..(Len(s) - 1) : w[k] = IF k < i THEN s[k] ELSE s[k + 1]
    BY <1>2, WithoutIs
  <2> HIDE DEF w
  <2>2. ASSUME NEW y, Has(w, y) PROVE Has(s, y)
    BY <1>0, <2>1, <2>2 DEF Has
  <2>3. ASSUME NEW y, y # x, Has(s, y) PROVE Has(w, y)
    <3>1. PICK l \in 1..Len(s) : s[l] = y
      BY <2>3 DEF Has
    <3>2. CASE l < i
      <4>1. l \in 1..(Len(s) - 1) /\ w[l] = y
        BY <1>0, <2>1, <3>1, <3>2
      <4> QED BY <4>1, <2>1 DEF Has
    <3>3. CASE ~(l < i)
      <4>1. l - 1 \in 1..(Len(s) - 1) /\ ~(l - 1 < i) /\ (l - 1) + 1 = l
        BY <1>0, <2>1, <2>3, <3>1, <3>3
      <4>2. w[l - 1] = y
        BY <2>1, <3>1, <4>1
      <4> QED BY <4>1, <4>2, <2>1 DEF Has
    <3> QED BY <3>2, <3>3
  <2>4. ASSUME Once(s) PROVE Once(w)
    <3> SUFFICES ASSUME NEW k \in 1..Len(w), NEW l \in 1..Len(w), w[k] = w[l], w[k] \in Thread
                 PROVE  k = l
      BY DEF Once
    <3> DEFINE From(m) == IF m < i THEN m ELSE m + 1
    <3>1. From(k) \in 1..Len(s) /\ From(l) \in 1..Len(s) /\ w[k] = s[From(k)] /\ w[l] = s[From(l)]
      BY <1>0, <2>1
    <3>2. From(k) = From(l)
      BY <2>4, <3>1 DEF Once
    <3> QED BY <3>2, <1>0, <2>1
  <2>5. ASSUME Once(s), x \in Thread PROVE ~Has(w, x)
    <3> SUFFICES ASSUME NEW k \in 1..Len(w), w[k] = x PROVE FALSE
      BY DEF Has
    <3>1. CASE k < i
      BY <1>0, <2>1, <2>5, <3>1 DEF Once
    <3>2. CASE ~(k < i)
      BY <1>0, <2>1, <2>5, <3>2 DEF Once
    <3> QED BY <3>1, <3>2
  <2> QED BY <2>1, <2>2, <2>3, <2>4, <2>5 DEF w
<1> QED BY <1>1, <1>2

\* A waiter that leaves its lock behind is no longer in the list; the other threads are.
LEMMA AbandonedIs ==
  ASSUME NEW s \in Seq(Waiter), NEW t \in Thread
  PROVE  /\ Abandoned(s, t) \in Seq(Waiter) /\ Len(Abandoned(s, t)) = Len(s)
         /\ \A i \in 1..Len(s) : Abandoned(s, t)[i] = IF s[i] = t THEN Nobody ELSE s[i]
<1>1. Len(s) \in Nat /\ \A k \in 1..Len(s) : s[k] \in Waiter
  BY LenProperties
<1>2. \A k \in 1..Len(s) : (IF s[k] = t THEN Nobody ELSE s[k]) \in Waiter
  BY <1>1 DEF Waiter
<1> QED
  BY <1>1, <1>2 DEF Abandoned

LEMMA AbandonedKeeps ==
  ASSUME NEW s \in Seq(Waiter), NEW t \in Thread
  PROVE  /\ \A y \in Thread : Has(Abandoned(s, t), y) <=> y # t /\ Has(s, y)
         /\ Once(s) => Once(Abandoned(s, t))
<1>1. Nobody \notin Thread /\ Len(s) \in Nat
  BY LibQueueAssumption, LenProperties
<1> QED
  BY <1>1, AbandonedIs, SMTT(30) DEF Has, Once
-----------------------------------------------------------------------------
(* Conditions know their waiters.                                           *)

Notifier(n) == pc[n] \in {"notify", "remove"}
WaitersTyped ==
  /\ waiters \in [Condition -> Seq(Waiter)] /\ notifying \in Seq(Waiter)
  /\ \A n \in Thread : Notifier(n) => mutex = n /\ notifying # <<>>

\* The waiter whose lock is released is still in the list.
Served(c, t) == \E n \in Thread : pc[n] = "remove" /\ Notified(n) = c /\ Head(notifying) = t
GivesUp(c, t) == pc[t] = "forget" /\ ConditionOf(t) = c
ListsExact ==
  \A c \in Condition :
    /\ Once(waiters[c])
    /\ \A t \in Sleeping(c) : Has(waiters[c], t)
    /\ \A t \in Thread : Has(waiters[c], t) => t \in Sleeping(c) \/ GivesUp(c, t) \/ Served(c, t)

\* notify() serves waiters of its own condition, and takes each out of the list only when it has
\* released its lock.
ServesOwn ==
  \A n \in Thread :
    /\ Notifier(n) => \A t \in Thread :
         Has(notifying, t) /\ pc[t] = "sleep" => ConditionOf(t) = Notified(n)
    /\ pc[n] = "remove" => \A t \in Thread :
         Head(notifying) = t /\ pc[t] = "sleep" => t \in released
NobodyLeft == ~interrupted => \A c \in Condition : ~Has(waiters[c], Nobody)
WaitInv == CallsTyped /\ WaitersTyped /\ ListsExact /\ ServesOwn /\ NobodyLeft

LEMMA ConditionsAre ==
  /\ \A t \in Thread : ConditionOf(t) \in Condition /\ Notified(t) \in Condition
  /\ {"not_empty", "not_full", "all_tasks_done"} = Condition
  BY DEF ConditionOf, Notified, Condition

LEMMA HeadOf ==
  ASSUME NEW s \in Seq(Waiter), s # <<>>
  PROVE  /\ Head(s) \in Waiter /\ Has(s, Head(s))
         /\ Tail(s) \in Seq(Waiter) /\ \A x : Has(Tail(s), x) => Has(s, x)
         /\ Tail(s) = <<>> <=> Len(s) = 1
<1>1. Len(s) \in Nat /\ Len(s) > 0 /\ Head(s) = s[1]
  BY EmptySeq
<1>2. /\ Head(s) \in Waiter /\ Tail(s) \in Seq(Waiter) /\ Len(Tail(s)) = Len(s) - 1
      /\ \A i \in 1..Len(Tail(s)) : Tail(s)[i] = s[i + 1]
  BY HeadTailProperties
<1>3. Tail(s) = <<>> <=> Len(Tail(s)) = 0
  BY <1>2, EmptySeq
<1>4. ASSUME NEW x, Has(Tail(s), x) PROVE Has(s, x)
  <2>1. PICK i \in 1..Len(Tail(s)) : Tail(s)[i] = x
    BY <1>4 DEF Has
  <2>2. i + 1 \in 1..Len(s) /\ s[i + 1] = x
    BY <1>1, <1>2, <2>1
  <2> QED BY <2>2 DEF Has
<1>5. Has(s, Head(s))
  BY <1>1 DEF Has
<1> QED
  BY <1>1, <1>2, <1>3, <1>4, <1>5

LEMMA InitWaiting == Init => WaitInv
<1> SUFFICES ASSUME Init PROVE WaitInv
  OBVIOUS
<1>1. <<>> \in Seq(Waiter) /\ Once(<<>>) /\ \A x : ~Has(<<>>, x)
  BY DEF Has, Once
<1>2. WaitersTyped
  BY <1>1 DEF Init, WaitersTyped, Notifier
<1>3. ListsExact
  BY <1>1 DEF Init, ListsExact, Sleeping
<1>4. ServesOwn /\ NobodyLeft
  BY <1>1 DEF Init, ServesOwn, NobodyLeft, Notifier
<1> QED
  BY <1>2, <1>3, <1>4, InitCalls DEF WaitInv

\* With the mutex free nobody notifies.
LEMMA FreeMutex ==
  ASSUME WaitInv, mutex = Nobody
  PROVE  \A n \in Thread : ~Notifier(n) /\ pc[n] # "remove"
  BY LibQueueAssumption DEF WaitInv, WaitersTyped, Notifier

\* A thread comes or goes without a change of the lists, the released locks or what is notified.
LEMMA Quiet ==
  ASSUME WaitInv, CallsTyped', NEW t \in Thread,
         pc[t] \notin {"sleep", "notify", "remove"} \/ pc'[t] = pc[t],
         pc'[t] \notin {"sleep", "forget", "notify", "remove"} \/ pc'[t] = pc[t],
         pc[t] = "forget" => pc'[t] = "forget",
         pc[t] \in {"sleep", "forget", "notify", "remove"} => call'[t] = call[t],
         \A u \in Thread \ {t} : pc'[u] = pc[u] /\ call'[u] = call[u],
         UNCHANGED <<mutex, waiters, released, notifying, interrupted>>
  PROVE  WaitInv'
<1>1. \A u \in Thread, l \in {"sleep", "forget", "notify", "remove"} : pc'[u] = l <=> pc[u] = l
  OBVIOUS
<1>2. \A u \in Thread : pc[u] \in {"sleep", "forget", "notify", "remove"} =>
        ConditionOf(u)' = ConditionOf(u) /\ Notified(u)' = Notified(u)
  BY DEF ConditionOf, Notified
<1>3. WaitersTyped'
  BY <1>1 DEF WaitInv, WaitersTyped, Notifier
<1>4. \A c \in Condition : Sleeping(c)' = Sleeping(c)
  BY <1>1, <1>2 DEF Sleeping
<1>5. \A c \in Condition, u \in Thread :
        (GivesUp(c, u) => GivesUp(c, u)') /\ (Served(c, u) => Served(c, u)')
  BY <1>1, <1>2 DEF GivesUp, Served
<1>6. ListsExact'
  BY <1>4, <1>5 DEF WaitInv, ListsExact
<1>7. ServesOwn'
  BY <1>1, <1>2 DEF WaitInv, ServesOwn, Notifier
<1>8. NobodyLeft'
  BY DEF WaitInv, NobodyLeft
<1> QED
  BY <1>3, <1>6, <1>7, <1>8 DEF WaitInv

LEMMA SleepsFromNow == ASSUME WaitInv, CallsTyped', NEW t \in Thread, wait(t) PROVE WaitInv'
<1> DEFINE c == ConditionOf(t)
<1>1. pc[t] = "acquire" /\ mutex = Nobody /\ c \in Condition
  BY ConditionsAre DEF wait, Tests
<1>2. /\ waiters' = [waiters EXCEPT ![c] = Append(@, t)] /\ released' = released \ {t}
      /\ pc' = [pc EXCEPT ![t] = "sleep"]
      /\ UNCHANGED <<mutex, notifying, call, interrupted>>
  BY DEF wait, Go
<1>3. \A n \in Thread : ~Notifier(n) /\ pc[n] # "remove"
  BY <1>1, FreeMutex
<1>4. \A n \in Thread : ~Notifier(n)' /\ pc'[n] # "remove"
  BY <1>2, <1>3 DEF Notifier, WaitInv, CallsTyped
<1>5. /\ \A u \in Thread : ConditionOf(u)' = ConditionOf(u)
      /\ \A u \in Thread \ {t} : pc'[u] = pc[u] /\ (u \in released' <=> u \in released)
      /\ pc'[t] = "sleep" /\ t \notin released'
  BY <1>2 DEF ConditionOf, WaitInv, CallsTyped
<1>6. waiters[c] \in Seq(Waiter) /\ t \in Waiter
  BY <1>1 DEF WaitInv, WaitersTyped, Waiter
<1> DEFINE w == Append(waiters[c], t)
<1>7. w \in Seq(Waiter) /\ \A x : Has(w, x) <=> x = t \/ Has(waiters[c], x)
  BY <1>6, AppendProperties, LenProperties DEF Has
<1>8. \A d \in Condition : ~Has(waiters[d], t)
  BY <1>1, <1>3 DEF WaitInv, ListsExact, Sleeping, GivesUp, Served
<1>9. Once(w)
  <2>1. Once(waiters[c]) /\ ~Has(waiters[c], t)
    BY <1>1, <1>8 DEF WaitInv, ListsExact
  <2>2. /\ Len(w) = Len(waiters[c]) + 1 /\ Len(waiters[c]) \in Nat
        /\ \A i \in 1..Len(waiters[c]) : w[i] = waiters[c][i]
        /\ w[Len(waiters[c]) + 1] = t
    BY <1>6, AppendProperties, LenProperties
  <2> HIDE DEF c, w
  <2> QED BY <2>1, <2>2 DEF Once, Has
<1>10. waiters'[c] = w /\ \A d \in Condition \ {c} : waiters'[d] = waiters[d]
  BY <1>1, <1>2 DEF WaitInv, WaitersTyped
<1>11. WaitersTyped'
  BY <1>2, <1>4, <1>7 DEF WaitInv, WaitersTyped
<1>12. \A d \in Condition : Sleeping(d)' = IF d = c THEN Sleeping(d) \cup {t} ELSE Sleeping(d)
  BY <1>1, <1>5 DEF Sleeping
<1>13. \A d \in Condition, u \in Thread : GivesUp(d, u) => GivesUp(d, u)'
  BY <1>1, <1>5 DEF GivesUp
<1> HIDE DEF c, w
<1>14. ListsExact'
  <2> SUFFICES ASSUME NEW d \in Condition
               PROVE  /\ Once(waiters'[d])
                      /\ \A u \in Sleeping(d)' : Has(waiters'[d], u)
                      /\ \A u \in Thread : Has(waiters'[d], u) =>
                           u \in Sleeping(d)' \/ GivesUp(d, u)' \/ Served(d, u)'
    BY DEF ListsExact
  <2>1. /\ Once(waiters[d]) /\ \A u \in Sleeping(d) : Has(waiters[d], u)
        /\ \A u \in Thread : Has(waiters[d], u) => u \in Sleeping(d) \/ GivesUp(d, u)
    BY <1>3 DEF WaitInv, ListsExact, Served
  <2>2. CASE d = c
    BY <2>1, <2>2, <1>7, <1>9, <1>10, <1>12, <1>13
  <2>3. CASE d # c
    BY <2>1, <2>3, <1>10, <1>12, <1>13
  <2> QED BY <2>2, <2>3
<1>15. ServesOwn'
  BY <1>4 DEF ServesOwn
<1>16. NobodyLeft'
  BY <1>2, <1>7, <1>10, LibQueueAssumption DEF WaitInv, NobodyLeft
<1> QED
  BY <1>11, <1>14, <1>15, <1>16 DEF WaitInv

LEMMA Wakes == ASSUME WaitInv, CallsTyped', NEW t \in Thread, GotIt(t) \/ TimedOut(t) PROVE WaitInv'
<1>1. /\ pc[t] = "sleep" /\ UNCHANGED <<mutex, waiters, notifying, call, interrupted>>
      /\ \A u \in Thread \ {t} : pc'[u] = pc[u] /\ (u \in released' <=> u \in released)
      /\ \/ t \in released /\ pc'[t] = "acquire"
         \/ t \notin released /\ pc'[t] = "forget"
  BY DEF GotIt, TimedOut, Go, WaitInv, CallsTyped, waiting
<1>2. \A u \in Thread : ConditionOf(u)' = ConditionOf(u) /\ Notified(u)' = Notified(u)
  BY <1>1 DEF ConditionOf, Notified
<1>3. \A n \in Thread : (Notifier(n)' <=> Notifier(n)) /\ (pc'[n] = "remove" <=> pc[n] = "remove")
  BY <1>1 DEF Notifier
<1>4. WaitersTyped'
  BY <1>1, <1>3 DEF WaitInv, WaitersTyped
<1>5. \A d \in Condition : Sleeping(d)' = Sleeping(d) \ {t}
  BY <1>1, <1>2 DEF Sleeping
<1>6. \A d \in Condition, u \in Thread : Served(d, u) => Served(d, u)'
  BY <1>1, <1>2, <1>3 DEF Served
<1>7. \A d \in Condition, u \in Thread :
        u \in Sleeping(d) \/ GivesUp(d, u) => u \in Sleeping(d)' \/ GivesUp(d, u)'
  BY <1>1, <1>2, <1>5 DEF GivesUp, Sleeping
<1>8. ListsExact'
  BY <1>1, <1>5, <1>6, <1>7 DEF WaitInv, ListsExact
<1>9. ServesOwn'
  BY <1>1, <1>2, <1>3 DEF WaitInv, ServesOwn
<1>10. NobodyLeft'
  BY <1>1 DEF WaitInv, NobodyLeft
<1> QED
  BY <1>4, <1>8, <1>9, <1>10 DEF WaitInv

LEMMA Forgets == ASSUME WaitInv, CallsTyped', NEW t \in Thread, Forget(t) PROVE WaitInv'
<1> DEFINE c == ConditionOf(t)
           w == Without(waiters[c], t)
<1>1. /\ pc[t] = "forget" /\ UNCHANGED <<mutex, released, notifying, call, interrupted>>
      /\ \A u \in Thread \ {t} : pc'[u] = pc[u]
      /\ pc'[t] = "acquire" /\ c \in Condition
  BY ConditionsAre DEF Forget, Go, WaitInv, CallsTyped
<1>2. \A u \in Thread : ConditionOf(u)' = ConditionOf(u) /\ Notified(u)' = Notified(u)
  BY <1>1 DEF ConditionOf, Notified
<1>3. \A n \in Thread : (Notifier(n)' <=> Notifier(n)) /\ (pc'[n] = "remove" <=> pc[n] = "remove")
  BY <1>1 DEF Notifier
<1>4. /\ waiters' = [waiters EXCEPT ![c] = w] /\ waiters[c] \in Seq(Waiter)
      /\ waiters'[c] = w /\ \A d \in Condition \ {c} : waiters'[d] = waiters[d]
  BY <1>1 DEF Forget, WaitInv, WaitersTyped
<1>5. Once(waiters[c])
  BY <1>1 DEF WaitInv, ListsExact
<1>6. /\ w \in Seq(Waiter) /\ Once(w) /\ ~Has(w, t)
      /\ \A y : y # t => (Has(w, y) <=> Has(waiters[c], y))
  BY <1>4, <1>5, WithoutKeeps
<1> HIDE DEF w
<1>7. WaitersTyped'
  BY <1>1, <1>3, <1>4, <1>6 DEF WaitInv, WaitersTyped
<1>8. \A d \in Condition : Sleeping(d)' = Sleeping(d) /\ t \notin Sleeping(d)
  BY <1>1, <1>2 DEF Sleeping
<1>9. \A d \in Condition, u \in Thread :
        /\ Served(d, u) => Served(d, u)'
        /\ GivesUp(d, u) /\ (u # t \/ d # c) => GivesUp(d, u)'
  BY <1>1, <1>2, <1>3 DEF Served, GivesUp
<1> HIDE DEF c
<1>10. ListsExact'
  <2> SUFFICES ASSUME NEW d \in Condition
               PROVE  /\ Once(waiters'[d])
                      /\ \A u \in Sleeping(d)' : Has(waiters'[d], u)
                      /\ \A u \in Thread : Has(waiters'[d], u) =>
                           u \in Sleeping(d)' \/ GivesUp(d, u)' \/ Served(d, u)'
    BY DEF ListsExact
  <2>1. /\ Once(waiters[d]) /\ \A u \in Sleeping(d) : Has(waiters[d], u)
        /\ \A u \in Thread : Has(waiters[d], u) =>
             u \in Sleeping(d) \/ GivesUp(d, u) \/ Served(d, u)
    BY DEF WaitInv, ListsExact
  <2>2. CASE d = c
    BY <2>1, <2>2, <1>4, <1>6, <1>8, <1>9
  <2>3. CASE d # c
    BY <2>1, <2>3, <1>4, <1>8, <1>9
  <2> QED BY <2>2, <2>3
<1>11. ServesOwn'
  BY <1>1, <1>2, <1>3 DEF WaitInv, ServesOwn
<1>12. NobodyLeft'
  BY <1>1, <1>4, <1>6, LibQueueAssumption DEF WaitInv, NobodyLeft
<1> QED
  BY <1>7, <1>10, <1>11, <1>12 DEF WaitInv

\* Only the thread's lock is renamed, wherever it is.
LEMMA RaisesInWait == ASSUME WaitInv, CallsTyped', NEW t \in Thread, Interrupt(t) PROVE WaitInv'
<1>1. /\ pc[t] = "sleep" /\ UNCHANGED <<mutex, call>> /\ interrupted'
      /\ \A u \in Thread \ {t} : pc'[u] = pc[u] /\ (u \in released' <=> u \in released)
      /\ pc'[t] = "raise"
      /\ waiters' = [c \in Condition |-> Abandoned(waiters[c], t)]
      /\ notifying' = Abandoned(notifying, t)
  BY DEF Interrupt, Go, WaitInv, CallsTyped
<1>2. \A u \in Thread : ConditionOf(u)' = ConditionOf(u) /\ Notified(u)' = Notified(u)
  BY <1>1 DEF ConditionOf, Notified
<1>3. \A n \in Thread : (Notifier(n)' <=> Notifier(n)) /\ (pc'[n] = "remove" <=> pc[n] = "remove")
  BY <1>1 DEF Notifier
<1>4. /\ notifying \in Seq(Waiter) /\ \A c \in Condition : waiters[c] \in Seq(Waiter)
      /\ \A n \in Thread : Notifier(n) => mutex = n /\ notifying # <<>>
  BY DEF WaitInv, WaitersTyped
<1>5. \A c \in Condition :
        /\ waiters'[c] = Abandoned(waiters[c], t) /\ waiters'[c] \in Seq(Waiter)
        /\ \A u \in Thread : Has(waiters'[c], u) <=> u # t /\ Has(waiters[c], u)
        /\ Once(waiters[c]) => Once(waiters'[c])
  BY <1>1, <1>4, AbandonedIs, AbandonedKeeps
<1>6. /\ notifying' \in Seq(Waiter) /\ Len(notifying') = Len(notifying)
      /\ \A i \in 1..Len(notifying) :
           notifying'[i] = IF notifying[i] = t THEN Nobody ELSE notifying[i]
      /\ \A u \in Thread : Has(notifying', u) <=> u # t /\ Has(notifying, u)
  BY <1>1, <1>4, AbandonedIs, AbandonedKeeps
<1>7. notifying # <<>> => /\ notifying' # <<>>
                          /\ \A u \in Thread : Head(notifying') = u <=> u # t /\ Head(notifying) = u
  <2> SUFFICES ASSUME notifying # <<>>
               PROVE  /\ notifying' # <<>>
                      /\ \A u \in Thread : Head(notifying') = u <=> u # t /\ Head(notifying) = u
    OBVIOUS
  <2>1. Len(notifying) \in Nat /\ Len(notifying) > 0 /\ notifying' # <<>>
    BY <1>4, <1>6, EmptySeq
  <2>2. Head(notifying) = notifying[1] /\ Head(notifying') = notifying'[1]
    BY <1>4, <1>6, <2>1
  <2> QED BY <1>6, <2>1, <2>2, LibQueueAssumption
<1>8. WaitersTyped'
  <2>1. waiters' \in [Condition -> Seq(Waiter)]
    BY <1>1, <1>5
  <2> QED BY <1>1, <1>3, <1>4, <1>6, <1>7, <2>1 DEF WaitersTyped
<1>9. \A d \in Condition : Sleeping(d)' = Sleeping(d) \ {t}
  BY <1>1, <1>2 DEF Sleeping
<1>10. \A d \in Condition, u \in Thread \ {t} :
         /\ GivesUp(d, u) => GivesUp(d, u)'
         /\ Served(d, u) => Served(d, u)'
  BY <1>1, <1>2, <1>3, <1>4, <1>7 DEF GivesUp, Served, Notifier
<1>11. ListsExact'
  <2> SUFFICES ASSUME NEW d \in Condition
               PROVE  /\ Once(waiters'[d])
                      /\ \A u \in Sleeping(d)' : Has(waiters'[d], u)
                      /\ \A u \in Thread : Has(waiters'[d], u) =>
                           u \in Sleeping(d)' \/ GivesUp(d, u)' \/ Served(d, u)'
    BY DEF ListsExact
  <2>1. /\ Once(waiters[d]) /\ \A u \in Sleeping(d) : Has(waiters[d], u)
        /\ \A u \in Thread : Has(waiters[d], u) =>
             u \in Sleeping(d) \/ GivesUp(d, u) \/ Served(d, u)
    BY DEF WaitInv, ListsExact
  <2>2. \A u \in Sleeping(d)' : u \in Thread /\ u # t /\ u \in Sleeping(d)
    BY <1>9 DEF Sleeping
  <2>3. ASSUME NEW u \in Thread, Has(waiters'[d], u)
        PROVE  u \in Sleeping(d)' \/ GivesUp(d, u)' \/ Served(d, u)'
    <3>1. u # t /\ Has(waiters[d], u)
      BY <1>5, <2>3
    <3> QED BY <1>9, <1>10, <2>1, <3>1
  <2> QED BY <1>5, <2>1, <2>2, <2>3
<1>12. ServesOwn'
  BY <1>1, <1>2, <1>3, <1>4, <1>6, <1>7 DEF WaitInv, ServesOwn, Notifier
<1>13. NobodyLeft'
  BY <1>1 DEF NobodyLeft
<1> QED
  BY <1>8, <1>11, <1>12, <1>13 DEF WaitInv

\* A method that takes effect begins to notify waiters of its condition, or ends.
LEMMA BeginsToNotify ==
  ASSUME WaitInv, CallsTyped', NEW t \in Thread, NEW slice \in Seq(Waiter), Notify(t, slice),
         pc[t] = "acquire", mutex = Nobody,
         \A x : Has(slice, x) => Has(waiters[Notified(t)], x),
         UNCHANGED <<waiters, released, interrupted>>
  PROVE  WaitInv'
<1>0. \A n \in Thread : ~Notifier(n) /\ pc[n] # "remove"
  BY FreeMutex
<1>1. /\ notifying' = slice /\ \A u \in Thread \ {t} : pc'[u] = pc[u] /\ call'[u] = call[u]
      /\ \/ slice = <<>> /\ pc'[t] = "out"
         \/ slice # <<>> /\ pc'[t] = "notify" /\ call'[t] = call[t] /\ mutex' = t
  BY DEF Notify, Return, Go, WaitInv, CallsTyped
<1>2. \A u \in Thread \ {t} : ConditionOf(u)' = ConditionOf(u)
  BY <1>1 DEF ConditionOf
<1>3. \A n \in Thread : Notifier(n)' => n = t /\ slice # <<>> /\ mutex' = t /\ pc'[n] = "notify"
                                        /\ Notified(n)' = Notified(n)
  BY <1>0, <1>1 DEF Notifier, Notified
<1>4. WaitersTyped'
  BY <1>1, <1>3 DEF WaitInv, WaitersTyped
<1>5. \A d \in Condition : Sleeping(d)' = Sleeping(d)
  BY <1>1, <1>2 DEF Sleeping
<1>6. \A d \in Condition, u \in Thread : ~Served(d, u) /\ (GivesUp(d, u) => GivesUp(d, u)')
  BY <1>0, <1>1, <1>2 DEF GivesUp, Served
<1>7. ListsExact'
  BY <1>5, <1>6 DEF WaitInv, ListsExact
<1>8. ServesOwn'
  <2>1. ASSUME NEW n \in Thread, Notifier(n)', NEW u \in Thread, Has(slice, u), pc'[u] = "sleep"
        PROVE  ConditionOf(u)' = Notified(n)'
    <3>1. n = t /\ u # t /\ pc[u] = "sleep" /\ Has(waiters[Notified(t)], u)
      BY <1>1, <1>3, <2>1
    <3>2. u \in Sleeping(Notified(t))
      BY <1>6, <3>1, ConditionsAre DEF WaitInv, ListsExact, GivesUp
    <3> QED BY <1>2, <1>3, <2>1, <3>1, <3>2 DEF Sleeping
  <2>2. \A n \in Thread : pc'[n] # "remove"
    BY <1>3 DEF Notifier
  <2> QED BY <1>1, <2>1, <2>2 DEF ServesOwn
<1>9. NobodyLeft'
  BY DEF WaitInv, NobodyLeft
<1> QED
  BY <1>4, <1>7, <1>8, <1>9 DEF WaitInv

LEMMA Methods ==
  ASSUME WaitInv, CallsTyped', NEW t \in Thread, put(t) \/ get(t) \/ task_done(t)
  PROVE  WaitInv'
<1>1. \A c \in Condition : waiters[c] \in Seq(Waiter)
  BY DEF WaitInv, WaitersTyped
<1>2. ASSUME NEW s \in Seq(Waiter) PROVE First(s) \in Seq(Waiter) /\ \A x : Has(First(s), x) => Has(s, x)
  <2>1. CASE s = <<>>
    BY <2>1 DEF First
  <2>2. CASE s # <<>>
    <3>1. First(s) = <<Head(s)>> /\ Head(s) \in Waiter /\ Has(s, Head(s))
      BY <2>2, HeadOf DEF First
    <3>2. <<Head(s)>> \in Seq(Waiter) /\ \A x : Has(<<Head(s)>>, x) => x = Head(s)
      BY <3>1 DEF Has
    <3> QED BY <3>1, <3>2
  <2> QED BY <2>1, <2>2
<1>3. <<>> \in Seq(Waiter) /\ \A x : ~Has(<<>>, x)
  BY DEF Has
<1>4. PICK slice \in Seq(Waiter) :
        Notify(t, slice) /\ \A x : Has(slice, x) => Has(waiters[Notified(t)], x)
  <2>1. CASE put(t)
    <3>1. Notified(t) = "not_empty" /\ Notify(t, First(waiters["not_empty"]))
      BY <2>1 DEF put, Tests, Notified
    <3> QED BY <3>1, <1>1, <1>2, ConditionsAre
  <2>2. CASE get(t)
    <3>1. Notified(t) = "not_full" /\ Notify(t, First(waiters["not_full"]))
      BY <2>2 DEF get, Tests, Notified
    <3> QED BY <3>1, <1>1, <1>2, ConditionsAre
  <2>3. CASE task_done(t)
    <3>1. Notified(t) = "all_tasks_done"
          /\ Notify(t, IF unfinished_tasks = 1 THEN waiters["all_tasks_done"] ELSE <<>>)
      BY <2>3 DEF task_done, Tests, Notified
    <3> QED BY <3>1, <1>1, <1>3, ConditionsAre
  <2> QED BY <2>1, <2>2, <2>3
<1>5. pc[t] = "acquire" /\ mutex = Nobody /\ UNCHANGED <<waiters, released, interrupted>>
  BY DEF put, get, task_done, Tests
<1> QED
  BY <1>4, <1>5, BeginsToNotify

LEMMA Releases == ASSUME WaitInv, CallsTyped', NEW n \in Thread, NotifyRelease(n) PROVE WaitInv'
<1> DEFINE h == Head(notifying)
<1>1. /\ pc[n] = "notify" /\ UNCHANGED <<mutex, waiters, notifying, call, interrupted>>
      /\ \A u \in Thread \ {n} : pc'[u] = pc[u]
      /\ pc'[n] = "remove"
      /\ \A u \in Thread : u \in released' <=> u \in released \/ u = h
  BY LibQueueAssumption DEF NotifyRelease, Go, WaitInv, CallsTyped
<1>2. \A u \in Thread : ConditionOf(u)' = ConditionOf(u) /\ Notified(u)' = Notified(u)
  BY <1>1 DEF ConditionOf, Notified
<1>3. \A u \in Thread : (Notifier(u)' <=> Notifier(u)) /\ (Notifier(u) => u = n)
  BY <1>1 DEF WaitInv, WaitersTyped, Notifier
<1>4. WaitersTyped'
  BY <1>1, <1>3 DEF WaitInv, WaitersTyped
<1>5. \A d \in Condition : Sleeping(d)' = Sleeping(d) \ {h}
  BY <1>1, <1>2 DEF Sleeping
<1>6. Has(notifying, h)
  BY <1>1, HeadOf DEF WaitInv, WaitersTyped, Notifier
<1>7. \A d \in Condition, u \in Thread :
        /\ GivesUp(d, u) => GivesUp(d, u)'
        /\ ~Served(d, u)
        /\ d = Notified(n) /\ u = h => Served(d, u)'
        /\ u \in Sleeping(d) => u \in Sleeping(d)' \/ (u = h /\ d = Notified(n))
  <2>1. ASSUME NEW d \in Condition, h \in Thread, h \in Sleeping(d) PROVE d = Notified(n)
    BY <1>1, <1>6, <2>1 DEF WaitInv, ServesOwn, Sleeping, Notifier
  <2>2. \A u \in Thread : pc[u] # "remove"
    BY <1>1, <1>3 DEF Notifier
  <2>3. \A d \in Condition, u \in Thread : d = Notified(n) /\ u = h => Served(d, u)'
    BY <1>1, <1>2 DEF Served
  <2>4. \A d \in Condition, u \in Thread : GivesUp(d, u) => GivesUp(d, u)'
    BY <1>1, <1>2 DEF GivesUp
  <2> QED BY <1>5, <2>1, <2>2, <2>3, <2>4 DEF Served
<1>8. ListsExact'
  BY <1>1, <1>5, <1>7 DEF WaitInv, ListsExact
<1>9. ServesOwn'
  BY <1>1, <1>2, <1>3 DEF WaitInv, ServesOwn, Notifier
<1>10. NobodyLeft'
  BY <1>1 DEF WaitInv, NobodyLeft
<1> QED
  BY <1>4, <1>8, <1>9, <1>10 DEF WaitInv

LEMMA Removes == ASSUME WaitInv, CallsTyped', NEW n \in Thread, NotifyRemove(n) PROVE WaitInv'
<1> DEFINE h == Head(notifying)
           c == Notified(n)
           w == Without(waiters[c], h)
<1>1. /\ pc[n] = "remove" /\ waiters' = [waiters EXCEPT ![c] = w] /\ notifying' = Tail(notifying)
      /\ UNCHANGED <<released, interrupted>>
      /\ \A u \in Thread \ {n} : pc'[u] = pc[u] /\ call'[u] = call[u]
      /\ \/ Len(notifying) = 1 /\ pc'[n] = "out"
         \/ Len(notifying) # 1 /\ pc'[n] = "notify" /\ call'[n] = call[n] /\ mutex' = mutex
  BY DEF NotifyRemove, Return, Go, WaitInv, CallsTyped
<1>2. /\ notifying \in Seq(Waiter) /\ notifying # <<>> /\ mutex = n
      /\ \A u \in Thread : Notifier(u) => u = n
  BY <1>1 DEF WaitInv, WaitersTyped, Notifier
<1>3. /\ h \in Waiter /\ Has(notifying, h) /\ Tail(notifying) \in Seq(Waiter)
      /\ \A x : Has(Tail(notifying), x) => Has(notifying, x)
      /\ Tail(notifying) = <<>> <=> Len(notifying) = 1
  BY <1>2, HeadOf
<1>4. \A u \in Thread \ {n} : ConditionOf(u)' = ConditionOf(u)
  BY <1>1 DEF ConditionOf
<1>5. /\ \A u \in Thread : Notifier(u)' => u = n /\ Notifier(u) /\ pc'[u] = "notify"
                                           /\ Notified(u)' = Notified(u) /\ mutex' = mutex
      /\ Notifier(n)' => Len(notifying) # 1
  BY <1>1, <1>2 DEF Notifier, Notified
<1>6. /\ c \in Condition /\ waiters[c] \in Seq(Waiter) /\ Once(waiters[c])
      /\ waiters'[c] = w /\ \A d \in Condition \ {c} : waiters'[d] = waiters[d]
  BY <1>1, ConditionsAre DEF WaitInv, WaitersTyped, ListsExact
<1>7. /\ w \in Seq(Waiter) /\ Once(w) /\ (h \in Thread => ~Has(w, h))
      /\ \A y : (Has(w, y) => Has(waiters[c], y)) /\ (y # h /\ Has(waiters[c], y) => Has(w, y))
  BY <1>6, WithoutKeeps
<1>8. WaitersTyped'
  <2>1. waiters' \in [Condition -> Seq(Waiter)]
    BY <1>1, <1>7 DEF WaitInv, WaitersTyped
  <2> HIDE DEF h, c, w
  <2> QED BY <1>1, <1>2, <1>3, <1>5, <2>1 DEF WaitersTyped
<1>9. /\ \A d \in Condition : Sleeping(d)' = Sleeping(d) /\ h \notin Sleeping(d)
      /\ \A d \in Condition, u \in Thread :
           /\ GivesUp(d, u) => GivesUp(d, u)'
           /\ Served(d, u) => d = c /\ u = h
  <2>1. \A d \in Condition : Sleeping(d)' = Sleeping(d)
    BY <1>1, <1>4 DEF Sleeping
  <2>2. \A d \in Condition : h \notin Sleeping(d)
    BY <1>1 DEF WaitInv, ServesOwn, Sleeping
  <2>3. \A d \in Condition, u \in Thread : GivesUp(d, u) => GivesUp(d, u)'
    BY <1>1, <1>4 DEF GivesUp
  <2>4. \A d \in Condition, u \in Thread : Served(d, u) => d = c /\ u = h
    BY <1>2 DEF Served, Notifier
  <2> QED BY <2>1, <2>2, <2>3, <2>4
<1> HIDE DEF c, w, h
<1>10. ListsExact'
  <2> SUFFICES ASSUME NEW d \in Condition
               PROVE  /\ Once(waiters'[d])
                      /\ \A u \in Sleeping(d)' : Has(waiters'[d], u)
                      /\ \A u \in Thread : Has(waiters'[d], u) =>
                           u \in Sleeping(d)' \/ GivesUp(d, u)' \/ Served(d, u)'
    BY DEF ListsExact
  <2>1. /\ Once(waiters[d]) /\ \A u \in Sleeping(d) : Has(waiters[d], u)
        /\ \A u \in Thread : Has(waiters[d], u) =>
             u \in Sleeping(d) \/ GivesUp(d, u) \/ Served(d, u)
    BY DEF WaitInv, ListsExact
  <2>2. CASE d = c
    <3>1. \A u \in Sleeping(d)' : Has(waiters'[d], u)
      BY <2>1, <2>2, <1>6, <1>7, <1>9
    <3>2. \A u \in Thread : Has(waiters'[d], u) => u \in Sleeping(d)' \/ GivesUp(d, u)'
      BY <2>1, <2>2, <1>6, <1>7, <1>9
    <3> QED BY <2>2, <3>1, <3>2, <1>6, <1>7
  <2>3. CASE d # c
    BY <2>1, <2>3, <1>6, <1>9
  <2> QED BY <2>2, <2>3
<1>11. ServesOwn'
  <2>1. ASSUME NEW m \in Thread, Notifier(m)', NEW u \in Thread, Has(notifying', u),
               pc'[u] = "sleep"
        PROVE  ConditionOf(u)' = Notified(m)'
    <3>1. u # n /\ pc[u] = "sleep" /\ Has(notifying, u) /\ Notifier(m)
      BY <1>1, <1>3, <1>5, <2>1
    <3> QED BY <1>4, <1>5, <2>1, <3>1 DEF WaitInv, ServesOwn
  <2>2. \A m \in Thread : pc'[m] # "remove"
    BY <1>5 DEF Notifier
  <2> QED BY <2>1, <2>2 DEF ServesOwn
<1>12. NobodyLeft'
  BY <1>1, <1>6, <1>7 DEF WaitInv, NobodyLeft
<1> QED
  BY <1>8, <1>10, <1>11, <1>12 DEF WaitInv

LEMMA StepWaiting == WaitInv /\ [Next]_vars => WaitInv'
<1> SUFFICES ASSUME WaitInv, [Next]_vars PROVE WaitInv'
  OBVIOUS
<1>1. CallsTyped /\ CallsTyped'
  BY StepCalls DEF WaitInv
<1>2. ASSUME NEW t \in Thread,
             Begin(t) \/ Expire(t) \/ Refuse(t) \/ join(t) \/ Raise(t)
      PROVE  WaitInv'
  <2>1. \A u \in Thread \ {t} : pc'[u] = pc[u] /\ call'[u] = call[u]
    BY <1>1, <1>2 DEF Begin, Expire, Refuse, join, Raise, Return, Go, CallsTyped
  <2>2. UNCHANGED <<mutex, waiters, released, notifying, interrupted>>
    BY <1>2 DEF Begin, Expire, Refuse, join, Raise, waiting
  <2>3. \/ pc'[t] = pc[t] /\ call'[t] = call[t]
        \/ pc[t] \in {"out", "acquire", "raise"} /\ pc'[t] \in {"out", "acquire"}
    BY <1>1, <1>2 DEF Begin, Expire, Refuse, join, Raise, Return, Go, Tests, CallsTyped
  <2> QED BY <1>1, <2>1, <2>2, <2>3, Quiet
<1>3. CASE UNCHANGED vars
  BY <1>1, <1>3 DEF vars, waiting, WaitInv, CallsTyped, WaitersTyped, ListsExact, ServesOwn,
       NobodyLeft, Notifier, Served, GivesUp, Sleeping, ConditionOf, Notified
<1> QED
  BY <1>1, <1>2, <1>3, SleepsFromNow, Wakes, Forgets, RaisesInWait, Methods, Releases, Removes
  DEF Next, Step

\* A condition knows its waiters, whatever times out, is interrupted or comes between the release
\* of a waiter's lock and its removal from the list.
THEOREM ConditionsKnowWaiters == Spec => []WaitersExact
<1>1. WaitInv => WaitersExact
  <2> SUFFICES ASSUME WaitInv, NEW c \in Condition
               PROVE  LET In(t) == {i \in 1..Len(waiters[c]) : waiters[c][i] = t} IN
                        /\ \A t \in Sleeping(c) : Cardinality(In(t)) = 1
                        /\ \A t \in Thread : In(t) # {} =>
                             \/ t \in Sleeping(c) \/ pc[t] = "forget"
                             \/ \E n \in Thread : /\ pc[n] = "remove" /\ Notified(n) = c
                                                  /\ Head(notifying) = t
                        /\ ~interrupted => In(Nobody) = {}
    BY DEF WaitersExact
  <2> DEFINE In(t) == {i \in 1..Len(waiters[c]) : waiters[c][i] = t}
  <2>1. \A x : In(x) # {} <=> Has(waiters[c], x)
    BY DEF Has
  <2>2. ASSUME NEW t \in Sleeping(c) PROVE Cardinality(In(t)) = 1
    <3>1. t \in Thread /\ Once(waiters[c])
      BY DEF Sleeping, WaitInv, ListsExact
    <3>2. PICK i \in 1..Len(waiters[c]) : waiters[c][i] = t
      BY DEF WaitInv, ListsExact, Has
    <3>3. In(t) = {i}
      BY <3>1, <3>2 DEF Once
    <3> HIDE DEF In
    <3> QED BY <3>3, FS_Singleton
  <2>3. \A t \in Thread : In(t) # {} => t \in Sleeping(c) \/ pc[t] = "forget" \/ Served(c, t)
    BY <2>1 DEF WaitInv, ListsExact, GivesUp
  <2>4. ~interrupted => In(Nobody) = {}
    BY <2>1 DEF WaitInv, NobodyLeft
  <2> QED BY <2>2, <2>3, <2>4 DEF Served
<1> QED
  BY <1>1, InitWaiting, StepWaiting, PTL DEF Spec
-----------------------------------------------------------------------------
(* No notification is lost.                                                 *)

Item == UNION {{c.item : c \in Calls[t]} : t \in Thread}
Cond(kind) == IF kind = "get" THEN "not_empty" ELSE "not_full"
\* What a kind of call finds in the queue: items, or free places.
There(kind) == IF kind = "get" THEN Len(queue) ELSE maxsize - Len(queue)

\* Threads that sleep and that the notification under way will not reach.
Unnotified(c) == {t \in Sleeping(c) : ~Has(notifying, t)}
\* Threads that will come to the queue and take no further notification away from a sleeper: they
\* are not, or will not be, in the list of waiters.
Due(kind) ==
  {t \in Thread : /\ pc[t] \in Before /\ call[t].kind = kind
                  /\ \/ ~Has(waiters[Cond(kind)], t)
                     \/ /\ Has(notifying, t)
                        /\ \E n \in Thread : Notifier(n) /\ Notified(n) = Cond(kind)}
Reaches(kind) == Unnotified(Cond(kind)) # {} => There(kind) <= Cardinality(Due(kind))

QueueTyped ==
  /\ queue \in Seq(Item) /\ unfinished_tasks \in Nat
  /\ mutex = Nobody => notifying = <<>>
  /\ \A t \in Thread : pc[t] = "sleep" => call[t].kind # "task_done"
ReachInv ==
  /\ WaitInv /\ QueueTyped
  /\ ~interrupted => /\ \A kind \in {"get", "put"} : Reaches(kind)
                     /\ Unnotified("all_tasks_done") # {} => unfinished_tasks > 0

LEMMA ThereIs == ASSUME QueueTyped PROVE \A kind : There(kind) \in Int
  BY LibQueueAssumption, LenProperties DEF QueueTyped, There

LEMMA DueFinite ==
  ASSUME IsFiniteSet(Thread), NEW kind
  PROVE  /\ IsFiniteSet(Due(kind)) /\ Cardinality(Due(kind)) \in Nat
         /\ IsFiniteSet(Due(kind)') /\ Cardinality(Due(kind)') \in Nat
<1>1. Due(kind) \subseteq Thread /\ Due(kind)' \subseteq Thread
  BY DEF Due
<1> QED
  BY <1>1, FS_Subset, FS_CardinalityType

\* How a kind of call can stay reached: there is nothing for it; as many threads as before are due;
\* one thing more and one thread more; one of each less.
LEMMA NothingThere ==
  ASSUME IsFiniteSet(Thread), NEW kind, There(kind)' = 0 PROVE Reaches(kind)'
  BY DueFinite DEF Reaches

LEMMA AsBefore ==
  ASSUME IsFiniteSet(Thread), NEW kind, QueueTyped, Reaches(kind), There(kind)' = There(kind),
         Unnotified(Cond(kind))' # {} => Unnotified(Cond(kind)) # {}, Due(kind) \subseteq Due(kind)'
  PROVE  Reaches(kind)'
<1>1. Cardinality(Due(kind)) <= Cardinality(Due(kind)')
  BY DueFinite, FS_Subset
<1> QED
  BY <1>1, DueFinite, ThereIs DEF Reaches

LEMMA OneMore ==
  ASSUME IsFiniteSet(Thread), NEW kind, QueueTyped, Reaches(kind), There(kind)' = There(kind) + 1,
         Unnotified(Cond(kind))' # {} => Unnotified(Cond(kind)) # {},
         NEW h, h \notin Due(kind), Due(kind) \cup {h} \subseteq Due(kind)'
  PROVE  Reaches(kind)'
<1>1. Cardinality(Due(kind) \cup {h}) = Cardinality(Due(kind)) + 1
  BY DueFinite, FS_AddElement
<1>2. Cardinality(Due(kind) \cup {h}) <= Cardinality(Due(kind)')
  BY DueFinite, FS_Subset
<1> QED
  BY <1>1, <1>2, DueFinite, ThereIs DEF Reaches

LEMMA OneLess ==
  ASSUME IsFiniteSet(Thread), NEW kind, QueueTyped, Reaches(kind), There(kind)' = There(kind) - 1,
         Unnotified(Cond(kind))' # {} => Unnotified(Cond(kind)) # {},
         NEW t, Due(kind) \ {t} \subseteq Due(kind)'
  PROVE  Reaches(kind)'
<1>0. IsFiniteSet(Due(kind)) /\ Cardinality(Due(kind)) \in Nat
  BY DueFinite
<1>1. /\ Cardinality(Due(kind) \ {t}) \in Nat
      /\ Cardinality(Due(kind)) - 1 <= Cardinality(Due(kind) \ {t})
  <2>1. IsFiniteSet(Due(kind) \ {t})
    BY <1>0, FS_RemoveElement
  <2>2. Cardinality(Due(kind) \ {t}) = IF t \in Due(kind) THEN Cardinality(Due(kind)) - 1
                                       ELSE Cardinality(Due(kind))
    BY <1>0, FS_RemoveElement
  <2>3. Cardinality(Due(kind) \ {t}) \in Nat
    BY <2>1, FS_CardinalityType
  <2> QED BY <1>0, <2>2, <2>3
<1>2. Cardinality(Due(kind) \ {t}) <= Cardinality(Due(kind)')
  BY <1>1, DueFinite, FS_Subset
<1> QED
  BY <1>1, <1>2, DueFinite, ThereIs DEF Reaches

LEMMA InitReach == Init => ReachInv
<1> SUFFICES ASSUME Init PROVE ReachInv
  OBVIOUS
<1>1. QueueTyped
  BY DEF Init, QueueTyped
<1>2. \A c : Unnotified(c) = {}
  BY DEF Init, Unnotified, Sleeping
<1> QED
  BY <1>1, <1>2, InitWaiting DEF ReachInv, Reaches

\* The invariant of the queue and the mutex.
LEMMA StepTyped ==
  ASSUME WaitInv, WaitInv', QueueTyped, NEW t \in Thread,
         Begin(t) \/ Step(t) \/ Expire(t) \/ Interrupt(t)
  PROVE  QueueTyped'
<1>0. CallsTyped /\ CallsTyped' /\ WaitersTyped
  BY DEF WaitInv
<1>1. queue' \in Seq(Item) /\ unfinished_tasks' \in Nat
  <2>1. CASE put(t)
    <3>1. call[t] \in Calls[t]
      BY <1>0, <2>1 DEF put, Tests, CallsTyped
    <3>2. call[t].item \in Item
      BY <3>1 DEF Item
    <3>3. queue' = Append(queue, call[t].item) /\ unfinished_tasks' = unfinished_tasks + 1
      BY <2>1 DEF put
    <3> QED BY <3>2, <3>3, AppendProperties DEF QueueTyped
  <2>2. CASE get(t)
    BY <2>2, HeadTailProperties DEF get, Tests, MustWait, QueueTyped
  <2>3. CASE task_done(t)
    BY <2>3 DEF task_done, QueueTyped
  <2>4. CASE ~(put(t) \/ get(t) \/ task_done(t))
    <3>1. UNCHANGED <<queue, unfinished_tasks>>
      BY <2>4 DEF Step, Begin, Expire, Interrupt, wait, Refuse, join, NotifyRelease, NotifyRemove,
           GotIt, TimedOut, Forget, Raise, data
    <3> QED BY <3>1 DEF QueueTyped
  <2> QED BY <2>1, <2>2, <2>3, <2>4
<1>2. mutex' = Nobody => notifying' = <<>>
  <2>1. CASE put(t) \/ get(t) \/ task_done(t)
    BY <2>1, LibQueueAssumption DEF put, get, task_done, Notify
  <2>2. CASE NotifyRemove(t)
    <3>1. notifying \in Seq(Waiter) /\ notifying # <<>> /\ mutex = t
      BY <1>0, <2>2 DEF NotifyRemove, WaitersTyped, Notifier
    <3> QED BY <2>2, <3>1, HeadOf, LibQueueAssumption DEF NotifyRemove
  <2>3. CASE Interrupt(t)
    <3>1. mutex' = mutex /\ notifying' = Abandoned(notifying, t) /\ notifying \in Seq(Waiter)
      BY <1>0, <2>3 DEF Interrupt, WaitersTyped
    <3>2. notifying = <<>> => notifying' = <<>>
      <4>1. notifying' \in Seq(Waiter) /\ Len(notifying') = Len(notifying)
        BY <3>1, AbandonedIs
      <4> QED BY <4>1, EmptySeq
    <3> QED BY <3>1, <3>2 DEF QueueTyped
  <2>4. CASE ~(put(t) \/ get(t) \/ task_done(t) \/ NotifyRemove(t) \/ Interrupt(t))
    <3>1. UNCHANGED <<mutex, notifying>>
      BY <2>4 DEF Step, Begin, Expire, wait, Refuse, join, NotifyRelease, GotIt, TimedOut, Forget,
           Raise
    <3> QED BY <3>1 DEF QueueTyped
  <2> QED BY <2>1, <2>2, <2>3, <2>4
<1>3. ASSUME NEW u \in Thread, pc'[u] = "sleep" PROVE call'[u].kind # "task_done"
  <2>1. CASE wait(t)
    BY <1>0, <1>3, <2>1 DEF wait, MustWait, Go, CallsTyped, QueueTyped
  <2>2. CASE ~wait(t)
    <3>1. pc[u] = "sleep"
      BY <1>0, <1>3, <2>2 DEF Step, Begin, Expire, Interrupt, Refuse, join, put, get, task_done,
           Notify, NotifyRelease, NotifyRemove, GotIt, TimedOut, Forget, Raise, Return, Go,
           CallsTyped
    <3>2. call'[u] = call[u]
      BY <1>0, <3>1 DEF Step, Begin, Expire, Interrupt, wait, Refuse, join, put, get, task_done,
           Notify, NotifyRelease, NotifyRemove, GotIt, TimedOut, Forget, Raise, Return, Go,
           CallsTyped, Tests
    <3> QED BY <3>1, <3>2 DEF QueueTyped
  <2> QED BY <2>1, <2>2
<1> QED
  BY <1>1, <1>2, <1>3 DEF QueueTyped

\* Threads in no call of this kind, and steps that leave the lists alone, lose nobody who is due.
LEMMA StillDue ==
  ASSUME NEW kind, UNCHANGED <<waiters, notifying>>, NEW u \in Due(kind),
         pc'[u] \in Before, call'[u] = call[u],
         \A n \in Thread : Notifier(n) => Notifier(n)' /\ Notified(n)' = Notified(n)
  PROVE  u \in Due(kind)'
  BY DEF Due

\* A thread that tests with the mutex is due, and nothing is being notified.
LEMMA Tester ==
  ASSUME ReachInv, NEW t \in Thread, pc[t] = "acquire", mutex = Nobody
  PROVE  /\ notifying = <<>> /\ \A x : ~Has(notifying, x)
         /\ \A n \in Thread : ~Notifier(n)
         /\ \A c \in Condition : ~Has(waiters[c], t) /\ Unnotified(c) = Sleeping(c)
<1>1. WaitInv /\ QueueTyped
  BY DEF ReachInv
<1>2. notifying = <<>> /\ \A x : ~Has(notifying, x)
  BY <1>1 DEF QueueTyped, Has
<1>3. \A n \in Thread : ~Notifier(n) /\ pc[n] # "remove"
  BY <1>1, FreeMutex
<1>4. \A c \in Condition : ~Has(waiters[c], t)
  BY <1>1, <1>3 DEF WaitInv, ListsExact, Sleeping, GivesUp, Served
<1> QED
  BY <1>2, <1>3, <1>4 DEF Unnotified

\* The kinds of calls that wait, and their conditions.
LEMMA KindsAre ==
  ASSUME CallsTyped, NEW t \in Thread, pc[t] # "out"
  PROVE  /\ call[t].kind \in Kind
         /\ ConditionOf(t) = "not_empty" <=> call[t].kind = "get"
         /\ ConditionOf(t) = "not_full" <=> call[t].kind = "put"
  BY LibQueueAssumption DEF CallsTyped, Kind, ConditionOf

\* A put or a get: the one that comes after it is due, or nobody sleeps.
LEMMA WakesOne ==
  ASSUME ReachInv, IsFiniteSet(Thread), ~interrupted, NEW t \in Thread,
         pc[t] = "acquire", mutex = Nobody, UNCHANGED <<waiters, released>>,
         NEW kind \in {"get", "put"}, call[t].kind # kind, Notified(t) = Cond(kind),
         Notify(t, First(waiters[Cond(kind)])), There(kind)' = There(kind) + 1, CallsTyped'
  PROVE  Reaches(kind)'
<1> DEFINE c == Cond(kind)
<1>1. WaitInv /\ QueueTyped /\ Reaches(kind) /\ c \in Condition
  BY ConditionsAre DEF ReachInv, Cond
<1>2. waiters[c] \in Seq(Waiter)
  BY <1>1 DEF WaitInv, WaitersTyped
<1>3. /\ \A u \in Thread \ {t} : pc'[u] = pc[u] /\ call'[u] = call[u]
      /\ pc'[t] \in {"out", "notify"}
      /\ notifying' = First(waiters[c])
  BY <1>1 DEF Notify, Return, Go, WaitInv, CallsTyped
<1>4. Sleeping(c)' = Sleeping(c)
  BY <1>3 DEF Sleeping, ConditionOf, Cond
<1>5. Unnotified(c)' \subseteq Unnotified(c)
  BY <1>1, <1>4, Tester DEF Unnotified
<1>6. t \notin Due(kind) /\ Due(kind) \subseteq Due(kind)'
  <2>1. t \notin Due(kind)
    BY DEF Due
  <2>2. ASSUME NEW u \in Due(kind) PROVE u \in Due(kind)'
    <3>1. pc'[u] \in Before /\ call'[u].kind = kind /\ ~Has(waiters'[Cond(kind)], u)
      BY <1>3, <2>1, <2>2, Tester DEF Due
    <3> QED BY <3>1 DEF Due
  <2> QED BY <2>1, <2>2
<1>7. CASE waiters[c] = <<>>
  <2>1. Sleeping(c) = {}
    BY <1>1, <1>7 DEF WaitInv, ListsExact, Has, Sleeping
  <2> QED BY <1>4, <2>1 DEF Reaches, Unnotified, Cond
<1>8. CASE waiters[c] # <<>>
  <2> DEFINE h == Head(waiters[c])
  <2>1. h \in Waiter /\ Has(waiters[c], h) /\ h # Nobody
    BY <1>1, <1>2, <1>8, HeadOf DEF WaitInv, NobodyLeft
  <2>2. h \in Thread
    BY <2>1 DEF Waiter
  <2>3. h \in Sleeping(c) \/ GivesUp(c, h)
    BY <1>1, <2>1, <2>2, FreeMutex DEF WaitInv, ListsExact, Served
  <2>4. /\ pc[h] \in {"sleep", "forget"} /\ ConditionOf(h) = c
    BY <2>3 DEF Sleeping, GivesUp
  <2>5. call[h].kind = kind /\ h # t
    BY <1>1, <2>2, <2>4, KindsAre DEF WaitInv, Cond
  <2>6. notifying' = <<h>> /\ pc'[t] = "notify" /\ call'[t] = call[t]
    BY <1>1, <1>8 DEF Notify, First, Go, WaitInv, CallsTyped
  <2>7. Has(notifying', h) /\ Notifier(t)' /\ Notified(t)' = Cond(kind)
    BY <2>6 DEF Has, Notifier, Notified
  <2>8. h \in Due(kind)'
    <3>1. pc'[h] \in Before /\ call'[h].kind = kind
      BY <1>3, <2>2, <2>4, <2>5 DEF Before
    <3> HIDE DEF h
    <3> QED BY <2>2, <2>7, <3>1 DEF Due
  <2>9. h \notin Due(kind)
    BY <2>1, Tester DEF Due
  <2>10. Due(kind) \cup {h} \subseteq Due(kind)'
    BY <1>6, <2>8
  <2>11. Unnotified(Cond(kind))' # {} => Unnotified(Cond(kind)) # {}
    BY <1>5 DEF Cond
  <2> HIDE DEF h
  <2> QED BY <1>1, <2>9, <2>10, <2>11, OneMore
<1> QED
  BY <1>7, <1>8

\* The other side of it: the thread itself is no longer due.
LEMMA TakesOne ==
  ASSUME ReachInv, IsFiniteSet(Thread), ~interrupted, NEW t \in Thread,
         pc[t] = "acquire", mutex = Nobody, UNCHANGED <<waiters, released>>,
         NEW kind \in {"get", "put"}, NEW slice, Notify(t, slice),
         There(kind)' = There(kind) - 1
  PROVE  Reaches(kind)'
<1>1. CallsTyped /\ QueueTyped /\ Reaches(kind) /\ Cond(kind) \in Condition
  BY ConditionsAre DEF ReachInv, WaitInv, Cond
<1>2. /\ \A u \in Thread \ {t} : pc'[u] = pc[u] /\ call'[u] = call[u]
      /\ pc'[t] \in {"out", "notify"}
  BY <1>1 DEF Notify, Return, Go, CallsTyped
<1>3. Sleeping(Cond(kind))' = Sleeping(Cond(kind))
  BY <1>2 DEF Sleeping, ConditionOf, Cond
<1>4. Unnotified(Cond(kind))' # {} => Unnotified(Cond(kind)) # {}
  BY <1>1, <1>3, Tester DEF Unnotified
<1>5. ASSUME NEW u \in Due(kind) \ {t} PROVE u \in Due(kind)'
  <2>1. pc'[u] \in Before /\ call'[u].kind = kind /\ ~Has(waiters'[Cond(kind)], u)
    BY <1>2, <1>5, Tester DEF Due
  <2> QED BY <2>1 DEF Due
<1> QED
  BY <1>1, <1>4, <1>5, OneLess

\* Nobody else falls asleep, and a sleeper that is no longer notified has been released.
LEMMA NoMoreSleep ==
  ASSUME WaitInv, WaitInv', NEW t \in Thread,
         \/ Begin(t) \/ Expire(t) \/ Refuse(t) \/ join(t) \/ Raise(t)
         \/ NotifyRelease(t) \/ NotifyRemove(t) \/ GotIt(t) \/ TimedOut(t) \/ Forget(t)
  PROVE  UNCHANGED data /\ \A c \in Condition : Unnotified(c)' \subseteq Unnotified(c)
<1>1. CallsTyped /\ WaitersTyped
  BY DEF WaitInv
<1>2. UNCHANGED data
  BY DEF Begin, Expire, Refuse, join, Raise, NotifyRelease, NotifyRemove, GotIt, TimedOut, Forget
<1>3. ASSUME NEW u \in Thread, pc'[u] = "sleep", u \notin released'
      PROVE  pc[u] = "sleep" /\ u \notin released /\ call'[u] = call[u]
  BY <1>1, <1>3, LibQueueAssumption DEF Begin, Expire, Refuse, join, Raise, NotifyRelease,
     NotifyRemove, GotIt, TimedOut, Forget, Return, Go, waiting, CallsTyped, Tests
<1>4. \A c \in Condition : Sleeping(c)' \subseteq Sleeping(c)
  BY <1>3 DEF Sleeping, ConditionOf
<1>5. ASSUME NEW c \in Condition, NEW u \in Sleeping(c), Has(notifying, u)
      PROVE  Has(notifying', u)
  <2>1. CASE NotifyRemove(t)
    <3>1. /\ notifying \in Seq(Waiter) /\ notifying # <<>> /\ notifying' = Tail(notifying)
          /\ u # Head(notifying)
      BY <1>1, <1>5, <2>1 DEF NotifyRemove, WaitersTyped, Notifier, WaitInv, ServesOwn, Sleeping
    <3>2. PICK i \in 1..Len(notifying) : notifying[i] = u
      BY <1>5 DEF Has
    <3>3. /\ Len(notifying) \in Nat /\ Head(notifying) = notifying[1]
          /\ Len(Tail(notifying)) = Len(notifying) - 1
          /\ \A k \in 1..Len(Tail(notifying)) : Tail(notifying)[k] = notifying[k + 1]
      BY <3>1, HeadTailProperties, LenProperties
    <3>4. i - 1 \in 1..Len(Tail(notifying)) /\ Tail(notifying)[i - 1] = u
      BY <3>1, <3>2, <3>3
    <3> QED BY <3>1, <3>4 DEF Has
  <2>2. CASE ~NotifyRemove(t)
    <3>1. notifying' = notifying
      BY <2>2 DEF Begin, Expire, Refuse, join, Raise, NotifyRelease, GotIt, TimedOut, Forget
    <3> QED BY <1>5, <3>1
  <2> QED BY <2>1, <2>2
<1> QED
  BY <1>2, <1>4, <1>5 DEF Unnotified

\* Whoever is due is so until its call takes effect.
LEMMA DueStay ==
  ASSUME WaitInv, NEW t \in Thread, NEW kind \in {"get", "put"},
         \/ Begin(t) \/ Expire(t) \/ Raise(t)
         \/ (Refuse(t) \/ join(t)) /\ call[t].kind # kind
         \/ NotifyRelease(t) \/ GotIt(t) \/ TimedOut(t) \/ Forget(t)
  PROVE  Due(kind) \subseteq Due(kind)'
<1>1. CallsTyped /\ WaitersTyped
  BY DEF WaitInv
<1> SUFFICES ASSUME NEW u \in Due(kind) PROVE u \in Due(kind)'
  OBVIOUS
<1>2. pc'[u] \in Before /\ call'[u] = call[u]
  BY <1>1 DEF Begin, Expire, Raise, Refuse, join, NotifyRelease, GotIt, TimedOut, Forget, Return,
     Go, CallsTyped, Before, Due, Tests
<1>3. notifying' = notifying
  BY DEF Begin, Expire, Raise, Refuse, join, NotifyRelease, GotIt, TimedOut, Forget
<1>4. \A n \in Thread : Notifier(n) => Notifier(n)' /\ call'[n] = call[n]
  BY <1>1 DEF Begin, Expire, Raise, Refuse, join, NotifyRelease, GotIt, TimedOut, Forget, Return,
     Go, CallsTyped, Before, Notifier, Tests
<1>5. \A n \in Thread : Notifier(n) => Notifier(n)' /\ Notified(n)' = Notified(n)
  BY <1>4 DEF Notified
<1>6. CASE Forget(t)
  <2>1. /\ ConditionOf(t) \in Condition /\ waiters[ConditionOf(t)] \in Seq(Waiter)
        /\ \A c \in Condition :
             waiters'[c] = IF c = ConditionOf(t) THEN Without(waiters[c], t) ELSE waiters[c]
    BY <1>1, <1>6, ConditionsAre DEF Forget, WaitersTyped
  <2>2. \A c \in Condition : ~Has(waiters[c], u) => ~Has(waiters'[c], u)
    BY <2>1, WithoutKeeps
  <2>3. Cond(kind) \in Condition
    BY ConditionsAre DEF Cond
  <2>4. \/ ~Has(waiters'[Cond(kind)], u)
        \/ Has(notifying', u) /\ \E n \in Thread : Notifier(n)' /\ Notified(n)' = Cond(kind)
    BY <1>3, <1>5, <2>2, <2>3 DEF Due
  <2> QED BY <1>2, <2>4 DEF Due
<1>7. CASE ~Forget(t)
  <2>1. waiters' = waiters
    BY <1>7 DEF Begin, Expire, Raise, Refuse, join, NotifyRelease, GotIt, TimedOut, waiting
  <2> QED BY <1>2, <1>3, <1>5, <2>1, StillDue
<1> QED
  BY <1>6, <1>7

\* The thread that has been served is still due: it is out of the list.
LEMMA ServedStaysDue ==
  ASSUME WaitInv, NEW t \in Thread, NotifyRemove(t), NEW kind \in {"get", "put"}
  PROVE  Due(kind) \subseteq Due(kind)'
<1> DEFINE h == Head(notifying)
<1>1. CallsTyped /\ WaitersTyped /\ Cond(kind) \in Condition /\ Notified(t) \in Condition
  BY ConditionsAre DEF WaitInv, Cond
<1>2. /\ pc[t] = "remove" /\ notifying \in Seq(Waiter) /\ notifying # <<>> /\ mutex = t
      /\ \A n \in Thread : Notifier(n) => n = t
  BY <1>1 DEF NotifyRemove, WaitersTyped, Notifier
<1>3. /\ notifying' = Tail(notifying)
      /\ \A u \in Thread \ {t} : pc'[u] = pc[u] /\ call'[u] = call[u]
      /\ Len(notifying) # 1 => pc'[t] = "notify" /\ call'[t] = call[t]
  BY <1>1 DEF NotifyRemove, Return, Go, CallsTyped
<1>4. /\ waiters[Notified(t)] \in Seq(Waiter) /\ Once(waiters[Notified(t)])
      /\ \A c \in Condition :
           waiters'[c] = IF c = Notified(t) THEN Without(waiters[c], h) ELSE waiters[c]
  BY <1>1 DEF NotifyRemove, WaitersTyped, WaitInv, ListsExact
<1>5. \A c \in Condition : \A u : ~Has(waiters[c], u) => ~Has(waiters'[c], u)
  BY <1>4, WithoutKeeps
<1>6. h \in Thread => ~Has(waiters'[Notified(t)], h)
  BY <1>1, <1>4, WithoutKeeps
<1>7. ASSUME NEW u, Has(notifying, u), u # h
      PROVE  Has(notifying', u) /\ Len(notifying) # 1
  <2>1. PICK i \in 1..Len(notifying) : notifying[i] = u
    BY <1>7 DEF Has
  <2>2. /\ Len(notifying) \in Nat /\ Head(notifying) = notifying[1]
        /\ Len(Tail(notifying)) = Len(notifying) - 1
        /\ \A k \in 1..Len(Tail(notifying)) : Tail(notifying)[k] = notifying[k + 1]
    BY <1>2, HeadTailProperties, LenProperties
  <2>3. i - 1 \in 1..Len(Tail(notifying)) /\ Tail(notifying)[i - 1] = u
    BY <1>7, <2>1, <2>2
  <2> QED BY <1>3, <2>1, <2>2, <2>3 DEF Has
<1> HIDE DEF h
<1> SUFFICES ASSUME NEW u \in Due(kind) PROVE u \in Due(kind)'
  OBVIOUS
<1>8. pc'[u] \in Before /\ call'[u].kind = kind /\ u \in Thread
  <2>1. u # t /\ u \in Thread
    BY <1>2 DEF Due, Before
  <2> QED BY <1>3, <2>1 DEF Due
<1>9. CASE ~Has(waiters[Cond(kind)], u)
  BY <1>1, <1>5, <1>8, <1>9 DEF Due
<1>10. CASE Has(notifying, u) /\ Notified(t) = Cond(kind)
  <2>1. CASE u = h
    BY <1>6, <1>8, <1>10, <2>1 DEF Due
  <2>2. CASE u # h
    <3>1. Has(notifying', u) /\ Notifier(t)' /\ Notified(t)' = Cond(kind)
      BY <1>3, <1>7, <1>10, <2>2 DEF Notifier, Notified
    <3> QED BY <1>8, <3>1 DEF Due
  <2> QED BY <2>1, <2>2
<1> QED
  BY <1>2, <1>9, <1>10 DEF Due

LEMMA StepReaches ==
  ASSUME ReachInv, WaitInv', QueueTyped', IsFiniteSet(Thread), ~interrupted, ~interrupted',
         NEW t \in Thread, Begin(t) \/ Step(t) \/ Expire(t) \/ Interrupt(t),
         NEW kind \in {"get", "put"}
  PROVE  Reaches(kind)'
<1>1. /\ WaitInv /\ CallsTyped /\ CallsTyped' /\ QueueTyped /\ Reaches(kind)
      /\ Cond(kind) \in Condition
  BY ConditionsAre DEF ReachInv, WaitInv, Cond
<1>2. Len(queue) \in Nat /\ maxsize \in Nat /\ \A k : There(k) \in Int
  BY <1>1, LenProperties, ThereIs, LibQueueAssumption DEF QueueTyped
<1>3. ASSUME UNCHANGED data PROVE There(kind)' = There(kind)
  BY <1>3 DEF There, data
<1>4. ASSUME MustWait(t), call[t].kind = kind, UNCHANGED data PROVE There(kind)' = 0
  BY <1>2, <1>4 DEF MustWait, Full, There, data
<1>5. ASSUME \/ Begin(t) \/ Expire(t) \/ Raise(t) \/ NotifyRelease(t) \/ NotifyRemove(t)
             \/ GotIt(t) \/ TimedOut(t) \/ Forget(t)
             \/ (Refuse(t) \/ join(t)) /\ call[t].kind # kind
      PROVE  Reaches(kind)'
  <2>1. UNCHANGED data /\ Unnotified(Cond(kind))' \subseteq Unnotified(Cond(kind))
    <3>1. /\ UNCHANGED data
          /\ \A c \in Condition : Unnotified(c)' \subseteq Unnotified(c)
      BY <1>1, <1>5, NoMoreSleep
    <3> QED BY <1>1, <3>1 DEF Cond
  <2>2. Due(kind) \subseteq Due(kind)'
    BY <1>1, <1>5, DueStay, ServedStaysDue
  <2> QED BY <1>1, <1>3, <2>1, <2>2, AsBefore
<1>6. CASE Refuse(t) /\ call[t].kind = kind
  <2>1. MustWait(t) /\ UNCHANGED data
    BY <1>6 DEF Refuse, Tests
  <2> QED BY <1>4, <1>6, <2>1, NothingThere
<1>7. CASE join(t) /\ call[t].kind = kind
  BY <1>7 DEF join, Tests
<1>8. CASE wait(t)
  <2>1. MustWait(t) /\ UNCHANGED data /\ pc[t] = "acquire" /\ mutex = Nobody
    BY <1>8 DEF wait, Tests
  <2>2. CASE call[t].kind = kind
    BY <1>4, <2>1, <2>2, NothingThere
  <2>3. CASE call[t].kind # kind
    <3>1. /\ waiters' = [waiters EXCEPT ![ConditionOf(t)] = Append(@, t)]
          /\ released' = released \ {t} /\ pc' = [pc EXCEPT ![t] = "sleep"]
          /\ UNCHANGED <<notifying, call>>
      BY <1>8 DEF wait, Go
    <3>2. ConditionOf(t) # Cond(kind)
      BY <1>1, <2>1, <2>3, KindsAre DEF Cond
    <3>3. waiters'[Cond(kind)] = waiters[Cond(kind)]
      BY <1>1, <3>1, <3>2 DEF WaitInv, WaitersTyped
    <3>4. \A u \in Thread \ {t} : pc'[u] = pc[u] /\ (u \in released' <=> u \in released)
      BY <1>1, <3>1 DEF CallsTyped
    <3>5. Sleeping(Cond(kind))' = Sleeping(Cond(kind))
      BY <2>1, <3>1, <3>2, <3>4 DEF Sleeping, ConditionOf, Cond
    <3>6. Unnotified(Cond(kind))' = Unnotified(Cond(kind))
      BY <3>1, <3>5 DEF Unnotified
    <3>7. ASSUME NEW u \in Due(kind) PROVE u \in Due(kind)'
      <4>1. pc'[u] \in Before /\ call'[u].kind = kind /\ ~Has(waiters'[Cond(kind)], u)
        BY <2>1, <2>3, <3>1, <3>3, <3>4, <3>7, Tester DEF Due
      <4> QED BY <4>1 DEF Due
    <3> QED BY <1>1, <1>3, <2>1, <3>6, <3>7, AsBefore
  <2> QED BY <2>2, <2>3
<1>9. CASE put(t)
  <2>1. /\ pc[t] = "acquire" /\ mutex = Nobody /\ UNCHANGED <<waiters, released>>
        /\ call[t].kind = "put" /\ Notified(t) = "not_empty"
        /\ Notify(t, First(waiters["not_empty"]))
        /\ queue' = Append(queue, call[t].item)
    BY <1>9 DEF put, Tests, Notified
  <2>2. call[t].item \in Item
    BY <1>1, <2>1 DEF CallsTyped, Item
  <2>3. Len(queue') = Len(queue) + 1
    BY <1>1, <2>1, <2>2, AppendProperties DEF QueueTyped
  <2>4. CASE kind = "get"
    <3>1. There(kind)' = There(kind) + 1 /\ Cond(kind) = "not_empty"
      BY <2>3, <2>4 DEF There, Cond
    <3> QED BY <1>1, <2>1, <2>4, <3>1, WakesOne
  <2>5. CASE kind = "put"
    <3>1. There(kind)' = There(kind) - 1
      BY <1>2, <2>3, <2>5 DEF There
    <3> QED BY <2>1, <3>1, TakesOne
  <2> QED BY <2>4, <2>5
<1>10. CASE get(t)
  <2>1. /\ pc[t] = "acquire" /\ mutex = Nobody /\ UNCHANGED <<waiters, released>>
        /\ call[t].kind = "get" /\ Notified(t) = "not_full"
        /\ Notify(t, First(waiters["not_full"]))
        /\ queue' = Tail(queue) /\ queue # <<>>
    BY <1>10 DEF get, Tests, Notified, MustWait
  <2>2. Len(queue') = Len(queue) - 1
    BY <1>1, <2>1, HeadTailProperties DEF QueueTyped
  <2>3. CASE kind = "put"
    <3>1. There(kind)' = There(kind) + 1 /\ Cond(kind) = "not_full"
      BY <1>2, <2>2, <2>3 DEF There, Cond
    <3> QED BY <1>1, <2>1, <2>3, <3>1, WakesOne
  <2>4. CASE kind = "get"
    <3>1. There(kind)' = There(kind) - 1
      BY <2>2, <2>4 DEF There
    <3> QED BY <2>1, <3>1, TakesOne
  <2> QED BY <2>3, <2>4
<1>11. CASE task_done(t)
  <2>1. /\ pc[t] = "acquire" /\ mutex = Nobody /\ UNCHANGED <<waiters, released, queue>>
        /\ call[t].kind = "task_done"
        /\ \A u \in Thread \ {t} : pc'[u] = pc[u] /\ call'[u] = call[u]
        /\ pc'[t] \in {"out", "notify"}
    BY <1>1, <1>11 DEF task_done, Tests, Notify, Return, Go, CallsTyped
  <2>2. Sleeping(Cond(kind))' = Sleeping(Cond(kind))
    BY <2>1 DEF Sleeping, ConditionOf, Cond
  <2>3. Unnotified(Cond(kind))' \subseteq Unnotified(Cond(kind))
    BY <1>1, <2>1, <2>2, Tester DEF Unnotified
  <2>4. ASSUME NEW u \in Due(kind) PROVE u \in Due(kind)'
    <3>1. pc'[u] \in Before /\ call'[u].kind = kind /\ ~Has(waiters'[Cond(kind)], u)
      BY <2>1, <2>4, Tester DEF Due
    <3> QED BY <3>1 DEF Due
  <2>5. There(kind)' = There(kind)
    BY <2>1 DEF There
  <2> QED BY <1>1, <2>3, <2>4, <2>5, AsBefore
<1>12. CASE Interrupt(t)
  BY <1>12 DEF Interrupt
<1> QED
  BY <1>5, <1>6, <1>7, <1>8, <1>9, <1>10, <1>11, <1>12 DEF Step

\* The last task_done() notifies everybody that waits for it.
LEMMA StepTasks ==
  ASSUME ReachInv, WaitInv', QueueTyped', ~interrupted, ~interrupted',
         NEW t \in Thread, Begin(t) \/ Step(t) \/ Expire(t) \/ Interrupt(t)
  PROVE  (Unnotified("all_tasks_done") # {} => unfinished_tasks > 0)'
<1> DEFINE c == "all_tasks_done"
<1>1. /\ WaitInv /\ CallsTyped /\ QueueTyped /\ c \in Condition /\ unfinished_tasks \in Nat
      /\ Unnotified(c) # {} => unfinished_tasks > 0
  BY ConditionsAre DEF ReachInv, WaitInv, QueueTyped
<1>2. CASE \/ Begin(t) \/ Expire(t) \/ Raise(t) \/ NotifyRelease(t) \/ NotifyRemove(t)
           \/ GotIt(t) \/ TimedOut(t) \/ Forget(t) \/ Refuse(t) \/ join(t)
  <2>1. UNCHANGED data /\ \A d \in Condition : Unnotified(d)' \subseteq Unnotified(d)
    BY <1>1, <1>2, NoMoreSleep
  <2> QED BY <1>1, <2>1 DEF data
<1>3. CASE wait(t)
  <2>1. /\ pc[t] = "acquire" /\ mutex = Nobody /\ call[t].kind \in Kind /\ MustWait(t)
        /\ UNCHANGED <<unfinished_tasks, notifying, call>>
        /\ \A u \in Thread \ {t} : pc'[u] = pc[u] /\ (u \in released' <=> u \in released)
    BY <1>1, <1>3 DEF wait, Tests, data, Go, CallsTyped
  <2>2. CASE call[t].kind = "join"
    BY <1>1, <2>1, <2>2 DEF MustWait
  <2>3. CASE call[t].kind # "join"
    <3>1. ConditionOf(t) # c
      BY <2>1, <2>3 DEF MustWait, ConditionOf
    <3>2. Sleeping(c)' \subseteq Sleeping(c)
      BY <2>1, <3>1 DEF Sleeping, ConditionOf
    <3> QED BY <1>1, <2>1, <3>2 DEF Unnotified
  <2> QED BY <2>2, <2>3
<1>4. CASE put(t)
  BY <1>1, <1>4 DEF put
<1>5. CASE get(t) \/ task_done(t)
  <2>1. /\ pc[t] = "acquire" /\ mutex = Nobody /\ UNCHANGED <<waiters, released>>
        /\ \A u \in Thread \ {t} : pc'[u] = pc[u] /\ call'[u] = call[u]
        /\ pc'[t] \in {"out", "notify"}
    BY <1>1, <1>5 DEF get, task_done, Tests, Notify, Return, Go, CallsTyped
  <2>2. Sleeping(c)' = Sleeping(c)
    BY <2>1 DEF Sleeping, ConditionOf
  <2>3. Unnotified(c)' \subseteq Unnotified(c)
    BY <1>1, <2>1, <2>2, Tester DEF Unnotified
  <2>4. CASE unfinished_tasks' = unfinished_tasks
    BY <1>1, <2>3, <2>4
  <2>5. CASE task_done(t) /\ unfinished_tasks = 1
    <3>1. notifying' = waiters[c]
      BY <2>5 DEF task_done, Notify
    <3>2. \A u \in Sleeping(c) : Has(waiters[c], u)
      BY <1>1 DEF WaitInv, ListsExact
    <3> QED BY <2>2, <3>1, <3>2 DEF Unnotified
  <2>6. CASE task_done(t) /\ unfinished_tasks # 1
    BY <1>1, <2>6 DEF task_done
  <2> QED BY <1>5, <2>4, <2>5, <2>6 DEF get
<1>6. CASE Interrupt(t)
  BY <1>6 DEF Interrupt
<1> QED
  BY <1>2, <1>3, <1>4, <1>5, <1>6 DEF Step

LEMMA StepReach == IsFiniteSet(Thread) /\ ReachInv /\ [Next]_vars => ReachInv'
<1> SUFFICES ASSUME IsFiniteSet(Thread), ReachInv, [Next]_vars PROVE ReachInv'
  OBVIOUS
<1>1. WaitInv /\ WaitInv' /\ QueueTyped
  BY StepWaiting DEF ReachInv
<1>2. CASE UNCHANGED vars
  <2>1. QueueTyped'
    BY <1>1, <1>2 DEF vars, data, waiting, QueueTyped
  <2>2. /\ \A c : Unnotified(c)' = Unnotified(c)
        /\ \A kind : Due(kind)' = Due(kind) /\ There(kind)' = There(kind)
    BY <1>2 DEF vars, data, waiting, Unnotified, Sleeping, ConditionOf, Due, There, Notifier,
       Notified
  <2>3. UNCHANGED <<interrupted, unfinished_tasks>>
    BY <1>2 DEF vars, data
  <2>4. ASSUME NEW kind \in {"get", "put"}, Reaches(kind) PROVE Reaches(kind)'
    BY <2>2, <2>4 DEF Reaches, Cond
  <2> QED BY <1>1, <2>1, <2>2, <2>3, <2>4 DEF ReachInv
<1>3. ASSUME NEW t \in Thread, Begin(t) \/ Step(t) \/ Expire(t) \/ Interrupt(t) PROVE ReachInv'
  <2>1. QueueTyped'
    BY <1>1, <1>3, StepTyped
  <2>2. ~interrupted' => ~interrupted
    BY <1>3 DEF Begin, Step, Expire, Interrupt, wait, Refuse, put, get, task_done, join,
       NotifyRelease, NotifyRemove, GotIt, TimedOut, Forget, Raise
  <2>3. ASSUME ~interrupted', NEW kind \in {"get", "put"} PROVE Reaches(kind)'
    BY <1>1, <1>3, <2>1, <2>2, <2>3, StepReaches
  <2>4. ~interrupted' => (Unnotified("all_tasks_done") # {} => unfinished_tasks > 0)'
    BY <1>1, <1>3, <2>1, <2>2, StepTasks
  <2> QED BY <1>1, <2>1, <2>3, <2>4 DEF ReachInv
<1> QED
  BY <1>2, <1>3 DEF Next

\* No notification is lost, with any finite number of threads: unless a signal handler raised in a
\* wait, whoever sleeps for an item, for a place or for the end of the tasks either has nothing to
\* wake for, or enough others are on their way.
THEOREM NotificationsAlwaysReach == ASSUME IsFiniteSet(Thread) PROVE Spec => []NotificationsReach
<1>1. ASSUME ReachInv PROVE NotificationsReach
  <2>1. WaitInv /\ CallsTyped /\ QueueTyped
    BY <1>1 DEF ReachInv, WaitInv
  <2>2. /\ \A t \in Thread : (\E i \in 1..Len(notifying) : notifying[i] = t) <=> Has(notifying, t)
    BY DEF Has
  <2>3. \A kind \in {"get", "put"} : Sleeping(Cond(kind)) \ Coming(kind) \subseteq Unnotified(Cond(kind))
    <3> SUFFICES ASSUME NEW kind \in {"get", "put"}, NEW t \in Sleeping(Cond(kind)), Has(notifying, t)
                 PROVE  t \in Coming(kind)
      BY DEF Unnotified
    <3>1. t \in Thread /\ pc[t] = "sleep" /\ ConditionOf(t) = Cond(kind)
      BY DEF Sleeping
    <3>2. call[t].kind = kind
      BY <2>1, <3>1, KindsAre DEF Cond
    <3> QED BY <2>2, <3>1, <3>2 DEF Coming, Before
  <2>4. Sleeping("all_tasks_done") \ Coming("join") \subseteq Unnotified("all_tasks_done")
    <3> SUFFICES ASSUME NEW t \in Sleeping("all_tasks_done"), Has(notifying, t)
                 PROVE  t \in Coming("join")
      BY DEF Unnotified
    <3>1. t \in Thread /\ pc[t] = "sleep" /\ ConditionOf(t) = "all_tasks_done"
      BY DEF Sleeping
    <3>2. call[t].kind = "join"
      BY <2>1, <3>1, KindsAre DEF QueueTyped, Kind
    <3> QED BY <2>2, <3>1, <3>2 DEF Coming, Before
  <2>5. ASSUME NEW kind \in {"get", "put"}
        PROVE  Due(kind) \subseteq Coming(kind)
    <3> SUFFICES ASSUME NEW t \in Due(kind) PROVE t \in Coming(kind)
      OBVIOUS
    <3>1. t \in Thread /\ pc[t] \in Before /\ call[t].kind = kind
      BY DEF Due
    <3>2. pc[t] = "sleep" => ConditionOf(t) = Cond(kind) /\ Cond(kind) \in Condition
      BY <2>5, <3>1, ConditionsAre DEF ConditionOf, Cond
    <3>3. pc[t] = "sleep" /\ t \notin released => Has(waiters[Cond(kind)], t)
      BY <2>1, <3>1, <3>2 DEF WaitInv, ListsExact, Sleeping
    <3> QED BY <2>2, <3>1, <3>3 DEF Coming, Due
  <2>6. \A kind \in {"get", "put"} :
          /\ Cardinality(Due(kind)) <= Cardinality(Coming(kind))
          /\ Cardinality(Due(kind)) \in Nat /\ Cardinality(Coming(kind)) \in Nat
    <3> TAKE kind \in {"get", "put"}
    <3>1. Coming(kind) \subseteq Thread
      BY DEF Coming
    <3>2. IsFiniteSet(Coming(kind))
      BY <3>1, FS_Subset
    <3> QED BY <2>5, <3>2, FS_Subset, FS_CardinalityType
  <2>7. ASSUME ~interrupted, NEW kind \in {"get", "put"},
               Sleeping(Cond(kind)) \ Coming(kind) # {}
        PROVE  There(kind) <= Cardinality(Coming(kind))
    <3>1. There(kind) <= Cardinality(Due(kind))
      BY <1>1, <2>3, <2>7 DEF ReachInv, Reaches
    <3>2. There(kind) \in Int
      BY <2>1, ThereIs
    <3> QED BY <2>6, <3>1, <3>2
  <2>8. Cond("get") = "not_empty" /\ Cond("put") = "not_full"
        /\ There("get") = Len(queue) /\ There("put") = maxsize - Len(queue)
    BY DEF Cond, There
  <2>9. ~interrupted /\ Sleeping("all_tasks_done") \ Coming("join") # {} => unfinished_tasks > 0
    BY <1>1, <2>4 DEF ReachInv
  <2> QED BY <2>7, <2>8, <2>9 DEF NotificationsReach
<1> QED
  BY <1>1, InitReach, StepReach, PTL DEF Spec
=============================================================================
