---------------------------- MODULE PendingCalls ----------------------------
(***************************************************************************)
(* Calls that any thread, or a signal handler in it, leaves for the main   *)
(* thread: Py_AddPendingCall(), Py_MakePendingCalls() and                  *)
(* _PyEval_HandlePyTickerExpired() of Python/eval.cc; signal_handler(),    *)
(* PyErr_CheckSignals() and PyErr_SetInterrupt() of                        *)
(* Modules/signalmodule.c.                                                 *)
(*                                                                         *)
(* None of the variables these functions share is protected by a lock, so  *)
(* each access to one is a step of its own.  A signal handler runs on top  *)
(* of the thread it interrupts; that thread does not move until the        *)
(* handler has returned.                                                   *)
(***************************************************************************)
EXTENDS Integers, Sequences, FiniteSets

CONSTANTS
  Thread, Main, NoThread,   \* threads with a Python thread state; the main thread; none
  NSIG,                     \* signals are the numbers 1..NSIG, in the order they are scanned
  Job, NoCall,              \* calls other than the one for signals; no call
  JobsOf,                   \* [Thread -> SUBSET Job]: the calls each thread registers
  Hosts,                    \* threads the system may run a signal handler on
  Interrupters,             \* threads that call thread.interrupt_main()
  SIGINT,
  MayFail,                  \* whether pending calls fail and Python signal handlers raise
  NPENDINGCALLS, Py_CheckInterval,
  MaxScans                  \* bound: direct calls of PyErr_CheckSignals() nested in one another

ASSUME ConstantsAssumption ==
  /\ Main \in Thread /\ NoThread \notin Thread
  /\ NSIG \in Nat /\ SIGINT \in 1..NSIG
  /\ NoCall \notin Job /\ "check" \notin Job /\ NoCall # "check"
  /\ JobsOf \in [Thread -> SUBSET Job]
  /\ Hosts \subseteq Thread /\ Interrupters \subseteq Thread
  /\ Thread \cap (1..NSIG) = {}
  /\ MayFail \in BOOLEAN
  /\ NPENDINGCALLS \in Nat \ {0} /\ Py_CheckInterval \in Nat /\ MaxScans \in Nat

Signal == 1..NSIG
Slot == 0..(NPENDINGCALLS - 1)
Call == Job \cup {"check"}          \* "check": checksignals_witharg
Registrar == Thread \cup Signal     \* who executes Py_AddPendingCall()
\* A slip, and the slot that follows another one.
After_unwrapped(i) == i + 1
After(i) == (i + 1) % NPENDINGCALLS

VARIABLES
  pendingcalls, pendingfirst, pendinglast,
  things_to_do,
  Py_Ticker,       \* -1 stands for every negative value
  add_busy,        \* busy of Py_AddPendingCall
  is_tripped, tripped,
  interpreter_lock,  \* who holds it
  eval,            \* [Thread -> where its innermost evaluation of Python code is]
  tick,            \* [Thread -> _tick of DISPATCH]
  reg,             \* [Registrar -> where it is in a registration]
  nest,            \* [Thread -> Seq(Signal)]: the signal handlers on top of the thread
  making,          \* Py_MakePendingCalls, active unless its busy is 0
  scans            \* the activations of PyErr_CheckSignals in the main thread

ring == <<pendingcalls, pendingfirst, pendinglast>>
flags == <<is_tripped, tripped>>
thread == <<eval, tick, interpreter_lock>>
main == <<making, scans>>
vars == <<ring, things_to_do, Py_Ticker, add_busy, flags, thread, reg, nest, main>>

EvalPoints == {"opcode", "load", "store", "top", "look", "again", "yield", "want", "outside",
               "back"}
RegPoints == {"idle", "flag", "trip", "test", "set", "read", "full", "store", "publish", "tick",
              "todo", "release", "done"}
Registration == [pc : RegPoints, call : Call \cup {NoCall}, i : Slot]
Making == [pc : {"idle", "look", "take", "advance", "run", "called"},
           call : Call \cup {NoCall}, base : Nat]
Scan == [pc : {"clear", "scan", "handler"}, i : 1..(NSIG + 1), from : {"make", "code"}]
Idle == [pc |-> "idle", call |-> NoCall, i |-> 0]
NotMaking == [pc |-> "idle", call |-> NoCall, base |-> 0]
MakingNext(depth) == [pc |-> "look", call |-> NoCall, base |-> depth]

TypeOK ==
  /\ pendingcalls \in [Slot -> Call \cup {NoCall}]
  /\ pendingfirst \in Slot /\ pendinglast \in Slot
  /\ things_to_do \in BOOLEAN
  /\ Py_Ticker \in -1..Py_CheckInterval
  /\ add_busy \in BOOLEAN
  /\ is_tripped \in BOOLEAN /\ tripped \in [Signal -> BOOLEAN]
  /\ interpreter_lock \in Thread \cup {NoThread}
  /\ eval \in [Thread -> EvalPoints]
  /\ tick \in [Thread -> -1..Py_CheckInterval]
  /\ reg \in [Registrar -> Registration]
  /\ nest \in [Thread -> Seq(Signal)]
  /\ making \in Making
  /\ scans \in Seq(Scan)

Init ==
  /\ pendingcalls = [i \in Slot |-> NoCall] /\ pendingfirst = 0 /\ pendinglast = 0
  /\ things_to_do = FALSE /\ Py_Ticker = Py_CheckInterval /\ add_busy = FALSE
  /\ is_tripped = FALSE /\ tripped = [s \in Signal |-> FALSE]
  /\ interpreter_lock = Main
  /\ eval = [t \in Thread |-> IF t = Main THEN "opcode" ELSE "want"]
  /\ tick = [t \in Thread |-> 0]
  /\ reg = [r \in Registrar |-> Idle]
  /\ nest = [t \in Thread |-> <<>>]
  /\ making = NotMaking /\ scans = <<>>

-----------------------------------------------------------------------------
(* Who moves.                                                                *)

Last(s) == s[Len(s)]
Pop(s) == SubSeq(s, 1, Len(s) - 1)

\* The handler that interrupted a thread last runs; its thread and the handlers below wait.
Turn(r) == IF r \in Thread THEN nest[r] = <<>>
           ELSE \E t \in Thread : nest[t] # <<>> /\ Last(nest[t]) = r

\* What is on top of the C stack of the main thread: PyErr_CheckSignals(), or
\* Py_MakePendingCalls(), or Python code (a signal handler's or a pending call's, too).
ScanOnTop == scans # <<>> /\ (making.pc # "idle" => Len(scans) > making.base)
MakeOnTop == making.pc # "idle" /\ ~ScanOnTop
MainRunsPython ==
  IF ScanOnTop THEN Last(scans).pc = "handler"
  ELSE MakeOnTop => making.pc = "called" /\ making.call \in Job

InC(t) == interpreter_lock = t /\ nest[t] = <<>> /\ reg[t].pc = "idle"
InPython(t) == InC(t) /\ (t = Main => MainRunsPython)
At(t, here) == InPython(t) /\ eval[t] = here
To(t, there) == eval' = [eval EXCEPT ![t] = there]

-----------------------------------------------------------------------------
(* Registration.                                                             *)

Goto(r, pc) == reg' = [reg EXCEPT ![r].pc = pc]
RegFrame == <<thread, nest, main>>

\* The system delivers a signal: signal_handler() starts and sets its Handlers[].tripped.
\* (The signal is blocked until its handler has returned.)
Arrive(s, t) ==
  /\ t \in Hosts /\ reg[s].pc = "idle"
  /\ tripped' = [tripped EXCEPT ![s] = TRUE]
  /\ reg' = [reg EXCEPT ![s] = [pc |-> "flag", call |-> "check", i |-> 0]]
  /\ nest' = [nest EXCEPT ![t] = Append(@, s)]
  /\ UNCHANGED <<ring, things_to_do, Py_Ticker, add_busy, is_tripped, thread, main>>

Flag(s) ==
  /\ Turn(s) /\ reg[s].pc = "flag"
  /\ is_tripped' = TRUE
  /\ Goto(s, "test")
  /\ UNCHANGED <<ring, things_to_do, Py_Ticker, add_busy, tripped, RegFrame>>

\* PyErr_SetInterrupt() sets the two flags in the other order, with the lock held.
SetInterrupt(t) ==
  /\ t \in Interrupters /\ At(t, "opcode") /\ To(t, "load")
  /\ is_tripped' = TRUE
  /\ reg' = [reg EXCEPT ![t] = [pc |-> "trip", call |-> "check", i |-> 0]]
  /\ UNCHANGED <<ring, things_to_do, Py_Ticker, add_busy, tripped, tick, interpreter_lock, nest,
                 main>>

Trip(t) ==
  /\ Turn(t) /\ reg[t].pc = "trip"
  /\ tripped' = [tripped EXCEPT ![SIGINT] = TRUE]
  /\ Goto(t, "test")
  /\ UNCHANGED <<ring, things_to_do, Py_Ticker, add_busy, is_tripped, RegFrame>>

\* A thread registers a call of its own, with or without the interpreter lock.
Register(t, c) ==
  /\ c \in JobsOf[t] /\ Turn(t) /\ reg[t].pc = "idle"
  /\ (At(t, "opcode") /\ To(t, "load")) \/ (eval[t] = "outside" /\ UNCHANGED eval)
  /\ reg' = [reg EXCEPT ![t] = [pc |-> "test", call |-> c, i |-> 0]]
  /\ UNCHANGED <<ring, things_to_do, Py_Ticker, add_busy, flags, tick, interpreter_lock, nest,
                 main>>

TestBusy(r) ==
  /\ Turn(r) /\ reg[r].pc = "test"
  /\ Goto(r, IF add_busy THEN "done" ELSE "set")
  /\ UNCHANGED <<ring, things_to_do, Py_Ticker, add_busy, flags, RegFrame>>

SetBusy(r) ==
  /\ Turn(r) /\ reg[r].pc = "set"
  /\ add_busy' = TRUE
  /\ Goto(r, "read")
  /\ UNCHANGED <<ring, things_to_do, Py_Ticker, flags, RegFrame>>

\* A slip: the queue is never full.
ReadEnds_never_full(r) ==
  /\ Turn(r) /\ reg[r].pc = "read"
  /\ reg' = [reg EXCEPT ![r].i = pendinglast, ![r].pc = "store"]
  /\ UNCHANGED <<ring, things_to_do, Py_Ticker, add_busy, flags, RegFrame>>

ReadEnds(r) ==
  /\ Turn(r) /\ reg[r].pc = "read"
  /\ reg' = [reg EXCEPT ![r].i = pendinglast,
                        ![r].pc = IF After(pendinglast) = pendingfirst THEN "full" ELSE "store"]
  /\ UNCHANGED <<ring, things_to_do, Py_Ticker, add_busy, flags, RegFrame>>

Store(r) ==
  /\ Turn(r) /\ reg[r].pc = "store"
  /\ pendingcalls' = [pendingcalls EXCEPT ![reg[r].i] = reg[r].call]
  /\ Goto(r, "publish")
  /\ UNCHANGED <<pendingfirst, pendinglast, things_to_do, Py_Ticker, add_busy, flags, RegFrame>>

Publish(r) ==
  /\ Turn(r) /\ reg[r].pc = "publish"
  /\ pendinglast' = After(reg[r].i)
  /\ Goto(r, "tick")
  /\ UNCHANGED <<pendingcalls, pendingfirst, things_to_do, Py_Ticker, add_busy, flags, RegFrame>>

ZeroTicker(r) ==
  /\ Turn(r) /\ reg[r].pc = "tick"
  /\ Py_Ticker' = 0
  /\ Goto(r, "todo")
  /\ UNCHANGED <<ring, things_to_do, add_busy, flags, RegFrame>>

\* A slip: only the ticker tells the main loop.
SignalMainLoop_ticker_only(r) ==
  /\ Turn(r) /\ reg[r].pc = "todo"
  /\ Goto(r, "release")
  /\ UNCHANGED <<ring, things_to_do, Py_Ticker, add_busy, flags, RegFrame>>

SignalMainLoop(r) ==
  /\ Turn(r) /\ reg[r].pc = "todo"
  /\ things_to_do' = TRUE
  /\ Goto(r, "release")
  /\ UNCHANGED <<ring, Py_Ticker, add_busy, flags, RegFrame>>

ClearBusy(r) ==
  /\ Turn(r) /\ reg[r].pc \in {"full", "release"}
  /\ add_busy' = FALSE
  /\ Goto(r, "done")
  /\ UNCHANGED <<ring, things_to_do, Py_Ticker, flags, RegFrame>>

\* Back to what the registrar was called from.  The answer of Py_AddPendingCall() is ignored.
Leave(r) ==
  /\ Turn(r) /\ reg[r].pc = "done"
  /\ reg' = [reg EXCEPT ![r] = Idle]
  /\ nest' = [t \in Thread |-> IF r \in Signal /\ nest[t] # <<>> /\ Last(nest[t]) = r
                               THEN Pop(nest[t]) ELSE nest[t]]
  /\ UNCHANGED <<ring, things_to_do, Py_Ticker, add_busy, flags, thread, main>>

-----------------------------------------------------------------------------
(* The evaluation loop and the interpreter lock.                             *)

EvalFrame == <<ring, add_busy, flags, reg, nest, main>>

\* An opcode has been executed; most of them do nothing that matters here.  DISPATCH loads
\* _Py_Ticker, and stores what it loaded less one.
Load(t) ==
  /\ At(t, "opcode") \/ At(t, "load")
  /\ tick' = [tick EXCEPT ![t] = IF Py_Ticker = -1 THEN -1 ELSE Py_Ticker - 1]
  /\ To(t, "store")
  /\ UNCHANGED <<things_to_do, Py_Ticker, interpreter_lock, EvalFrame>>

Dispatch(t) ==
  /\ At(t, "store")
  /\ Py_Ticker' = tick[t]
  /\ To(t, IF tick[t] >= 0 THEN "opcode" ELSE "top")
  /\ tick' = [tick EXCEPT ![t] = 0]
  /\ UNCHANGED <<things_to_do, interpreter_lock, EvalFrame>>

\* The top of the loop.  Before a SETUP_FINALLY nothing periodic is done.
SkipPeriodic(t) ==
  /\ At(t, "top")
  /\ Py_Ticker' = -1
  /\ To(t, "load")
  /\ UNCHANGED <<things_to_do, tick, interpreter_lock, EvalFrame>>

\* _PyEval_HandlePyTickerExpired()
Expire(t) ==
  /\ At(t, "top")
  /\ Py_Ticker' = Py_CheckInterval
  /\ To(t, "look")
  /\ UNCHANGED <<things_to_do, tick, interpreter_lock, EvalFrame>>

\* Py_MakePendingCalls() does nothing in other threads, or when it is already active.
Look(t) ==
  /\ At(t, "look")
  /\ \/ ~things_to_do /\ To(t, "yield")
     \/ things_to_do /\ (t # Main \/ making.pc # "idle") /\ To(t, "again")
  /\ UNCHANGED <<things_to_do, Py_Ticker, tick, interpreter_lock, EvalFrame>>

Again(t) ==
  /\ At(t, "again")
  /\ Py_Ticker' = IF things_to_do THEN 0 ELSE Py_Ticker
  /\ To(t, "yield")
  /\ UNCHANGED <<things_to_do, tick, interpreter_lock, EvalFrame>>

\* The lock is given up: for another thread's sake, or around a blocking call.
Yield(t) ==
  /\ At(t, "yield") /\ To(t, "want")
  /\ interpreter_lock' = NoThread
  /\ UNCHANGED <<things_to_do, Py_Ticker, tick, EvalFrame>>

SaveThread(t) ==
  /\ At(t, "opcode") /\ To(t, "outside")
  /\ interpreter_lock' = NoThread
  /\ UNCHANGED <<things_to_do, Py_Ticker, tick, EvalFrame>>

ComeBack(t) ==
  /\ Turn(t) /\ reg[t].pc = "idle" /\ eval[t] = "outside"
  /\ To(t, "back")
  /\ UNCHANGED <<things_to_do, Py_Ticker, tick, interpreter_lock, EvalFrame>>

Acquire(t) ==
  /\ Turn(t) /\ reg[t].pc = "idle" /\ interpreter_lock = NoThread
  /\ \/ eval[t] = "want" /\ To(t, "opcode")
     \/ eval[t] = "back" /\ To(t, "load")
  /\ interpreter_lock' = t
  /\ UNCHANGED <<things_to_do, Py_Ticker, tick, EvalFrame>>

-----------------------------------------------------------------------------
(* Py_MakePendingCalls(), in the main thread.                                *)

MakeFrame == <<add_busy, flags, tick, interpreter_lock, reg, nest>>
MakeAt(pc) == InC(Main) /\ MakeOnTop /\ making.pc = pc

MakeBegin ==
  /\ At(Main, "look") /\ things_to_do /\ making.pc = "idle"
  /\ making' = MakingNext(Len(scans))
  /\ things_to_do' = FALSE
  /\ To(Main, "load")
  /\ UNCHANGED <<ring, Py_Ticker, scans, MakeFrame>>

MakeLook ==
  /\ MakeAt("look")
  /\ IF pendingfirst = pendinglast
     THEN making' = NotMaking /\ To(Main, "again")
     ELSE making' = [making EXCEPT !.pc = "take"] /\ UNCHANGED eval
  /\ UNCHANGED <<ring, things_to_do, Py_Ticker, scans, MakeFrame>>

MakeTake ==
  /\ MakeAt("take")
  /\ making' = [making EXCEPT !.pc = "advance", !.call = pendingcalls[pendingfirst]]
  /\ UNCHANGED <<ring, things_to_do, Py_Ticker, eval, scans, MakeFrame>>

MakeAdvance ==
  /\ MakeAt("advance")
  /\ pendingfirst' = After(pendingfirst)
  /\ making' = [making EXCEPT !.pc = "run"]
  /\ UNCHANGED <<pendingcalls, pendinglast, things_to_do, Py_Ticker, eval, scans, MakeFrame>>

\* The call is made.  It is a job, which may run Python code, or PyErr_CheckSignals(),
\* which returns at once when is_tripped is not set.
MakeCall ==
  /\ MakeAt("run")
  /\ \/ /\ making.call \in Job
        /\ making' = [making EXCEPT !.pc = "called"]
        /\ To(Main, "opcode")
        /\ UNCHANGED scans
     \/ /\ making.call = "check" /\ is_tripped
        /\ making' = [making EXCEPT !.pc = "called"]
        /\ scans' = Append(scans, [pc |-> "clear", i |-> 1, from |-> "make"])
        /\ UNCHANGED eval
     \/ /\ making.call = "check" /\ ~is_tripped
        /\ making' = MakingNext(making.base)
        /\ UNCHANGED <<scans, eval>>
  /\ UNCHANGED <<ring, things_to_do, Py_Ticker, MakeFrame>>

\* A slip: the calls behind one that failed are forgotten.
MakeReturned_forgets(ok) ==
  /\ making' = IF ok THEN MakingNext(making.base) ELSE NotMaking
  /\ UNCHANGED things_to_do

\* The call has returned, without an error or with one.
MakeReturned(ok) ==
  /\ making' = IF ok THEN MakingNext(making.base) ELSE NotMaking
  /\ things_to_do' = (things_to_do \/ ~ok)

JobReturns(ok) ==
  /\ MakeAt("called") /\ eval[Main] = "opcode" /\ To(Main, "load")
  /\ ok \/ MayFail
  /\ MakeReturned(ok)
  /\ UNCHANGED <<ring, Py_Ticker, scans, MakeFrame>>

-----------------------------------------------------------------------------
(* PyErr_CheckSignals(), in the main thread (it returns at once in others).  *)

ScanFrame == <<add_busy, tick, interpreter_lock, reg, nest, ring, Py_Ticker>>
ScanAt(pc) == InC(Main) /\ ScanOnTop /\ Last(scans).pc = pc
SetScan(new) == scans' = [scans EXCEPT ![Len(scans)] = new]

\* A C function that Python code calls checks for signals.
CheckSignals ==
  /\ At(Main, "opcode") /\ To(Main, "load")
  /\ is_tripped /\ Len(scans) < MaxScans
  /\ scans' = Append(scans, [pc |-> "clear", i |-> 1, from |-> "code"])
  /\ UNCHANGED <<things_to_do, flags, making, ScanFrame>>

ScanClear ==
  /\ ScanAt("clear")
  /\ is_tripped' = FALSE
  /\ SetScan([Last(scans) EXCEPT !.pc = "scan"])
  /\ UNCHANGED <<things_to_do, tripped, eval, making, ScanFrame>>

ScanNext ==
  LET i == Last(scans).i IN
  /\ ScanAt("scan") /\ i <= NSIG
  /\ \/ /\ tripped[i]
        /\ tripped' = [tripped EXCEPT ![i] = FALSE]
        /\ SetScan([Last(scans) EXCEPT !.pc = "handler"])
        /\ To(Main, "opcode")
     \/ /\ ~tripped[i]
        /\ SetScan([Last(scans) EXCEPT !.i = @ + 1])
        /\ UNCHANGED <<tripped, eval>>
  /\ UNCHANGED <<things_to_do, is_tripped, making, ScanFrame>>

ScanReturns(ok) ==
  /\ scans' = Pop(scans)
  /\ \/ Last(scans).from = "make" /\ MakeReturned(ok)
     \/ Last(scans).from = "code" /\ UNCHANGED <<making, things_to_do>>

\* A slip: is_tripped is cleared when everything has been handled.
ScanEnd_clears ==
  /\ ScanAt("scan") /\ Last(scans).i > NSIG
  /\ ScanReturns(TRUE)
  /\ is_tripped' = FALSE
  /\ UNCHANGED <<tripped, eval, ScanFrame>>

ScanEnd ==
  /\ ScanAt("scan") /\ Last(scans).i > NSIG
  /\ ScanReturns(TRUE)
  /\ UNCHANGED <<flags, eval, ScanFrame>>

\* The Python handler is done.
HandlerEnds == ScanAt("handler") /\ eval[Main] = "opcode" /\ To(Main, "load")

HandlerReturns ==
  /\ HandlerEnds
  /\ SetScan([Last(scans) EXCEPT !.pc = "scan", !.i = @ + 1])
  /\ UNCHANGED <<things_to_do, flags, making, ScanFrame>>

HandlerRaises ==
  /\ HandlerEnds /\ MayFail
  /\ ScanReturns(FALSE)
  /\ UNCHANGED <<flags, ScanFrame>>

-----------------------------------------------------------------------------
RegStep(r) ==
  \/ Flag(r) \/ Trip(r) \/ TestBusy(r) \/ SetBusy(r) \/ ReadEnds(r) \/ Store(r) \/ Publish(r)
  \/ ZeroTicker(r) \/ SignalMainLoop(r) \/ ClearBusy(r) \/ Leave(r)
EvalStep(t) == Load(t) \/ Dispatch(t) \/ Look(t) \/ Again(t) \/ Yield(t) \/ ComeBack(t)
MakeStep == MakeBegin \/ MakeLook \/ MakeTake \/ MakeAdvance \/ MakeCall
ScanStep == ScanClear \/ ScanNext \/ ScanEnd

\* Something is asked of the main thread.
Asked == \E t \in Thread : \/ \E s \in Signal : Arrive(s, t)
                           \/ \E c \in Job : Register(t, c)
                           \/ SetInterrupt(t)

Next ==
  \/ Asked
  \/ \E r \in Registrar : RegStep(r)
  \/ \E t \in Thread :
       EvalStep(t) \/ SkipPeriodic(t) \/ Expire(t) \/ SaveThread(t) \/ Acquire(t)
  \/ MakeStep \/ (\E ok \in BOOLEAN : JobReturns(ok))
  \/ CheckSignals \/ ScanStep \/ HandlerReturns \/ HandlerRaises

Spec == Init /\ [][Next]_vars

\* What the operating system and the program owe: a thread that can move does; the main
\* thread gets a lock that it finds free infinitely often; blocking calls, pending calls and
\* Python signal handlers return; SETUP_FINALLY is not all a program executes; at
\* last no more is asked.
Fairness ==
  /\ \A r \in Registrar : WF_vars(RegStep(r))
  /\ \A t \in Thread : WF_vars(EvalStep(t)) /\ SF_vars(Expire(t))
  /\ SF_vars(Acquire(Main))
  /\ WF_vars(MakeStep) /\ WF_vars(ScanStep)
  /\ SF_vars(JobReturns(TRUE) \/ HandlerReturns)
  /\ <>[][~Asked]_vars

FairSpec == Spec /\ Fairness

-----------------------------------------------------------------------------
(* Properties.                                                               *)

\* A registered call is noticed: while the queue is not empty, things_to_do is set, or is
\* about to be, or the main thread has yet to look at the queue again
\* (Py_MakePendingCalls() clears things_to_do before it looks, eval.cc:579).
CallsNoticed ==
  pendingfirst # pendinglast =>
    \/ things_to_do \/ making.pc # "idle"
    \/ \E r \in Registrar : reg[r].pc \in {"tick", "todo"}

\* is_tripped "speeds up sigcheck() when none tripped" (signalmodule.c:85): a tripped signal
\* is never hidden behind a cleared is_tripped, except from a handler that is about to set
\* it and a scan that has yet to come by.
SignalsSeen ==
  \A s \in Signal : tripped[s] =>
    \/ is_tripped \/ reg[s].pc = "flag"
    \/ \E k \in 1..Len(scans) :
         \/ scans[k].pc = "clear"
         \/ scans[k].pc = "scan" /\ scans[k].i <= s
         \/ scans[k].pc = "handler" /\ scans[k].i < s

\* The queue as CallQueue sees it.
Queued == [k \in 1..((pendinglast - pendingfirst) % NPENDINGCALLS) |->
             pendingcalls[(pendingfirst + k - 1) % NPENDINGCALLS]]
Running == IF making.pc \in {"run", "called"} THEN making.call ELSE NoCall
Queue == INSTANCE CallQueue WITH Capacity <- NPENDINGCALLS - 1, queue <- Queued, running <- Running

\* Calls are made in the order of their registration, each once, one at a time, and none
\* is lost ("If registry succeeds, the registry function returns 0", eval.cc:505).
ImplementsQueue == Queue!QueueSpec

\* Once no more is asked, every signal has been handled and every call made.
AllDone == <>[](pendingfirst = pendinglast /\ \A s \in Signal : ~tripped[s])
=============================================================================
