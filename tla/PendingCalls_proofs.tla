------------------------- MODULE PendingCalls_proofs -------------------------
(***************************************************************************)
(* What TLAPS proves of PendingCalls, for any threads, signals, calls and  *)
(* size of the queue.                                                      *)
(***************************************************************************)
EXTENDS PendingCalls, SequenceTheorems, TLAPS

\* What a scan's position says: it starts at the first signal and a handler is one of a signal.
ScansPlaced ==
  \A k \in 1..Len(scans) : /\ scans[k].pc = "clear" => scans[k].i = 1
                           /\ scans[k].pc = "handler" => scans[k].i <= NSIG

TypeInv == TypeOK /\ ScansPlaced

-----------------------------------------------------------------------------
(* Helpers.                                                                  *)

LEMMA AfterInSlot ==
  ASSUME NEW i \in Slot
  PROVE  After(i) \in Slot
BY ConstantsAssumption DEF After, Slot

\* The last element of a sequence, and the others.
LEMMA LastAndPop ==
  ASSUME NEW S, NEW s \in Seq(S), s # <<>>
  PROVE  /\ Len(s) \in Nat \ {0} /\ Last(s) \in S
         /\ Pop(s) \in Seq(S) /\ Len(Pop(s)) = Len(s) - 1
         /\ \A k \in 1..(Len(s) - 1) : Pop(s)[k] = s[k]
<1>1. Len(s) \in Nat \ {0}
  BY EmptySeq
<1>2. Last(s) \in S
  BY <1>1, ElementOfSeq DEF Last
<1>3. \A k \in 1..(Len(s) - 1) : s[k] \in S
  BY <1>1, ElementOfSeq
<1>4. PICK n \in Nat : n + 1 = Len(s)
  BY <1>1
<1>5. Pop(s) = SubSeq(s, 1, n)
  BY <1>4 DEF Pop
<1>6. /\ SubSeq(s, 1, n) \in Seq(S)
      /\ Len(SubSeq(s, 1, n)) = IF 1 <= n THEN n - 1 + 1 ELSE 0
      /\ \A k \in 1..(n - 1 + 1) : SubSeq(s, 1, n)[k] = s[1 + k - 1]
  <2>1. 1 \in Int /\ n \in Int /\ \A k \in 1..n : s[k] \in S
    BY <1>3, <1>4
  <2> QED
    BY <2>1, SubSeqProperties
<1>7. /\ n - 1 + 1 = n /\ Len(s) - 1 = n
      /\ \A k \in 1..n : 1 + k - 1 = k
      /\ (IF 1 <= n THEN n ELSE 0) = n
  BY <1>4
<1>8. /\ Pop(s) \in Seq(S) /\ Len(Pop(s)) = Len(s) - 1
      /\ \A k \in 1..(Len(s) - 1) : Pop(s)[k] = s[k]
  BY <1>5, <1>6, <1>7
<1> QED
  BY <1>1, <1>2, <1>8

-----------------------------------------------------------------------------
(* Type correctness.                                                         *)

LEMMA TypeInit == Init => TypeInv
<1> SUFFICES ASSUME Init PROVE TypeInv
  OBVIOUS
<1>1. 0 \in Slot
  BY ConstantsAssumption DEF Slot
<1>2. Idle \in Registration /\ NotMaking \in Making
  BY <1>1 DEF Idle, Registration, RegPoints, NotMaking, Making
<1>3. <<>> \in Seq(Signal) /\ <<>> \in Seq(Scan)
  BY EmptySeq
<1>4. eval \in [Thread -> EvalPoints] /\ Py_Ticker \in -1..Py_CheckInterval
  BY ConstantsAssumption DEF Init, EvalPoints
<1>5. tick \in [Thread -> -1..Py_CheckInterval]
  BY ConstantsAssumption DEF Init
<1>6. TypeOK
  BY <1>1, <1>2, <1>3, <1>4, <1>5, ConstantsAssumption DEF Init, TypeOK
<1>7. ScansPlaced
  BY DEF Init, ScansPlaced
<1> QED
  BY <1>6, <1>7 DEF TypeInv

\* Moving a registrar within its registration.
LEMMA GotoType ==
  ASSUME TypeOK, NEW r \in Registrar, NEW pc \in RegPoints, Goto(r, pc)
  PROVE  reg' \in [Registrar -> Registration]
BY DEF TypeOK, Goto, Registration

LEMMA TypeOfRegistration ==
  ASSUME TypeInv, NEW r \in Registrar, RegStep(r)
  PROVE  TypeInv'
<1> USE DEF TypeInv, ring, flags, thread, main, RegFrame
<1>0. scans' = scans => (ScansPlaced <=> ScansPlaced')
  BY DEF ScansPlaced
<1>1. CASE Flag(r)
  <2>1. reg' \in [Registrar -> Registration]
    BY <1>1, GotoType DEF Flag, RegPoints
  <2> QED
    BY <1>0, <1>1, <2>1 DEF Flag, TypeOK
<1>2. CASE Trip(r)
  <2>1. reg' \in [Registrar -> Registration]
    BY <1>2, GotoType DEF Trip, RegPoints
  <2> QED
    BY <1>0, <1>2, <2>1, ConstantsAssumption DEF Trip, TypeOK, Signal
<1>3. CASE TestBusy(r)
  <2>1. reg' \in [Registrar -> Registration]
    BY <1>3, GotoType DEF TestBusy, RegPoints
  <2> QED
    BY <1>0, <1>3, <2>1 DEF TestBusy, TypeOK
<1>4. CASE SetBusy(r)
  <2>1. reg' \in [Registrar -> Registration]
    BY <1>4, GotoType DEF SetBusy, RegPoints
  <2> QED
    BY <1>0, <1>4, <2>1 DEF SetBusy, TypeOK
<1>5. CASE ReadEnds(r)
  <2>1. reg' \in [Registrar -> Registration]
    <3> DEFINE pc == IF After(pendinglast) = pendingfirst THEN "full" ELSE "store"
    <3>1. pc \in RegPoints
      BY DEF RegPoints
    <3>2. reg' = [reg EXCEPT ![r] = [reg[r] EXCEPT !.i = pendinglast, !.pc = pc]]
      BY <1>5 DEF ReadEnds, TypeOK
    <3>3. [reg[r] EXCEPT !.i = pendinglast, !.pc = pc] \in Registration
      BY <3>1 DEF TypeOK, Registration
    <3> QED
      BY <3>2, <3>3 DEF TypeOK
  <2> QED
    BY <1>0, <1>5, <2>1 DEF ReadEnds, TypeOK
<1>6. CASE Store(r)
  <2>1. reg' \in [Registrar -> Registration]
    BY <1>6, GotoType DEF Store, RegPoints
  <2> QED
    BY <1>0, <1>6, <2>1 DEF Store, TypeOK, Registration
<1>7. CASE Publish(r)
  <2>1. reg' \in [Registrar -> Registration]
    BY <1>7, GotoType DEF Publish, RegPoints
  <2> QED
    BY <1>0, <1>7, <2>1, AfterInSlot DEF Publish, TypeOK, Registration
<1>8. CASE ZeroTicker(r)
  <2>1. reg' \in [Registrar -> Registration]
    BY <1>8, GotoType DEF ZeroTicker, RegPoints
  <2> QED
    BY <1>0, <1>8, <2>1, ConstantsAssumption DEF ZeroTicker, TypeOK
<1>9. CASE SignalMainLoop(r)
  <2>1. reg' \in [Registrar -> Registration]
    BY <1>9, GotoType DEF SignalMainLoop, RegPoints
  <2> QED
    BY <1>0, <1>9, <2>1 DEF SignalMainLoop, TypeOK
<1>10. CASE ClearBusy(r)
  <2>1. reg' \in [Registrar -> Registration]
    BY <1>10, GotoType DEF ClearBusy, RegPoints
  <2> QED
    BY <1>0, <1>10, <2>1 DEF ClearBusy, TypeOK
<1>11. CASE Leave(r)
  <2>1. reg' \in [Registrar -> Registration]
    <3>1. Idle \in Registration
      BY ConstantsAssumption DEF Idle, Registration, RegPoints, Slot
    <3> QED
      BY <1>11, <3>1 DEF Leave, TypeOK
  <2>2. nest' \in [Thread -> Seq(Signal)]
    BY <1>11, LastAndPop DEF Leave, TypeOK
  <2> QED
    BY <1>0, <1>11, <2>1, <2>2 DEF Leave, TypeOK
<1> QED
  BY <1>1, <1>2, <1>3, <1>4, <1>5, <1>6, <1>7, <1>8, <1>9, <1>10, <1>11 DEF RegStep

LEMMA TypeOfAsked == TypeInv /\ Asked => TypeInv'
<1> SUFFICES ASSUME TypeInv, NEW t \in Thread,
                    \/ \E s \in Signal : Arrive(s, t)
                    \/ \E c \in Job : Register(t, c)
                    \/ SetInterrupt(t)
             PROVE  TypeInv'
  BY DEF Asked
<1> USE DEF TypeInv, ring, flags, thread, main
<1>0. scans' = scans => (ScansPlaced <=> ScansPlaced')
  BY DEF ScansPlaced
<1>1. \A pc \in {"flag", "trip", "test"}, c \in Call : [pc |-> pc, call |-> c, i |-> 0] \in Registration
  BY ConstantsAssumption DEF Registration, RegPoints, Slot
<1>2. To(t, "load") => eval' \in [Thread -> EvalPoints]
  BY DEF To, TypeOK, EvalPoints
<1>3. "check" \in Call /\ Job \subseteq Call /\ Thread \subseteq Registrar /\ Signal \subseteq Registrar
  BY DEF Call, Registrar
<1>4. ASSUME NEW s \in Signal, Arrive(s, t) PROVE TypeInv'
  <2>1. nest' \in [Thread -> Seq(Signal)]
    BY <1>4, AppendProperties DEF Arrive, TypeOK
  <2>2. reg' \in [Registrar -> Registration]
    BY <1>4, <1>1, <1>3 DEF Arrive, TypeOK
  <2> QED
    BY <1>0, <1>4, <2>1, <2>2 DEF Arrive, TypeOK
<1>5. ASSUME NEW c \in Job, Register(t, c) PROVE TypeInv'
  <2>1. reg' \in [Registrar -> Registration]
    BY <1>5, <1>1, <1>3 DEF Register, TypeOK
  <2> QED
    BY <1>0, <1>2, <1>5, <2>1 DEF Register, TypeOK
<1>6. CASE SetInterrupt(t)
  <2>1. reg' \in [Registrar -> Registration]
    BY <1>6, <1>1, <1>3 DEF SetInterrupt, TypeOK
  <2> QED
    BY <1>0, <1>2, <1>6, <2>1 DEF SetInterrupt, TypeOK
<1> QED
  BY <1>4, <1>5, <1>6

\* The evaluation loop and the lock.
EvalLoopStep(t) ==
  EvalStep(t) \/ SkipPeriodic(t) \/ Expire(t) \/ SaveThread(t) \/ Acquire(t)

LEMMA TypeOfEvalLoop ==
  ASSUME TypeInv, NEW t \in Thread, EvalLoopStep(t)
  PROVE  TypeInv'
<1> USE DEF TypeInv, ring, flags, main, EvalFrame
<1>0. scans' = scans => (ScansPlaced <=> ScansPlaced')
  BY DEF ScansPlaced
<1>1. \A there \in EvalPoints : To(t, there) => eval' \in [Thread -> EvalPoints]
  BY DEF To, TypeOK
<1>2. {"opcode", "load", "store", "top", "look", "again", "yield", "want", "outside", "back"}
        = EvalPoints
  BY DEF EvalPoints
<1>3. /\ -1 \in -1..Py_CheckInterval /\ 0 \in -1..Py_CheckInterval
      /\ Py_CheckInterval \in -1..Py_CheckInterval
  BY ConstantsAssumption
<1>4. CASE Load(t)
  <2>1. (IF Py_Ticker = -1 THEN -1 ELSE Py_Ticker - 1) \in -1..Py_CheckInterval
    BY ConstantsAssumption DEF TypeOK
  <2>2. tick' \in [Thread -> -1..Py_CheckInterval]
    BY <1>4, <2>1 DEF Load, TypeOK
  <2> QED
    BY <1>0, <1>1, <1>2, <1>4, <2>2 DEF Load, TypeOK
<1>5. CASE Dispatch(t)
  BY <1>0, <1>1, <1>2, <1>3, <1>5 DEF Dispatch, TypeOK
<1>6. CASE Look(t)
  BY <1>0, <1>1, <1>2, <1>3, <1>6 DEF Look, TypeOK
<1>7. CASE Again(t)
  BY <1>0, <1>1, <1>2, <1>3, <1>7 DEF Again, TypeOK
<1>8. CASE Yield(t)
  BY <1>0, <1>1, <1>2, <1>3, <1>8 DEF Yield, TypeOK
<1>9. CASE ComeBack(t)
  BY <1>0, <1>1, <1>2, <1>3, <1>9 DEF ComeBack, TypeOK
<1>10. CASE SkipPeriodic(t)
  BY <1>0, <1>1, <1>2, <1>3, <1>10 DEF SkipPeriodic, TypeOK
<1>11. CASE Expire(t)
  BY <1>0, <1>1, <1>2, <1>3, <1>11 DEF Expire, TypeOK
<1>12. CASE SaveThread(t)
  BY <1>0, <1>1, <1>2, <1>3, <1>12 DEF SaveThread, TypeOK
<1>13. CASE Acquire(t)
  BY <1>0, <1>1, <1>2, <1>3, <1>13 DEF Acquire, TypeOK
<1> QED
  BY <1>4, <1>5, <1>6, <1>7, <1>8, <1>9, <1>10, <1>11, <1>12, <1>13 DEF EvalLoopStep, EvalStep

LEMMA TypeOfReturned ==
  ASSUME TypeOK, NEW ok \in BOOLEAN, MakeReturned(ok)
  PROVE  making' \in Making /\ things_to_do' \in BOOLEAN
BY DEF TypeOK, MakeReturned, MakingNext, NotMaking, Making

\* What the ways scans changes do to it: a new activation, one that moves, one that returns.
LEMMA NewScan ==
  ASSUME TypeInv, NEW from \in {"make", "code"},
         scans' = Append(scans, [pc |-> "clear", i |-> 1, from |-> from])
  PROVE  scans' \in Seq(Scan) /\ ScansPlaced'
<1> DEFINE new == [pc |-> "clear", i |-> 1, from |-> from]
<1>1. new \in Scan
  BY ConstantsAssumption DEF Scan
<1>2. Len(scans) \in Nat
  BY LenProperties DEF TypeInv, TypeOK
<1>3. /\ scans' \in Seq(Scan) /\ Len(scans') = Len(scans) + 1
      /\ \A k \in 1..Len(scans) : scans'[k] = scans[k]
      /\ scans'[Len(scans) + 1] = new
  BY <1>1, AppendProperties DEF TypeInv, TypeOK
<1>4. \A k \in 1..Len(scans') : k \in 1..Len(scans) \/ k = Len(scans) + 1
  BY <1>2, <1>3
<1> QED
  BY <1>3, <1>4 DEF TypeInv, ScansPlaced

LEMMA MovedScan ==
  ASSUME TypeInv, scans # <<>>, NEW new \in Scan, SetScan(new),
         new.pc # "clear", new.pc = "handler" => new.i <= NSIG
  PROVE  scans' \in Seq(Scan) /\ ScansPlaced'
<1>1. Len(scans) \in Nat \ {0}
  BY LastAndPop DEF TypeInv, TypeOK
<1>2. /\ scans' \in Seq(Scan) /\ Len(scans') = Len(scans)
      /\ \A k \in 1..Len(scans) : scans'[k] = IF k = Len(scans) THEN new ELSE scans[k]
  BY <1>1, ExceptSeq DEF TypeInv, TypeOK, SetScan
<1> QED
  BY <1>2 DEF TypeInv, ScansPlaced

LEMMA PoppedScan ==
  ASSUME TypeInv, scans # <<>>, scans' = Pop(scans)
  PROVE  scans' \in Seq(Scan) /\ ScansPlaced'
<1>1. /\ Len(scans) \in Nat \ {0} /\ scans' \in Seq(Scan) /\ Len(scans') = Len(scans) - 1
      /\ \A k \in 1..(Len(scans) - 1) : scans'[k] = scans[k]
  BY LastAndPop DEF TypeInv, TypeOK
<1>2. \A k \in 1..Len(scans') : k \in 1..Len(scans) /\ scans'[k] = scans[k]
  BY <1>1
<1> QED
  BY <1>1, <1>2 DEF TypeInv, ScansPlaced

\* Py_MakePendingCalls().
Makes == MakeStep \/ \E ok \in BOOLEAN : JobReturns(ok)

LEMMA TypeOfMakes == TypeInv /\ Makes => TypeInv'
<1> SUFFICES ASSUME TypeInv, Makes PROVE TypeInv'
  OBVIOUS
<1> USE DEF TypeInv, ring, flags, MakeFrame
<1>0. scans' = scans => (ScansPlaced <=> ScansPlaced')
  BY DEF ScansPlaced
<1>1. \A there \in EvalPoints : To(Main, there) => eval' \in [Thread -> EvalPoints]
  BY ConstantsAssumption DEF To, TypeOK
<1>2. "load" \in EvalPoints /\ "opcode" \in EvalPoints /\ "again" \in EvalPoints
  BY DEF EvalPoints
<1>3. NotMaking \in Making /\ MakingNext(making.base) \in Making /\ MakingNext(Len(scans)) \in Making
  BY LenProperties DEF TypeOK, NotMaking, MakingNext, Making
<1>4. CASE MakeBegin
  BY <1>0, <1>1, <1>2, <1>3, <1>4 DEF MakeBegin, TypeOK
<1>5. CASE MakeLook
  <2>1. [making EXCEPT !.pc = "take"] \in Making
    BY DEF TypeOK, Making
  <2> QED
    BY <1>0, <1>1, <1>2, <1>3, <1>5, <2>1 DEF MakeLook, TypeOK
<1>6. CASE MakeTake
  <2>1. pendingcalls[pendingfirst] \in Call \cup {NoCall}
    BY DEF TypeOK
  <2>2. [making EXCEPT !.pc = "advance", !.call = pendingcalls[pendingfirst]] \in Making
    BY <2>1 DEF TypeOK, Making
  <2> QED
    BY <1>0, <1>6, <2>2 DEF MakeTake, TypeOK
<1>7. CASE MakeAdvance
  <2>1. [making EXCEPT !.pc = "run"] \in Making
    BY DEF TypeOK, Making
  <2> QED
    BY <1>0, <1>7, <2>1, AfterInSlot DEF MakeAdvance, TypeOK
<1>8. CASE MakeCall
  <2>1. [making EXCEPT !.pc = "called"] \in Making
    BY DEF TypeOK, Making
  <2>2. ASSUME scans' = Append(scans, [pc |-> "clear", i |-> 1, from |-> "make"])
        PROVE  scans' \in Seq(Scan) /\ ScansPlaced'
    BY <2>2, NewScan
  <2>3. CASE making.call \in Job /\ UNCHANGED scans
    BY <1>0, <1>1, <1>2, <1>3, <1>8, <2>1, <2>3 DEF MakeCall, TypeOK
  <2>4. CASE scans' = Append(scans, [pc |-> "clear", i |-> 1, from |-> "make"])
    BY <1>1, <1>2, <1>3, <1>8, <2>1, <2>2, <2>4 DEF MakeCall, TypeOK
  <2>5. CASE UNCHANGED <<scans, eval>>
    BY <1>0, <1>3, <1>8, <2>1, <2>5 DEF MakeCall, TypeOK
  <2> QED
    BY <1>8, <2>3, <2>4, <2>5 DEF MakeCall
<1>9. ASSUME NEW ok \in BOOLEAN, JobReturns(ok) PROVE TypeInv'
  BY <1>0, <1>1, <1>2, <1>9, TypeOfReturned DEF JobReturns, TypeOK
<1> QED
  BY <1>4, <1>5, <1>6, <1>7, <1>8, <1>9 DEF Makes, MakeStep

\* PyErr_CheckSignals().
Scans == CheckSignals \/ ScanStep \/ HandlerReturns \/ HandlerRaises

LEMMA TypeOfScans == TypeInv /\ Scans => TypeInv'
<1> SUFFICES ASSUME TypeInv, Scans PROVE TypeInv'
  OBVIOUS
<1> USE DEF TypeInv, ring, flags, ScanFrame
<1>1. \A there \in EvalPoints : To(Main, there) => eval' \in [Thread -> EvalPoints]
  BY ConstantsAssumption DEF To, TypeOK
<1>2. "load" \in EvalPoints /\ "opcode" \in EvalPoints
  BY DEF EvalPoints
<1>3. CASE CheckSignals
  BY <1>1, <1>2, <1>3, NewScan DEF CheckSignals, TypeOK
<1>4. CASE ScanClear
  <2>1. scans # <<>> /\ Last(scans).pc = "clear"
    BY <1>4 DEF ScanClear, ScanAt, ScanOnTop
  <2>2. Last(scans) \in Scan
    BY <2>1, LastAndPop DEF TypeOK
  <2>3. /\ [Last(scans) EXCEPT !.pc = "scan"] \in Scan
        /\ [Last(scans) EXCEPT !.pc = "scan"].pc = "scan"
    BY <2>2 DEF Scan
  <2>4. scans' \in Seq(Scan) /\ ScansPlaced'
    BY <1>4, <2>1, <2>3, MovedScan DEF ScanClear
  <2> QED
    BY <1>4, <2>4 DEF ScanClear, TypeOK
<1>5. CASE ScanNext
  <2> DEFINE last == Last(scans)
  <2>1. scans # <<>> /\ last.pc = "scan" /\ last.i <= NSIG /\ last \in Scan
    BY <1>5, LastAndPop DEF ScanNext, ScanAt, ScanOnTop, TypeOK
  <2>2. /\ [last EXCEPT !.pc = "handler"] \in Scan
        /\ [last EXCEPT !.pc = "handler"].i <= NSIG /\ [last EXCEPT !.pc = "handler"].pc = "handler"
    BY <2>1 DEF Scan
  <2>3. [last EXCEPT !.i = @ + 1] \in Scan /\ [last EXCEPT !.i = @ + 1].pc = "scan"
    BY <2>1, ConstantsAssumption DEF Scan
  <2>4. CASE SetScan([last EXCEPT !.pc = "handler"])
    <3>1. scans' \in Seq(Scan) /\ ScansPlaced'
      BY <2>1, <2>2, <2>4, MovedScan
    <3> QED
      BY <1>1, <1>2, <1>5, <3>1 DEF ScanNext, TypeOK
  <2>5. CASE SetScan([last EXCEPT !.i = @ + 1])
    <3>1. scans' \in Seq(Scan) /\ ScansPlaced'
      BY <2>1, <2>3, <2>5, MovedScan
    <3> QED
      BY <1>1, <1>2, <1>5, <3>1 DEF ScanNext, TypeOK
  <2> QED
    BY <1>5, <2>4, <2>5 DEF ScanNext
<1>6. ASSUME NEW ok \in BOOLEAN, scans # <<>>, ScanReturns(ok)
      PROVE  /\ making' \in Making /\ things_to_do' \in BOOLEAN
             /\ scans' \in Seq(Scan) /\ ScansPlaced'
  BY <1>6, TypeOfReturned, PoppedScan DEF ScanReturns, TypeOK
<1>7. CASE ScanEnd
  BY <1>6, <1>7 DEF ScanEnd, ScanAt, ScanOnTop, TypeOK
<1>8. CASE HandlerReturns
  <2> DEFINE last == Last(scans)
  <2>1. scans # <<>> /\ last.pc = "handler" /\ last \in Scan
    BY <1>8, LastAndPop DEF HandlerReturns, HandlerEnds, ScanAt, ScanOnTop, TypeOK
  <2>2. last.i <= NSIG
    <3>1. Len(scans) \in 1..Len(scans)
      BY <2>1, LastAndPop DEF TypeOK
    <3> QED
      BY <2>1, <3>1 DEF ScansPlaced, Last
  <2>3. /\ [last EXCEPT !.pc = "scan", !.i = @ + 1] \in Scan
        /\ [last EXCEPT !.pc = "scan", !.i = @ + 1].pc = "scan"
    <3>1. last.i + 1 \in 1..(NSIG + 1)
      BY <2>1, <2>2, ConstantsAssumption DEF Scan
    <3> QED
      BY <2>1, <3>1 DEF Scan
  <2>4. scans' \in Seq(Scan) /\ ScansPlaced'
    BY <1>8, <2>1, <2>3, MovedScan DEF HandlerReturns
  <2> QED
    BY <1>1, <1>2, <1>8, <2>4 DEF HandlerReturns, HandlerEnds, TypeOK
<1>9. CASE HandlerRaises
  BY <1>1, <1>2, <1>6, <1>9 DEF HandlerRaises, HandlerEnds, ScanAt, ScanOnTop, TypeOK
<1> QED
  BY <1>3, <1>4, <1>5, <1>7, <1>8, <1>9 DEF Scans, ScanStep

\* The steps, grouped.
LEMMA NextIsGrouped ==
  Next => \/ Asked
          \/ \E r \in Registrar : RegStep(r)
          \/ \E t \in Thread : EvalLoopStep(t)
          \/ Makes
          \/ Scans
BY DEF Next, EvalLoopStep, Makes, Scans

LEMMA TypeNext == TypeInv /\ [Next]_vars => TypeInv'
<1> SUFFICES ASSUME TypeInv, [Next]_vars PROVE TypeInv'
  OBVIOUS
<1>1. CASE Next
  BY <1>1, NextIsGrouped, TypeOfAsked, TypeOfRegistration, TypeOfEvalLoop, TypeOfMakes, TypeOfScans
<1>2. CASE UNCHANGED vars
  BY <1>2 DEF TypeInv, TypeOK, ScansPlaced, vars, ring, flags, thread, main
<1> QED
  BY <1>1, <1>2

\* Every variable keeps its type, whatever the interleaving: the ends of the ring stay in it,
\* and PyErr_CheckSignals() never looks past the last signal (signalmodule.c:862).
THEOREM PendingCallsTypeCorrect == Spec => []TypeOK
<1>1. Spec => []TypeInv
  BY TypeInit, TypeNext, PTL DEF Spec
<1>2. TypeInv => TypeOK
  BY DEF TypeInv
<1> QED
  BY <1>1, <1>2, PTL

-----------------------------------------------------------------------------
(* Registered calls are noticed.                                             *)

NoticedInv == TypeInv /\ CallsNoticed

\* Some registration has published its call and has yet to tell the main loop.
Telling == \E r \in Registrar : reg[r].pc \in {"tick", "todo"}

LEMMA NoticedAsked == NoticedInv /\ Asked => CallsNoticed'
<1> SUFFICES ASSUME NoticedInv, NEW t \in Thread,
                    \/ \E s \in Signal : Arrive(s, t)
                    \/ \E c \in Job : Register(t, c)
                    \/ SetInterrupt(t)
             PROVE  CallsNoticed'
  BY DEF Asked
<1> USE DEF NoticedInv, TypeInv, TypeOK
<1>1. UNCHANGED <<ring, things_to_do, main>>
  BY DEF Arrive, Register, SetInterrupt, main
<1> DEFINE Starts(q) == \E x \in Registration : reg[q].pc = "idle" /\ reg' = [reg EXCEPT ![q] = x]
<1>2. \E q \in Registrar : Starts(q)
  <2>0. \A pc \in {"flag", "trip", "test"}, c \in Call :
          [pc |-> pc, call |-> c, i |-> 0] \in Registration
    BY ConstantsAssumption, SMTT(30) DEF Registration, RegPoints, Slot
  <2>1. "check" \in Call /\ Job \subseteq Call /\ Thread \subseteq Registrar /\ Signal \subseteq Registrar
    BY DEF Call, Registrar
  <2>2. ASSUME NEW s \in Signal, Arrive(s, t) PROVE Starts(s)
    BY <2>0, <2>1, <2>2 DEF Arrive
  <2>3. ASSUME NEW c \in Job, Register(t, c) PROVE Starts(t)
    BY <2>0, <2>1, <2>3 DEF Register
  <2>4. ASSUME SetInterrupt(t) PROVE Starts(t)
    BY <2>0, <2>1, <2>4 DEF SetInterrupt, At, InPython, InC
  <2> QED
    BY <2>1, <2>2, <2>3, <2>4
<1>3. Telling => Telling'
  BY <1>2 DEF Telling
<1> QED
  BY <1>1, <1>3 DEF CallsNoticed, Telling, ring, main

LEMMA NoticedRegistration ==
  ASSUME NoticedInv, NEW r \in Registrar, RegStep(r)
  PROVE  CallsNoticed'
<1> USE DEF NoticedInv, TypeInv, TypeOK
<1>1. UNCHANGED making
  BY DEF RegStep, Flag, Trip, TestBusy, SetBusy, ReadEnds, Store, Publish, ZeroTicker,
         SignalMainLoop, ClearBusy, Leave, RegFrame, main
<1>2. CASE Publish(r) \/ ZeroTicker(r)
  <2>1. reg'[r].pc \in {"tick", "todo"}
    BY <1>2 DEF Publish, ZeroTicker, Goto, Registration
  <2> QED
    BY <2>1 DEF CallsNoticed
<1>3. CASE SignalMainLoop(r)
  BY <1>3 DEF SignalMainLoop, CallsNoticed
<1>4. ASSUME \/ Flag(r) \/ Trip(r) \/ TestBusy(r) \/ SetBusy(r) \/ ReadEnds(r) \/ Store(r)
             \/ ClearBusy(r) \/ Leave(r)
      PROVE  CallsNoticed'
  <2>1. /\ UNCHANGED <<pendingfirst, pendinglast, things_to_do>>
        /\ reg[r].pc \notin {"tick", "todo"}
        /\ \A q \in Registrar \ {r} : reg'[q] = reg[q]
    BY <1>4 DEF Flag, Trip, TestBusy, SetBusy, ReadEnds, Store, ClearBusy, Leave, Goto, ring
  <2>2. Telling => Telling'
    BY <2>1 DEF Telling
  <2> QED
    BY <1>1, <2>1, <2>2 DEF CallsNoticed, Telling
<1> QED
  BY <1>2, <1>3, <1>4 DEF RegStep

LEMMA NoticedEvalLoop ==
  ASSUME NoticedInv, NEW t \in Thread, EvalLoopStep(t)
  PROVE  CallsNoticed'
<1>1. UNCHANGED <<pendingfirst, pendinglast, things_to_do, making, reg>>
  BY DEF EvalLoopStep, EvalStep, Load, Dispatch, Look, Again, Yield, ComeBack, SkipPeriodic,
         Expire, SaveThread, Acquire, EvalFrame, ring, main
<1> QED
  BY <1>1 DEF NoticedInv, CallsNoticed

\* Py_MakePendingCalls() is given up only with things_to_do set again.
LEMMA NoticedReturned ==
  ASSUME NEW ok \in BOOLEAN, MakeReturned(ok)
  PROVE  things_to_do' \/ making'.pc # "idle"
BY DEF MakeReturned, MakingNext

LEMMA NoticedMakes == NoticedInv /\ Makes => CallsNoticed'
<1> SUFFICES ASSUME NoticedInv, Makes PROVE CallsNoticed'
  OBVIOUS
<1> USE DEF NoticedInv, TypeInv, TypeOK
<1>1. CASE MakeBegin
  BY <1>1 DEF MakeBegin, MakingNext, CallsNoticed
<1>2. CASE MakeLook /\ pendingfirst = pendinglast
  BY <1>2 DEF MakeLook, ring, CallsNoticed
<1>3. CASE MakeLook /\ pendingfirst # pendinglast
  BY <1>3 DEF MakeLook, Making, CallsNoticed
<1>4. CASE MakeTake
  BY <1>4 DEF MakeTake, Making, CallsNoticed
<1>5. CASE MakeAdvance
  BY <1>5 DEF MakeAdvance, Making, CallsNoticed
<1>6. CASE MakeCall
  BY <1>6 DEF MakeCall, MakingNext, Making, CallsNoticed
<1>7. ASSUME NEW ok \in BOOLEAN, JobReturns(ok) PROVE CallsNoticed'
  BY <1>7, NoticedReturned DEF JobReturns, CallsNoticed
<1> QED
  BY <1>1, <1>2, <1>3, <1>4, <1>5, <1>6, <1>7 DEF Makes, MakeStep

LEMMA NoticedScans == NoticedInv /\ Scans => CallsNoticed'
<1> SUFFICES ASSUME NoticedInv, Scans PROVE CallsNoticed'
  OBVIOUS
<1>1. UNCHANGED <<pendingfirst, pendinglast, reg>>
  BY DEF Scans, ScanStep, CheckSignals, ScanClear, ScanNext, ScanEnd, HandlerReturns,
         HandlerRaises, ScanFrame, ring
<1>2. \/ UNCHANGED <<making, things_to_do>>
      \/ things_to_do' \/ making'.pc # "idle"
  BY NoticedReturned
  DEF Scans, ScanStep, CheckSignals, ScanClear, ScanNext, ScanEnd, HandlerReturns,
      HandlerRaises, ScanReturns
<1> QED
  BY <1>1, <1>2 DEF NoticedInv, CallsNoticed

\* A registered call is noticed: the main loop is told of it, or is about to be, or the main
\* thread has yet to look at the queue again, although Py_MakePendingCalls() clears
\* things_to_do before it takes the calls and stops at the first that fails
\* (eval.cc:576-594).  This is so with any number of threads and signals that register.
THEOREM EveryCallNoticed == Spec => []CallsNoticed
<1>1. Init => NoticedInv
  BY TypeInit DEF NoticedInv, Init, CallsNoticed
<1>2. NoticedInv /\ [Next]_vars => NoticedInv'
  <2> SUFFICES ASSUME NoticedInv, [Next]_vars PROVE NoticedInv'
    OBVIOUS
  <2>1. TypeInv'
    BY TypeNext DEF NoticedInv
  <2>2. CASE Next
    BY <2>1, <2>2, NextIsGrouped, NoticedAsked, NoticedRegistration, NoticedEvalLoop,
       NoticedMakes, NoticedScans DEF NoticedInv
  <2>3. CASE UNCHANGED vars
    BY <2>1, <2>3 DEF NoticedInv, CallsNoticed, vars, ring, main
  <2> QED
    BY <2>2, <2>3
<1>3. NoticedInv => CallsNoticed
  BY DEF NoticedInv
<1> QED
  BY <1>1, <1>2, <1>3, PTL DEF Spec

-----------------------------------------------------------------------------
(* No tripped signal is hidden.                                              *)

\* A thread in PyErr_SetInterrupt() has set is_tripped and keeps the interpreter lock, so
\* that no scan can clear is_tripped before the signal is tripped.
InterruptHoldsLock ==
  \A r \in Registrar :
    reg[r].pc = "trip" => r \in Thread /\ is_tripped /\ interpreter_lock = r

SeenInv == TypeInv /\ SignalsSeen /\ InterruptHoldsLock

\* An activation of PyErr_CheckSignals() that has yet to look at s.
ComesBy(s, x) == \/ x.pc = "clear"
                 \/ x.pc = "scan" /\ x.i <= s
                 \/ x.pc = "handler" /\ x.i < s
Scanned(s) == \E k \in 1..Len(scans) : ComesBy(s, scans[k])

LEMMA SeenMeans ==
  SignalsSeen <=> \A s \in Signal : tripped[s] => is_tripped \/ reg[s].pc = "flag" \/ Scanned(s)
BY DEF SignalsSeen, Scanned, ComesBy

LEMMA SeenMeansNext ==
  SignalsSeen' <=>
    \A s \in Signal : tripped'[s] => is_tripped' \/ reg'[s].pc = "flag" \/ Scanned(s)'
BY DEF SignalsSeen, Scanned, ComesBy

\* What becomes of the activations that have yet to look at a signal.
LEMMA KeptScan ==
  ASSUME TypeInv, NEW from \in {"make", "code"},
         scans' = Append(scans, [pc |-> "clear", i |-> 1, from |-> from]),
         NEW s \in Signal, Scanned(s)
  PROVE  Scanned(s)'
<1>1. [pc |-> "clear", i |-> 1, from |-> from] \in Scan
  BY ConstantsAssumption DEF Scan
<1>2. /\ Len(scans) \in Nat /\ Len(scans') = Len(scans) + 1
      /\ \A k \in 1..Len(scans) : scans'[k] = scans[k]
  BY <1>1, AppendProperties, LenProperties DEF TypeInv, TypeOK
<1> QED
  BY <1>2 DEF Scanned

LEMMA PlacedScan ==
  ASSUME TypeInv, scans # <<>>, NEW new \in Scan, SetScan(new)
  PROVE  /\ Len(scans') = Len(scans) /\ scans'[Len(scans)] = new
         /\ \A k \in 1..Len(scans) : k # Len(scans) => scans'[k] = scans[k]
<1>1. Len(scans) \in Nat \ {0}
  BY LastAndPop DEF TypeInv, TypeOK
<1> QED
  BY <1>1, ExceptSeq DEF TypeInv, TypeOK, SetScan

LEMMA ReplacedScan ==
  ASSUME TypeInv, scans # <<>>, NEW new \in Scan, SetScan(new),
         NEW s \in Signal, Scanned(s), ComesBy(s, Last(scans)) => ComesBy(s, new)
  PROVE  Scanned(s)'
<1>1. PICK k \in 1..Len(scans) : ComesBy(s, scans[k])
  BY DEF Scanned
<1>2. CASE k = Len(scans)
  BY <1>1, <1>2, PlacedScan DEF Scanned, Last
<1>3. CASE k # Len(scans)
  BY <1>1, <1>3, PlacedScan DEF Scanned
<1> QED
  BY <1>2, <1>3

LEMMA SeenAsked == SeenInv /\ Asked => SignalsSeen' /\ InterruptHoldsLock'
<1> SUFFICES ASSUME SeenInv, NEW t \in Thread,
                    \/ \E s \in Signal : Arrive(s, t)
                    \/ \E c \in Job : Register(t, c)
                    \/ SetInterrupt(t)
             PROVE  SignalsSeen' /\ InterruptHoldsLock'
  BY DEF Asked
<1> USE DEF SeenInv, TypeInv, TypeOK, flags
<1>0. Registrar = Thread \cup Signal /\ Thread \cap Signal = {}
  BY ConstantsAssumption DEF Registrar, Signal
<1>1. ASSUME scans' = scans, NEW s \in Signal, Scanned(s) PROVE Scanned(s)'
  BY <1>1 DEF Scanned, ComesBy
<1>2. ASSUME NEW s \in Signal, Arrive(s, t) PROVE SignalsSeen' /\ InterruptHoldsLock'
  <2>1. /\ reg'[s].pc = "flag" /\ \A r \in Registrar \ {s} : reg'[r] = reg[r]
        /\ \A q \in Signal \ {s} : tripped'[q] = tripped[q]
        /\ UNCHANGED <<is_tripped, interpreter_lock, scans>>
    BY <1>0, <1>2 DEF Arrive, thread, main
  <2>2. SignalsSeen'
    BY <1>0, <1>1, <2>1, SeenMeans, SeenMeansNext
  <2>3. InterruptHoldsLock'
    BY <1>0, <2>1 DEF InterruptHoldsLock
  <2> QED
    BY <2>2, <2>3
<1>3. ASSUME NEW c \in Job, Register(t, c) PROVE SignalsSeen' /\ InterruptHoldsLock'
  <2>1. /\ reg'[t].pc = "test" /\ \A r \in Registrar \ {t} : reg'[r] = reg[r]
        /\ UNCHANGED <<is_tripped, tripped, interpreter_lock, scans>>
    BY <1>0, <1>3 DEF Register, main
  <2>2. SignalsSeen'
    BY <1>0, <1>1, <2>1, SeenMeans, SeenMeansNext
  <2>3. InterruptHoldsLock'
    BY <1>0, <2>1 DEF InterruptHoldsLock
  <2> QED
    BY <2>2, <2>3
<1>4. CASE SetInterrupt(t)
  <2>1. /\ is_tripped' /\ \A r \in Registrar \ {t} : reg'[r] = reg[r]
        /\ interpreter_lock = t /\ UNCHANGED <<tripped, interpreter_lock, scans>>
    BY <1>0, <1>4 DEF SetInterrupt, At, InPython, InC, main
  <2>2. SignalsSeen'
    BY <2>1, SeenMeansNext
  <2>3. InterruptHoldsLock'
    BY <1>0, <2>1 DEF InterruptHoldsLock
  <2> QED
    BY <2>2, <2>3
<1> QED
  BY <1>2, <1>3, <1>4

LEMMA SeenRegistration ==
  ASSUME SeenInv, NEW r \in Registrar, RegStep(r)
  PROVE  SignalsSeen' /\ InterruptHoldsLock'
<1> USE DEF SeenInv, TypeInv, TypeOK, flags, thread, main, RegFrame
<1>0. Registrar = Thread \cup Signal /\ Thread \cap Signal = {}
  BY ConstantsAssumption DEF Registrar, Signal
<1>1. UNCHANGED <<interpreter_lock, scans>>
  BY DEF RegStep, Flag, Trip, TestBusy, SetBusy, ReadEnds, Store, Publish, ZeroTicker,
         SignalMainLoop, ClearBusy, Leave
<1>2. \A s \in Signal : Scanned(s) => Scanned(s)'
  BY <1>1 DEF Scanned, ComesBy
<1>3. CASE Flag(r)
  <2>1. is_tripped' /\ reg'[r].pc # "trip" /\ \A q \in Registrar \ {r} : reg'[q] = reg[q]
    BY <1>3 DEF Flag, Goto, Registration
  <2> QED
    BY <1>0, <1>1, <2>1, SeenMeansNext DEF InterruptHoldsLock
<1>4. CASE Trip(r)
  <2>1. reg'[r].pc # "trip" /\ \A q \in Registrar \ {r} : reg'[q] = reg[q]
    BY <1>4 DEF Trip, Goto, Registration
  <2>2. is_tripped /\ is_tripped'
    BY <1>4 DEF Trip, InterruptHoldsLock
  <2>3. InterruptHoldsLock'
    BY <1>1, <2>1, <2>2 DEF InterruptHoldsLock
  <2> QED
    BY <2>2, <2>3, SeenMeansNext
<1>5. ASSUME \/ TestBusy(r) \/ SetBusy(r) \/ ReadEnds(r) \/ Store(r) \/ Publish(r)
             \/ ZeroTicker(r) \/ SignalMainLoop(r) \/ ClearBusy(r) \/ Leave(r)
      PROVE  SignalsSeen' /\ InterruptHoldsLock'
  <2>1. /\ UNCHANGED <<is_tripped, tripped>>
        /\ reg[r].pc # "flag" /\ reg'[r].pc # "trip"
        /\ \A q \in Registrar \ {r} : reg'[q] = reg[q]
    BY <1>5 DEF TestBusy, SetBusy, ReadEnds, Store, Publish, ZeroTicker, SignalMainLoop,
                ClearBusy, Leave, Goto, Idle, Registration
  <2>2. SignalsSeen'
    BY <1>0, <1>2, <2>1, SeenMeans, SeenMeansNext
  <2>3. InterruptHoldsLock'
    BY <1>0, <1>1, <2>1 DEF InterruptHoldsLock
  <2> QED
    BY <2>2, <2>3
<1> QED
  BY <1>3, <1>4, <1>5 DEF RegStep

LEMMA SeenEvalLoop ==
  ASSUME SeenInv, NEW t \in Thread, EvalLoopStep(t)
  PROVE  SignalsSeen' /\ InterruptHoldsLock'
<1>1. UNCHANGED <<is_tripped, tripped, scans, reg>>
  BY DEF EvalLoopStep, EvalStep, Load, Dispatch, Look, Again, Yield, ComeBack, SkipPeriodic,
         Expire, SaveThread, Acquire, EvalFrame, flags, main
<1>2. SignalsSeen'
  BY <1>1 DEF SeenInv, SignalsSeen
<1>3. \/ UNCHANGED interpreter_lock
      \/ interpreter_lock = t /\ reg[t].pc = "idle"
      \/ interpreter_lock = NoThread
  BY DEF EvalLoopStep, EvalStep, Load, Dispatch, Look, Again, Yield, ComeBack, SkipPeriodic,
         Expire, SaveThread, Acquire, At, InPython, InC
<1>4. InterruptHoldsLock'
  BY <1>1, <1>3, ConstantsAssumption DEF SeenInv, InterruptHoldsLock
<1> QED
  BY <1>2, <1>4

LEMMA SeenMakes == SeenInv /\ Makes => SignalsSeen' /\ InterruptHoldsLock'
<1> SUFFICES ASSUME SeenInv, Makes PROVE SignalsSeen' /\ InterruptHoldsLock'
  OBVIOUS
<1>1. UNCHANGED <<is_tripped, tripped, interpreter_lock, reg>>
  BY DEF Makes, MakeStep, MakeBegin, MakeLook, MakeTake, MakeAdvance, MakeCall, JobReturns,
         MakeFrame, flags
<1>2. \/ UNCHANGED scans
      \/ scans' = Append(scans, [pc |-> "clear", i |-> 1, from |-> "make"])
  BY DEF Makes, MakeStep, MakeBegin, MakeLook, MakeTake, MakeAdvance, MakeCall, JobReturns
<1>3. \A s \in Signal : Scanned(s) => Scanned(s)'
  BY <1>2, KeptScan DEF SeenInv, Scanned, ComesBy
<1> QED
  BY <1>1, <1>3, SeenMeans, SeenMeansNext DEF SeenInv, InterruptHoldsLock

LEMMA SeenScans == SeenInv /\ Scans /\ ~HandlerRaises => SignalsSeen' /\ InterruptHoldsLock'
<1> SUFFICES ASSUME SeenInv, Scans, ~HandlerRaises PROVE SignalsSeen' /\ InterruptHoldsLock'
  OBVIOUS
<1> USE DEF flags, ScanFrame
<1>0. UNCHANGED <<interpreter_lock, reg>>
  BY DEF Scans, ScanStep, CheckSignals, ScanClear, ScanNext, ScanEnd, HandlerReturns,
         HandlerRaises
<1>1. CASE CheckSignals
  <2>1. \A s \in Signal : Scanned(s) => Scanned(s)'
    BY <1>1, KeptScan DEF SeenInv, CheckSignals
  <2> QED
    BY <1>0, <1>1, <2>1, SeenMeans, SeenMeansNext DEF CheckSignals, SeenInv, InterruptHoldsLock
<1>2. CASE ScanClear
  <2>1. \A r \in Registrar : reg[r].pc # "trip"
    BY <1>2, ConstantsAssumption DEF ScanClear, ScanAt, InC, SeenInv, InterruptHoldsLock
  <2>2. InterruptHoldsLock'
    BY <1>0, <2>1 DEF InterruptHoldsLock
  <2> DEFINE new == [Last(scans) EXCEPT !.pc = "scan"]
  <2>3. scans # <<>> /\ Last(scans).pc = "clear" /\ Last(scans) \in Scan /\ SetScan(new)
    BY <1>2, LastAndPop DEF ScanClear, ScanAt, ScanOnTop, SeenInv, TypeInv, TypeOK
  <2>4. Len(scans) \in 1..Len(scans) /\ Last(scans).i = 1
    <3>1. Len(scans) \in 1..Len(scans)
      BY <2>3, LastAndPop DEF SeenInv, TypeInv, TypeOK
    <3> QED
      BY <2>3, <3>1 DEF SeenInv, TypeInv, ScansPlaced, Last
  <2>5. new \in Scan /\ new.pc = "scan" /\ new.i = 1
    BY <2>3, <2>4 DEF Scan
  <2>6. scans'[Len(scans)] = new /\ Len(scans') = Len(scans)
    BY <2>3, <2>5, PlacedScan DEF SeenInv
  <2>7. \A s \in Signal : Scanned(s)'
    <3>1. \A s \in Signal : 1 <= s
      BY ConstantsAssumption DEF Signal
    <3>2. \A s \in Signal : ComesBy(s, new)
      BY <2>5, <3>1 DEF ComesBy
    <3>3. Len(scans) \in 1..Len(scans')
      BY <2>4, <2>6
    <3> HIDE DEF new
    <3> QED
      BY <2>6, <3>2, <3>3 DEF Scanned
  <2> QED
    BY <2>2, <2>7, SeenMeansNext
<1>3. CASE ScanNext
  <2> DEFINE last == Last(scans)
  <2>1. scans # <<>> /\ last.pc = "scan" /\ last.i <= NSIG /\ last \in Scan
    BY <1>3, LastAndPop DEF ScanNext, ScanAt, ScanOnTop, SeenInv, TypeInv, TypeOK
  <2>2. InterruptHoldsLock'
    BY <1>0, <1>3 DEF SeenInv, InterruptHoldsLock, ScanNext
  <2>3. CASE tripped[last.i]
    <3> DEFINE new == [last EXCEPT !.pc = "handler"]
    <3>1. /\ SetScan(new) /\ tripped' = [tripped EXCEPT ![last.i] = FALSE]
          /\ UNCHANGED is_tripped
      BY <1>3, <2>3 DEF ScanNext
    <3>2. new \in Scan /\ new.pc = "handler" /\ new.i = last.i
      BY <2>1 DEF Scan
    <3>3. \A s \in Signal : s # last.i /\ ComesBy(s, last) => ComesBy(s, new)
      BY <2>1, <3>2, ConstantsAssumption DEF ComesBy, Signal, Scan
    <3>4. \A s \in Signal : s # last.i /\ Scanned(s) => Scanned(s)'
      BY <2>1, <3>1, <3>2, <3>3, ReplacedScan DEF SeenInv
    <3>5. \A s \in Signal : tripped'[s] => tripped[s] /\ s # last.i
      BY <3>1 DEF SeenInv, TypeInv, TypeOK
    <3>6. SignalsSeen'
      BY <1>0, <3>1, <3>4, <3>5, SeenMeans, SeenMeansNext DEF SeenInv
    <3> QED
      BY <2>2, <3>6
  <2>4. CASE ~tripped[last.i]
    <3> DEFINE new == [last EXCEPT !.i = @ + 1]
    <3>1. SetScan(new) /\ UNCHANGED <<tripped, is_tripped>>
      BY <1>3, <2>4 DEF ScanNext
    <3>2. new \in Scan /\ new.pc = "scan" /\ new.i = last.i + 1
      BY <2>1, ConstantsAssumption DEF Scan
    <3>3. \A s \in Signal : s # last.i /\ ComesBy(s, last) => ComesBy(s, new)
      BY <2>1, <3>2, ConstantsAssumption DEF ComesBy, Signal, Scan
    <3>4. \A s \in Signal : s # last.i /\ Scanned(s) => Scanned(s)'
      BY <2>1, <3>1, <3>2, <3>3, ReplacedScan DEF SeenInv
    <3>5. SignalsSeen'
      BY <1>0, <2>4, <3>1, <3>4, SeenMeans, SeenMeansNext DEF SeenInv
    <3> QED
      BY <2>2, <3>5
  <2> QED
    BY <2>3, <2>4
<1>4. CASE ScanEnd
  <2>1. /\ scans # <<>> /\ Last(scans).pc = "scan" /\ Last(scans).i > NSIG
        /\ Last(scans) \in Scan /\ scans' = Pop(scans)
    BY <1>4, LastAndPop DEF ScanEnd, ScanAt, ScanOnTop, ScanReturns, SeenInv, TypeInv, TypeOK
  <2>2. \A s \in Signal : ~ComesBy(s, Last(scans))
    BY <2>1, ConstantsAssumption DEF ComesBy, Signal, Scan
  <2>3. \A s \in Signal : Scanned(s) => Scanned(s)'
    <3>1. /\ Len(scans) \in Nat \ {0} /\ Len(scans') = Len(scans) - 1
          /\ \A k \in 1..(Len(scans) - 1) : scans'[k] = scans[k]
      BY <2>1, LastAndPop DEF SeenInv, TypeInv, TypeOK
    <3>2. \A k \in 1..Len(scans) : k = Len(scans) \/ k \in 1..(Len(scans) - 1)
      BY <3>1
    <3> QED
      BY <2>2, <3>1, <3>2 DEF Scanned, Last
  <2>4. UNCHANGED <<tripped, is_tripped>>
    BY <1>4 DEF ScanEnd
  <2> QED
    BY <1>0, <2>3, <2>4, SeenMeans, SeenMeansNext DEF SeenInv, InterruptHoldsLock
<1>5. CASE HandlerReturns
  <2> DEFINE last == Last(scans)
             new == [last EXCEPT !.pc = "scan", !.i = @ + 1]
  <2>1. scans # <<>> /\ last.pc = "handler" /\ last \in Scan /\ SetScan(new)
    BY <1>5, LastAndPop DEF HandlerReturns, HandlerEnds, ScanAt, ScanOnTop, SeenInv, TypeInv, TypeOK
  <2>2. last.i + 1 \in 1..(NSIG + 1)
    <3>1. Len(scans) \in 1..Len(scans)
      BY <2>1, LastAndPop DEF SeenInv, TypeInv, TypeOK
    <3>2. last.i <= NSIG
      BY <2>1, <3>1 DEF SeenInv, TypeInv, ScansPlaced, Last
    <3>3. last.i \in 1..(NSIG + 1)
      BY <2>1 DEF Scan
    <3> QED
      BY <3>2, <3>3, ConstantsAssumption
  <2>3. new \in Scan /\ new.pc = "scan" /\ new.i = last.i + 1
    BY <2>1, <2>2 DEF Scan
  <2>4. \A s \in Signal : ComesBy(s, last) => ComesBy(s, new)
    <3>1. last.i \in Nat /\ \A s \in Signal : s \in Nat
      BY <2>1, ConstantsAssumption DEF Scan, Signal
    <3> QED
      BY <2>1, <2>3, <3>1 DEF ComesBy
  <2>5. \A s \in Signal : Scanned(s) => Scanned(s)'
    BY <2>1, <2>3, <2>4, ReplacedScan DEF SeenInv
  <2>6. UNCHANGED <<tripped, is_tripped>>
    BY <1>5 DEF HandlerReturns
  <2> QED
    BY <1>0, <2>5, <2>6, SeenMeans, SeenMeansNext DEF SeenInv, InterruptHoldsLock
<1> QED
  BY <1>1, <1>2, <1>3, <1>4, <1>5 DEF Scans, ScanStep

\* As long as no Python signal handler raises, a tripped signal is never hidden behind a
\* cleared is_tripped, whatever interleaving of handlers, nested scans and
\* interrupt_main() (signalmodule.c:163-195, 828-880, 886-892).
THEOREM NoSignalHidden == ASSUME ~MayFail PROVE Spec => []SignalsSeen
<1>1. Init => SeenInv
  BY TypeInit DEF SeenInv, Init, SignalsSeen, InterruptHoldsLock, Idle
<1>2. SeenInv /\ [Next]_vars => SeenInv'
  <2> SUFFICES ASSUME SeenInv, [Next]_vars PROVE SeenInv'
    OBVIOUS
  <2>1. TypeInv'
    BY TypeNext DEF SeenInv
  <2>2. ~HandlerRaises
    BY DEF HandlerRaises
  <2>3. CASE Next
    BY <2>1, <2>2, <2>3, NextIsGrouped, SeenAsked, SeenRegistration, SeenEvalLoop, SeenMakes,
       SeenScans DEF SeenInv
  <2>4. CASE UNCHANGED vars
    BY <2>1, <2>4 DEF SeenInv, SignalsSeen, InterruptHoldsLock, vars, flags, thread, main
  <2> QED
    BY <2>3, <2>4
<1>3. SeenInv => SignalsSeen
  BY DEF SeenInv
<1> QED
  BY <1>1, <1>2, <1>3, PTL DEF Spec

-----------------------------------------------------------------------------
(***************************************************************************)
(* PendingCalls implements CallQueue when only one thread registers calls, *)
(* with signal handlers nested on it to any depth, for any size of the     *)
(* queue: the flag busy, which is tested and set in two steps, then does   *)
(* exclude.                                                                *)
(***************************************************************************)
OnlyRegistrar(w) ==
  /\ Hosts \subseteq {w} /\ Interrupters \subseteq {w}
  /\ \A t \in Thread \ {w} : JobsOf[t] = {}

\* A registration that has set busy and has not cleared it.
Holds(r) == reg[r].pc \in {"read", "full", "store", "publish", "tick", "todo", "release"}
Active(r) == reg[r].pc # "idle"
\* q runs on top of r: it is a handler that has interrupted r, or one that has interrupted r.
Above(w, q, r) ==
  \E j \in 1..Len(nest[w]) :
    nest[w][j] = q /\ (r = w \/ \E i \in 1..(j - 1) : nest[w][i] = r)

NestInv(w) ==
  /\ \A t \in Thread \ {w} : nest[t] = <<>> /\ ~Active(t)
  /\ \A i, j \in 1..Len(nest[w]) : nest[w][i] = nest[w][j] => i = j
  /\ \A s \in Signal : Active(s) <=> \E i \in 1..Len(nest[w]) : nest[w][i] = s
\* A registration that has found busy clear and is yet to set it has been interrupted by whoever
\* holds busy now, and will go on only when that one has cleared it.
BusyInv(w) ==
  /\ \A r \in Registrar : Holds(r) => add_busy
  /\ \A q, r \in Registrar : Holds(q) /\ Holds(r) => q = r
  /\ \A q, r \in Registrar : Holds(q) /\ reg[r].pc = "set" => Above(w, q, r)
OneInv(w) == TypeInv /\ NestInv(w) /\ BusyInv(w)

LEMMA RegistrarsAre == \A r \in Registrar : r \in Thread <=> r \notin Signal
  BY ConstantsAssumption DEF Registrar, Signal

LEMMA NestIs ==
  ASSUME TypeInv, NEW w \in Thread
  PROVE  /\ nest[w] \in Seq(Signal) /\ Len(nest[w]) \in Nat
         /\ \A i \in 1..Len(nest[w]) : nest[w][i] \in Signal
<1>1. nest[w] \in Seq(Signal)
  BY DEF TypeInv, TypeOK
<1> QED
  BY <1>1, LenProperties

\* Whoever has its turn is on top of all the others.
LEMMA OnTop ==
  ASSUME NEW w \in Thread, OneInv(w), NEW r \in Registrar, Turn(r), Active(r)
  PROVE  /\ \A q : ~Above(w, q, r)
         /\ \A q \in Registrar \ {r} : Active(q) => Above(w, r, q)
         /\ r \in Thread => r = w
         /\ r \in Signal => nest[w] # <<>> /\ nest[w][Len(nest[w])] = r
<1>1. TypeInv /\ NestInv(w)
  BY DEF OneInv
<1>2. CASE r \in Thread
  <2>1. r = w /\ nest[w] = <<>>
    BY <1>1, <1>2 DEF NestInv, Turn
  <2>2. Len(nest[w]) = 0
    BY <2>1
  <2>3. \A q \in Registrar \ {r} : ~Active(q)
    BY <1>1, <2>1, <2>2, RegistrarsAre DEF NestInv
  <2> QED BY <1>2, <2>1, <2>2, <2>3, RegistrarsAre DEF Above
<1>3. CASE r \in Signal
  <2>1. nest[w] # <<>> /\ Last(nest[w]) = r /\ r \notin Thread
    BY <1>1, <1>3, RegistrarsAre DEF NestInv, Turn
  <2>2. Len(nest[w]) \in Nat \ {0} /\ nest[w][Len(nest[w])] = r
    BY <1>1, <2>1, NestIs, EmptySeq DEF Last
  <2>3. ASSUME NEW q, Above(w, q, r) PROVE FALSE
    BY <1>1, <2>1, <2>2, <2>3 DEF Above, NestInv
  <2>4. ASSUME NEW q \in Registrar \ {r}, Active(q) PROVE Above(w, r, q)
    <3>1. CASE q \in Signal
      <4>1. PICK i \in 1..Len(nest[w]) : nest[w][i] = q
        BY <1>1, <2>4, <3>1 DEF NestInv
      <4>2. i \in 1..(Len(nest[w]) - 1)
        BY <2>2, <2>4, <4>1
      <4> QED BY <2>2, <4>1, <4>2 DEF Above
    <3>2. CASE q \in Thread
      BY <1>1, <2>2, <2>4, <3>2 DEF Above, NestInv
    <3> QED BY <3>1, <3>2, RegistrarsAre
  <2> QED BY <1>3, <2>1, <2>2, <2>3, <2>4
<1> QED
  BY <1>2, <1>3, RegistrarsAre

LEMMA OneInit == ASSUME NEW w \in Thread PROVE Init => OneInv(w)
<1> SUFFICES ASSUME Init PROVE OneInv(w)
  OBVIOUS
<1>1. \A r \in Registrar : reg[r].pc = "idle"
  BY DEF Init, Idle
<1>2. \A t \in Thread : nest[t] = <<>>
  BY DEF Init
<1>3. NestInv(w)
  BY <1>1, <1>2 DEF NestInv, Active, Registrar
<1> QED
  BY <1>1, <1>3, TypeInit DEF OneInv, BusyInv, Holds

\* A registration begins, in the thread or in a signal handler on top of it.
LEMMA OneAsked ==
  ASSUME NEW w \in Thread, OnlyRegistrar(w), OneInv(w), TypeInv', Asked
  PROVE  OneInv(w)'
<1>0. TypeInv /\ NestInv(w) /\ BusyInv(w) /\ reg \in [Registrar -> Registration]
  BY DEF OneInv, TypeInv, TypeOK
<1>1. ASSUME NEW s \in Signal, NEW t \in Thread, Arrive(s, t) PROVE OneInv(w)'
  <2>1. /\ t = w /\ reg[s].pc = "idle" /\ add_busy' = add_busy /\ s \in Registrar
        /\ reg' = [reg EXCEPT ![s] = [pc |-> "flag", call |-> "check", i |-> 0]]
        /\ nest' = [nest EXCEPT ![w] = Append(@, s)]
    BY <1>1 DEF Arrive, OnlyRegistrar, Registrar
  <2>2. /\ \A r \in Registrar \ {s} : reg'[r] = reg[r]
        /\ reg'[s].pc = "flag"
        /\ \A u \in Thread \ {w} : nest'[u] = nest[u]
        /\ nest'[w] = Append(nest[w], s)
    BY <1>0, <2>1 DEF TypeInv, TypeOK
  <2>3. /\ Len(nest[w]) \in Nat /\ Len(nest'[w]) = Len(nest[w]) + 1
        /\ \A i \in 1..Len(nest[w]) : nest'[w][i] = nest[w][i]
        /\ nest'[w][Len(nest[w]) + 1] = s
    BY <1>0, <2>2, NestIs, AppendProperties
  <2>4. \A i \in 1..Len(nest[w]) : nest[w][i] # s
    BY <1>0, <2>1 DEF NestInv, Active
  <2>5. \A q, r : Above(w, q, r) => Above(w, q, r)'
    <3> SUFFICES ASSUME NEW q, NEW r, Above(w, q, r) PROVE Above(w, q, r)'
      OBVIOUS
    <3>1. PICK j \in 1..Len(nest[w]) :
            nest[w][j] = q /\ (r = w \/ \E i \in 1..(j - 1) : nest[w][i] = r)
      BY DEF Above
    <3>2. j \in 1..Len(nest'[w]) /\ nest'[w][j] = q
          /\ \A i \in 1..(j - 1) : nest'[w][i] = nest[w][i]
      BY <2>3, <3>1
    <3>3. (r = w \/ \E i \in 1..(j - 1) : nest'[w][i] = r)
      BY <3>1, <3>2
    <3> QED BY <3>2, <3>3 DEF Above
  <2>6. NestInv(w)'
    <3>1. \A u \in Thread \ {w} : nest'[u] = <<>> /\ reg'[u].pc = "idle"
      BY <1>0, <2>1, <2>2, RegistrarsAre DEF NestInv, Active, Registrar
    <3>2. \A i, j \in 1..Len(nest'[w]) : nest'[w][i] = nest'[w][j] => i = j
      BY <1>0, <2>3, <2>4, SMTT(30) DEF NestInv
    <3>3. ASSUME NEW p \in Signal
          PROVE  reg'[p].pc # "idle" <=> \E i \in 1..Len(nest'[w]) : nest'[w][i] = p
      <4>1. CASE p = s
        BY <2>2, <2>3, <4>1
      <4>2. CASE p # s
        <5>1. reg'[p] = reg[p]
          BY <2>2, <4>2 DEF Registrar
        <5>2. reg[p].pc # "idle" <=> \E i \in 1..Len(nest[w]) : nest[w][i] = p
          BY <1>0 DEF NestInv, Active
        <5> QED BY <2>3, <4>2, <5>1, <5>2, SMTT(30)
      <4> QED BY <4>1, <4>2
    <3> QED BY <3>1, <3>2, <3>3 DEF NestInv, Active
  <2>7. \A r \in Registrar : (Holds(r)' <=> Holds(r)) /\ (reg'[r].pc = "set" <=> reg[r].pc = "set")
    BY <2>1, <2>2 DEF Holds
  <2> QED BY <1>0, <2>1, <2>5, <2>6, <2>7 DEF OneInv, BusyInv
<1>2. ASSUME NEW t \in Thread, SetInterrupt(t) \/ \E c \in Job : Register(t, c) PROVE OneInv(w)'
  <2>1. /\ t = w /\ reg[t].pc = "idle" /\ UNCHANGED <<add_busy, nest>> /\ t \in Registrar
        /\ \A r \in Registrar \ {t} : reg'[r] = reg[r]
        /\ reg'[t].pc \in {"trip", "test"}
    BY <1>0, <1>2 DEF SetInterrupt, Register, At, InPython, InC, OnlyRegistrar, Registrar
  <2>2. NestInv(w)'
    BY <1>0, <2>1, RegistrarsAre DEF NestInv, Active, Registrar
  <2>3. \A r \in Registrar : (Holds(r)' <=> Holds(r)) /\ (reg'[r].pc = "set" <=> reg[r].pc = "set")
    BY <2>1 DEF Holds
  <2>4. \A q, r : Above(w, q, r)' <=> Above(w, q, r)
    BY <2>1 DEF Above
  <2> QED BY <1>0, <2>1, <2>2, <2>3, <2>4 DEF OneInv, BusyInv
<1> QED
  BY <1>1, <1>2 DEF Asked

\* A registration goes on.
LEMMA OneRegistration ==
  ASSUME NEW w \in Thread, OneInv(w), TypeInv', NEW r \in Registrar, RegStep(r)
  PROVE  OneInv(w)'
<1>0. TypeInv /\ NestInv(w) /\ BusyInv(w) /\ reg \in [Registrar -> Registration]
  BY DEF OneInv, TypeInv, TypeOK
<1>1. Turn(r) /\ Active(r)
  BY DEF RegStep, Flag, Trip, TestBusy, SetBusy, ReadEnds, Store, Publish, ZeroTicker,
     SignalMainLoop, ClearBusy, Leave, Active
<1>2. /\ \A q : ~Above(w, q, r)
      /\ \A q \in Registrar \ {r} : Active(q) => Above(w, r, q)
      /\ r \in Thread => r = w
      /\ r \in Signal => nest[w] # <<>> /\ nest[w][Len(nest[w])] = r
  BY <1>1, OnTop
<1>3. \A q \in Registrar \ {r} : reg'[q] = reg[q]
  BY <1>0 DEF RegStep, Flag, Trip, TestBusy, SetBusy, ReadEnds, Store, Publish, ZeroTicker,
     SignalMainLoop, ClearBusy, Leave, Goto
<1>4. CASE Leave(r)
  <2>1. reg'[r].pc = "idle" /\ reg[r].pc = "done" /\ add_busy' = add_busy
    BY <1>0, <1>4 DEF Leave, Idle
  <2>2. \A u \in Thread \ {w} : nest'[u] = <<>>
    BY <1>0, <1>4 DEF Leave, NestInv
  <2>3. CASE r \in Thread
    <3>1. nest'[w] = nest[w] /\ r = w
      BY <1>2, <1>4, <2>3, RegistrarsAre DEF Leave
    <3>2. NestInv(w)'
      BY <1>0, <1>3, <2>1, <2>2, <3>1, RegistrarsAre DEF NestInv, Active, Registrar
    <3>3. \A p, q : Above(w, p, q)' <=> Above(w, p, q)
      BY <3>1 DEF Above
    <3> QED BY <1>0, <1>3, <2>1, <3>2, <3>3 DEF OneInv, BusyInv, Holds
  <2>4. CASE r \in Signal
    <3> DEFINE n == Len(nest[w])
    <3>1. nest'[w] = Pop(nest[w]) /\ n \in Nat \ {0} /\ nest[w][n] = r
      BY <1>0, <1>2, <1>4, <2>4, NestIs, EmptySeq DEF Leave, Last
    <3>2. Len(nest'[w]) = n - 1 /\ \A k \in 1..(n - 1) : nest'[w][k] = nest[w][k]
      BY <1>0, <1>2, <2>4, <3>1, NestIs, LastAndPop
    <3> HIDE DEF n
    <3>3. \A i, j \in 1..n : nest[w][i] = nest[w][j] => i = j
      BY <1>0 DEF NestInv, n
    <3>4. \A k \in 1..(n - 1) : nest[w][k] # r
      BY <3>1, <3>3
    <3>5. NestInv(w)'
      <4>1. \A u \in Thread \ {w} : nest'[u] = <<>> /\ reg'[u].pc = "idle"
        BY <1>0, <1>3, <2>2, <2>4, RegistrarsAre DEF NestInv, Active, Registrar
      <4>2. \A i, j \in 1..Len(nest'[w]) : nest'[w][i] = nest'[w][j] => i = j
        BY <3>1, <3>2, <3>3
      <4>3. ASSUME NEW p \in Signal
            PROVE  reg'[p].pc # "idle" <=> \E i \in 1..Len(nest'[w]) : nest'[w][i] = p
        <5>1. CASE p = r
          BY <2>1, <3>2, <3>4, <5>1
        <5>2. CASE p # r
          <6>1. reg'[p] = reg[p]
            BY <1>3, <5>2 DEF Registrar
          <6>2. reg[p].pc # "idle" <=> \E i \in 1..n : nest[w][i] = p
            BY <1>0 DEF NestInv, Active, n
          <6> QED BY <3>1, <3>2, <5>2, <6>1, <6>2
        <5> QED BY <5>1, <5>2
      <4> QED BY <4>1, <4>2, <4>3 DEF NestInv, Active
    <3>6. ASSUME NEW p, NEW q, p # r, Above(w, p, q) PROVE Above(w, p, q)'
      <4>1. PICK j \in 1..n :
              nest[w][j] = p /\ (q = w \/ \E i \in 1..(j - 1) : nest[w][i] = q)
        BY <3>6 DEF Above, n
      <4>2. j \in 1..Len(nest'[w]) /\ nest'[w][j] = p
            /\ (q = w \/ \E i \in 1..(j - 1) : nest'[w][i] = q)
        BY <3>1, <3>2, <3>6, <4>1
      <4> QED BY <4>2 DEF Above
    <3>7. \A q \in Registrar :
            /\ Holds(q)' => Holds(q) /\ q # r
            /\ reg'[q].pc = "set" => reg[q].pc = "set"
      BY <1>3, <2>1 DEF Holds
    <3>8. BusyInv(w)'
      BY <1>0, <2>1, <3>6, <3>7 DEF BusyInv
    <3> QED BY <3>5, <3>8 DEF OneInv
  <2> QED BY <2>3, <2>4, RegistrarsAre
<1>5. CASE ~Leave(r)
  <2>1. nest' = nest /\ reg'[r].pc # "idle"
    BY <1>0, <1>5 DEF RegStep, Flag, Trip, TestBusy, SetBusy, ReadEnds, Store, Publish, ZeroTicker,
       SignalMainLoop, ClearBusy, Goto, RegFrame, Registration
  <2>2. NestInv(w)'
    <3>1. \A q \in Registrar : Active(q)' <=> Active(q)
      BY <1>1, <1>3, <2>1 DEF Active
    <3> QED BY <1>0, <2>1, <3>1 DEF NestInv, Registrar
  <2>3. \A p, q : Above(w, p, q)' <=> Above(w, p, q)
    BY <2>1 DEF Above
  <2>4. \A q \in Registrar \ {r} : Holds(q)' <=> Holds(q)
    BY <1>3 DEF Holds
  <2>5. CASE TestBusy(r)
    <3>1. ~Holds(r)' /\ add_busy' = add_busy /\ (reg'[r].pc = "set" => ~add_busy)
      BY <1>0, <2>5 DEF TestBusy, Goto, Holds, Registration
    <3>2. BusyInv(w)'
      BY <1>0, <1>3, <2>3, <2>4, <3>1 DEF BusyInv
    <3> QED BY <2>2, <3>2 DEF OneInv
  <2>6. CASE SetBusy(r)
    <3>1. Holds(r)' /\ add_busy' /\ reg[r].pc = "set" /\ reg'[r].pc = "read"
      BY <1>0, <2>6 DEF SetBusy, Goto, Holds, Registration
    <3>2. \A q \in Registrar : ~Holds(q)
      BY <1>0, <1>2, <3>1 DEF BusyInv
    <3>3. \A q \in Registrar \ {r} : reg'[q].pc = "set" => Above(w, r, q)
      BY <1>2, <1>3 DEF Active
    <3>4. BusyInv(w)'
      BY <1>3, <2>3, <2>4, <3>1, <3>2, <3>3 DEF BusyInv
    <3> QED BY <2>2, <3>4 DEF OneInv
  <2>7. CASE ClearBusy(r)
    <3>1. Holds(r) /\ ~Holds(r)' /\ reg'[r].pc = "done"
      BY <1>0, <2>7 DEF ClearBusy, Goto, Holds, Registration
    <3>2. \A q \in Registrar : ~Holds(q)'
      BY <1>0, <2>4, <3>1 DEF BusyInv
    <3>3. BusyInv(w)'
      BY <3>2 DEF BusyInv
    <3> QED BY <2>2, <3>3 DEF OneInv
  <2>8. CASE \/ Flag(r) \/ Trip(r) \/ ReadEnds(r) \/ Store(r) \/ Publish(r) \/ ZeroTicker(r)
             \/ SignalMainLoop(r)
    <3>1. (Holds(r)' <=> Holds(r)) /\ add_busy' = add_busy /\ reg'[r].pc # "set"
      BY <1>0, <2>8 DEF Flag, Trip, ReadEnds, Store, Publish, ZeroTicker, SignalMainLoop, Goto,
         Holds, Registration
    <3>2. BusyInv(w)'
      BY <1>0, <1>3, <2>3, <2>4, <3>1 DEF BusyInv
    <3> QED BY <2>2, <3>2 DEF OneInv
  <2> QED BY <1>5, <2>5, <2>6, <2>7, <2>8 DEF RegStep
<1> QED
  BY <1>4, <1>5

\* No other step has to do with registrations.
LEMMA OthersDoNotRegister ==
  ASSUME (\E t \in Thread : EvalLoopStep(t)) \/ Makes \/ Scans
  PROVE  UNCHANGED <<add_busy, reg, nest, pendingcalls, pendinglast>>
  BY DEF EvalLoopStep, EvalStep, Load, Dispatch, Look, Again, Yield, ComeBack, SkipPeriodic, Expire,
     SaveThread, Acquire, EvalFrame, Makes, MakeStep, MakeBegin, MakeLook, MakeTake, MakeAdvance,
     MakeCall, JobReturns, MakeFrame, Scans, CheckSignals, ScanStep, ScanClear, ScanNext, ScanEnd,
     HandlerReturns, HandlerRaises, ScanFrame, ring

LEMMA OneNext ==
  ASSUME NEW w \in Thread, OnlyRegistrar(w)
  PROVE  OneInv(w) /\ [Next]_vars => OneInv(w)'
<1> SUFFICES ASSUME OneInv(w), [Next]_vars PROVE OneInv(w)'
  OBVIOUS
<1>1. TypeInv'
  BY TypeNext DEF OneInv
<1>2. ASSUME UNCHANGED <<add_busy, reg, nest>> PROVE OneInv(w)'
  BY <1>1, <1>2 DEF OneInv, NestInv, BusyInv, Holds, Active, Above
<1>3. UNCHANGED vars => UNCHANGED <<add_busy, reg, nest>>
  BY DEF vars
<1> QED
  BY <1>1, <1>2, <1>3, NextIsGrouped, OneAsked, OneRegistration, OthersDoNotRegister
-----------------------------------------------------------------------------
(* The ring and the queue.                                                  *)

\* The remainders of the ring, without division.
Dist(a, b) == IF b >= a THEN b - a ELSE b - a + NPENDINGCALLS
Plus(a, k) == IF a + k < NPENDINGCALLS THEN a + k ELSE (a + k) - NPENDINGCALLS

LEMMA Remainder ==
  ASSUME NEW N \in Nat \ {0}, NEW x \in Int
  PROVE  /\ x \in 0..(N - 1) => x % N = x
         /\ x \in N..(2 * N - 1) => x % N = x - N
         /\ x \in (1 - N)..(-1) => x % N = x + N
<1>1. ASSUME x \in 0..(N - 1) PROVE x % N = x
  BY <1>1
<1>2. ASSUME x \in N..(2 * N - 1) PROVE x % N = x - N
  BY <1>2
<1>3. ASSUME x \in (1 - N)..(-1) PROVE x % N = x + N
  BY <1>3
<1> QED
  BY <1>1, <1>2, <1>3

LEMMA RingIs ==
  /\ NPENDINGCALLS \in Nat \ {0} /\ Slot = 0..(NPENDINGCALLS - 1)
  /\ \A a, b \in Slot : (b - a) % NPENDINGCALLS = Dist(a, b) /\ Dist(a, b) \in Slot
  /\ \A a, k \in Slot : (a + k) % NPENDINGCALLS = Plus(a, k) /\ Plus(a, k) \in Slot
  /\ \A a \in Slot : /\ After(a) = IF a = NPENDINGCALLS - 1 THEN 0 ELSE a + 1
                     /\ After(a) \in Slot
<1>1. NPENDINGCALLS \in Nat \ {0} /\ Slot = 0..(NPENDINGCALLS - 1)
  BY ConstantsAssumption DEF Slot
<1>2. ASSUME NEW a \in Slot, NEW b \in Slot
      PROVE  (b - a) % NPENDINGCALLS = Dist(a, b) /\ Dist(a, b) \in Slot
  <2>1. CASE b >= a
    <3>1. b - a \in Int /\ b - a \in 0..(NPENDINGCALLS - 1)
      BY <1>1, <2>1
    <3> QED BY <1>1, <2>1, <3>1, Remainder DEF Dist
  <2>2. CASE ~(b >= a)
    <3>1. /\ b - a \in Int /\ b - a \in (1 - NPENDINGCALLS)..(-1)
          /\ b - a + NPENDINGCALLS \in 0..(NPENDINGCALLS - 1)
      BY <1>1, <2>2
    <3> QED BY <1>1, <2>2, <3>1, Remainder DEF Dist
  <2> QED BY <2>1, <2>2
<1>3. ASSUME NEW x \in 0..(2 * NPENDINGCALLS - 1)
      PROVE  x % NPENDINGCALLS = IF x < NPENDINGCALLS THEN x ELSE x - NPENDINGCALLS
  <2>1. CASE x < NPENDINGCALLS
    <3>1. x \in Int /\ x \in 0..(NPENDINGCALLS - 1)
      BY <1>1, <1>3, <2>1
    <3> QED BY <1>1, <2>1, <3>1, Remainder
  <2>2. CASE ~(x < NPENDINGCALLS)
    <3>1. x \in Int /\ x \in NPENDINGCALLS..(2 * NPENDINGCALLS - 1)
      BY <1>1, <1>3, <2>2
    <3> QED BY <1>1, <2>2, <3>1, Remainder
  <2> QED BY <2>1, <2>2
<1>4. ASSUME NEW a \in Slot, NEW k \in Slot
      PROVE  (a + k) % NPENDINGCALLS = Plus(a, k) /\ Plus(a, k) \in Slot
  <2>1. a + k \in 0..(2 * NPENDINGCALLS - 1)
    BY <1>1
  <2>2. (a + k) % NPENDINGCALLS = Plus(a, k)
    <3> DEFINE x == a + k
    <3>1. x \in 0..(2 * NPENDINGCALLS - 1)
      BY <2>1
    <3>2. Plus(a, k) = IF x < NPENDINGCALLS THEN x ELSE x - NPENDINGCALLS
      BY DEF Plus
    <3> HIDE DEF x
    <3>3. x % NPENDINGCALLS = Plus(a, k)
      BY <1>3, <3>1, <3>2
    <3> QED BY <3>3 DEF x
  <2>3. Plus(a, k) \in Slot
    BY <1>1 DEF Plus
  <2> QED BY <2>2, <2>3
<1>5. ASSUME NEW a \in Slot
      PROVE  /\ After(a) = IF a = NPENDINGCALLS - 1 THEN 0 ELSE a + 1
             /\ After(a) \in Slot
  <2>1. a + 1 \in 0..(2 * NPENDINGCALLS - 1)
    BY <1>1
  <2>2. (a + 1) % NPENDINGCALLS
          = IF a + 1 < NPENDINGCALLS THEN a + 1 ELSE (a + 1) - NPENDINGCALLS
    <3> DEFINE x == a + 1
    <3> HIDE DEF x
    <3>1. x % NPENDINGCALLS = IF x < NPENDINGCALLS THEN x ELSE x - NPENDINGCALLS
      BY <1>3, <2>1 DEF x
    <3> QED BY <3>1 DEF x
  <2>3. After(a) = (a + 1) % NPENDINGCALLS
    BY DEF After
  <2> HIDE DEF After
  <2> QED BY <1>1, <2>2, <2>3
<1> QED
  BY <1>1, <1>2, <1>4, <1>5

\* The queue, read off the ring.
QueueOf(calls, first, last) ==
  [k \in 1..((last - first) % NPENDINGCALLS) |-> calls[(first + k - 1) % NPENDINGCALLS]]

LEMMA QueueIs ==
  ASSUME NEW calls \in [Slot -> Call \cup {NoCall}], NEW first \in Slot, NEW last \in Slot
  PROVE  /\ QueueOf(calls, first, last) \in Seq(Call \cup {NoCall})
         /\ Len(QueueOf(calls, first, last)) = Dist(first, last)
         /\ Dist(first, last) \in Slot
         /\ \A k \in 1..Dist(first, last) :
              /\ Plus(first, k - 1) \in Slot
              /\ QueueOf(calls, first, last)[k] = calls[Plus(first, k - 1)]
<1> DEFINE n == Dist(first, last)
           q == QueueOf(calls, first, last)
<1>1. n \in Slot /\ (last - first) % NPENDINGCALLS = n
  BY RingIs
<1>2. n \in Nat /\ n < NPENDINGCALLS /\ first \in Int
  BY <1>1, RingIs
<1> HIDE DEF n
<1>3. ASSUME NEW k \in 1..n
      PROVE  /\ Plus(first, k - 1) \in Slot
             /\ (first + k - 1) % NPENDINGCALLS = Plus(first, k - 1)
  <2>1. k - 1 \in 0..(NPENDINGCALLS - 1) /\ first + k - 1 = first + (k - 1)
    BY <1>2, RingIs
  <2>2. k - 1 \in Slot
    BY <2>1, RingIs
  <2> QED BY <2>1, <2>2, RingIs
<1>4. q = [k \in 1..n |-> calls[(first + k - 1) % NPENDINGCALLS]]
  BY <1>1 DEF QueueOf
<1>5. q = [k \in 1..n |-> calls[Plus(first, k - 1)]]
  BY <1>3, <1>4
<1> HIDE DEF q
<1>6. q \in [1..n -> Call \cup {NoCall}]
  BY <1>3, <1>5
<1>7. q \in Seq(Call \cup {NoCall}) /\ Len(q) = n
  BY <1>2, <1>6
<1> QED
  BY <1>1, <1>3, <1>5, <1>7 DEF n, q

LEMMA QueuedIs == Queued = QueueOf(pendingcalls, pendingfirst, pendinglast)
  BY DEF Queued, QueueOf

\* A call stored after the last one is at the end of the queue when the end moves there.
LEMMA PublishAppends ==
  ASSUME NEW calls \in [Slot -> Call \cup {NoCall}], NEW first \in Slot, NEW last \in Slot,
         After(last) # first
  PROVE  /\ Len(QueueOf(calls, first, last)) < NPENDINGCALLS - 1
         /\ QueueOf(calls, first, After(last)) = Append(QueueOf(calls, first, last), calls[last])
<1> DEFINE q == QueueOf(calls, first, last)
           p == QueueOf(calls, first, After(last))
           n == Dist(first, last)
<1>1. /\ NPENDINGCALLS \in Nat \ {0} /\ first \in 0..(NPENDINGCALLS - 1)
      /\ last \in 0..(NPENDINGCALLS - 1)
      /\ After(last) = IF last = NPENDINGCALLS - 1 THEN 0 ELSE last + 1
      /\ After(last) \in Slot
  BY RingIs
<1>2. /\ q \in Seq(Call \cup {NoCall}) /\ Len(q) = n
      /\ \A k \in 1..n : q[k] = calls[Plus(first, k - 1)]
  BY QueueIs
<1>3. /\ p \in Seq(Call \cup {NoCall}) /\ Len(p) = Dist(first, After(last))
      /\ \A k \in 1..Dist(first, After(last)) : p[k] = calls[Plus(first, k - 1)]
  <2> DEFINE l == After(last)
  <2>1. l \in Slot
    BY <1>1
  <2> HIDE DEF l
  <2>2. /\ QueueOf(calls, first, l) \in Seq(Call \cup {NoCall})
        /\ Len(QueueOf(calls, first, l)) = Dist(first, l)
        /\ \A k \in 1..Dist(first, l) : QueueOf(calls, first, l)[k] = calls[Plus(first, k - 1)]
    BY <2>1, QueueIs
  <2> QED BY <2>2 DEF l
<1>4. Dist(first, After(last)) = n + 1 /\ n \in Nat /\ n < NPENDINGCALLS - 1
  BY <1>1 DEF Dist
<1>5. Plus(first, n) = last
  BY <1>1 DEF Dist, Plus
<1> HIDE DEF n, q, p
<1>6. /\ Append(q, calls[last]) \in Seq(Call \cup {NoCall})
      /\ Len(Append(q, calls[last])) = n + 1
      /\ \A k \in 1..n : Append(q, calls[last])[k] = q[k]
      /\ Append(q, calls[last])[n + 1] = calls[last]
  BY <1>2, AppendProperties
<1>7. \A k \in 1..(n + 1) : p[k] = Append(q, calls[last])[k]
  <2>1. ASSUME NEW k \in 1..n PROVE p[k] = Append(q, calls[last])[k]
    <3>1. k \in 1..(n + 1)
      BY <1>4, <2>1
    <3>2. p[k] = calls[Plus(first, k - 1)]
      BY <1>3, <1>4, <3>1
    <3>3. q[k] = calls[Plus(first, k - 1)]
      BY <1>2, <2>1
    <3> QED BY <1>6, <2>1, <3>2, <3>3
  <2>2. p[n + 1] = Append(q, calls[last])[n + 1]
    <3>1. n + 1 \in 1..(n + 1) /\ (n + 1) - 1 = n
      BY <1>4
    <3> QED BY <1>3, <1>4, <1>5, <1>6, <3>1
  <2>3. ASSUME NEW k \in 1..(n + 1), k # n + 1 PROVE k \in 1..n
    BY <1>4, <2>3
  <2> QED BY <2>1, <2>2, <2>3
<1>8. p = Append(q, calls[last])
  BY <1>3, <1>4, <1>6, <1>7, SeqEqual
<1> QED
  BY <1>2, <1>4, <1>8 DEF q, p

\* Moving the front takes the first call off.
LEMMA AdvanceTakes ==
  ASSUME NEW calls \in [Slot -> Call \cup {NoCall}], NEW first \in Slot, NEW last \in Slot,
         first # last
  PROVE  /\ QueueOf(calls, first, last) # <<>>
         /\ Head(QueueOf(calls, first, last)) = calls[first]
         /\ QueueOf(calls, After(first), last) = Tail(QueueOf(calls, first, last))
<1> DEFINE q == QueueOf(calls, first, last)
           p == QueueOf(calls, After(first), last)
           n == Dist(first, last)
<1>1. /\ NPENDINGCALLS \in Nat \ {0} /\ first \in 0..(NPENDINGCALLS - 1)
      /\ last \in 0..(NPENDINGCALLS - 1)
      /\ After(first) = IF first = NPENDINGCALLS - 1 THEN 0 ELSE first + 1
      /\ After(first) \in Slot
  BY RingIs
<1>2. /\ q \in Seq(Call \cup {NoCall}) /\ Len(q) = n
      /\ \A k \in 1..n : q[k] = calls[Plus(first, k - 1)]
  BY QueueIs
<1>3. /\ p \in Seq(Call \cup {NoCall}) /\ Len(p) = Dist(After(first), last)
      /\ \A k \in 1..Dist(After(first), last) : p[k] = calls[Plus(After(first), k - 1)]
  <2> DEFINE f == After(first)
  <2>1. f \in Slot
    BY <1>1
  <2> HIDE DEF f
  <2>2. /\ QueueOf(calls, f, last) \in Seq(Call \cup {NoCall})
        /\ Len(QueueOf(calls, f, last)) = Dist(f, last)
        /\ \A k \in 1..Dist(f, last) : QueueOf(calls, f, last)[k] = calls[Plus(f, k - 1)]
    BY <2>1, QueueIs
  <2> QED BY <2>2 DEF f
<1>4. Dist(After(first), last) = n - 1 /\ n \in Nat \ {0}
  BY <1>1 DEF Dist
<1>5. Plus(first, 0) = first /\ \A k \in 1..(n - 1) : Plus(After(first), k - 1) = Plus(first, k)
  BY <1>1 DEF Dist, Plus
<1> HIDE DEF n, q, p
<1>6. q # <<>> /\ Head(q) = q[1]
  BY <1>2, <1>4
<1>7. /\ Tail(q) \in Seq(Call \cup {NoCall}) /\ Len(Tail(q)) = n - 1
      /\ \A k \in 1..(n - 1) : Tail(q)[k] = q[k + 1]
  BY <1>2, <1>6, HeadTailProperties
<1>8. ASSUME NEW k \in 1..(n - 1) PROVE p[k] = Tail(q)[k]
  <2>1. k + 1 \in 1..n /\ (k + 1) - 1 = k
    BY <1>4
  <2>2. q[k + 1] = calls[Plus(first, k)]
    BY <1>2, <2>1
  <2> QED BY <1>3, <1>4, <1>5, <1>7, <2>2
<1>9. p = Tail(q)
  BY <1>3, <1>4, <1>7, <1>8, SeqEqual
<1>10. q[1] = calls[first]
  <2>1. 1 \in 1..n /\ 1 - 1 = 0
    BY <1>4
  <2> QED BY <1>2, <1>5, <2>1
<1> QED
  BY <1>6, <1>9, <1>10 DEF q, p

\* The slot after the last one is not in the queue.
LEMMA StoreHides ==
  ASSUME NEW calls \in [Slot -> Call \cup {NoCall}], NEW first \in Slot, NEW last \in Slot,
         NEW c \in Call
  PROVE  QueueOf([calls EXCEPT ![last] = c], first, last) = QueueOf(calls, first, last)
<1> DEFINE new == [calls EXCEPT ![last] = c]
           q == QueueOf(calls, first, last)
           p == QueueOf(new, first, last)
           n == Dist(first, last)
<1>1. /\ NPENDINGCALLS \in Nat \ {0} /\ first \in 0..(NPENDINGCALLS - 1)
      /\ last \in 0..(NPENDINGCALLS - 1)
  BY RingIs
<1>2. new \in [Slot -> Call \cup {NoCall}] /\ \A i \in Slot \ {last} : new[i] = calls[i]
  OBVIOUS
<1> HIDE DEF new
<1>3. /\ q \in Seq(Call \cup {NoCall}) /\ Len(q) = n
      /\ p \in Seq(Call \cup {NoCall}) /\ Len(p) = n
      /\ \A k \in 1..n : /\ q[k] = calls[Plus(first, k - 1)]
                         /\ p[k] = new[Plus(first, k - 1)]
                         /\ Plus(first, k - 1) \in Slot
  BY <1>2, QueueIs
<1>4. \A k \in 1..n : Plus(first, k - 1) # last
  BY <1>1 DEF Dist, Plus
<1> HIDE DEF n, q, p
<1>5. \A k \in 1..n : p[k] = q[k]
  BY <1>2, <1>3, <1>4
<1>6. p = q
  BY <1>3, <1>5, SeqEqual
<1> QED
  BY <1>6 DEF q, p, new
-----------------------------------------------------------------------------
(* Every step is one of the queue, or none.                                 *)

\* A registration that is to store or publish has the slot after the last call for itself.
RingInv ==
  /\ \A r \in Registrar : Active(r) => reg[r].call \in Call
  /\ \A r \in Registrar : reg[r].pc \in {"store", "publish"} =>
       reg[r].i = pendinglast /\ After(pendinglast) # pendingfirst
  /\ \A r \in Registrar : reg[r].pc = "publish" => pendingcalls[pendinglast] = reg[r].call
  /\ \A k \in 1..Len(Queued) : Queued[k] \in Call
\* The main thread takes from a queue that is not empty, and a PyErr_CheckSignals() that it makes
\* as a pending call is the one directly on top of Py_MakePendingCalls().
MakingInv ==
  /\ making.pc \in {"take", "advance"} => pendingfirst # pendinglast
  /\ making.pc = "advance" => making.call = pendingcalls[pendingfirst]
  /\ making.pc \in {"run", "called"} => making.call \in Call
  /\ making.pc # "idle" => making.base <= Len(scans)
  /\ \A k \in 1..Len(scans) : scans[k].from = "make" =>
       making.pc = "called" /\ making.call = "check" /\ k = making.base + 1
QueueInv(w) == OneInv(w) /\ RingInv /\ MakingInv

QueueStep == [Queue!QueueNext]_(Queue!queueVars)

LEMMA CallsAreCalls == NoCall \notin Call /\ "check" \in Call /\ Job \subseteq Call /\ "check" \notin Job
  BY ConstantsAssumption DEF Call

LEMMA Stutters ==
  ASSUME UNCHANGED ring, Running' = Running PROVE QueueStep /\ Queued' = Queued
<1>1. Queued' = Queued
  BY DEF ring, Queued
<1> QED
  BY <1>1 DEF QueueStep, Queue!queueVars

LEMMA QueueInvInit == ASSUME NEW w \in Thread PROVE Init => QueueInv(w)
<1> SUFFICES ASSUME Init PROVE QueueInv(w)
  OBVIOUS
<1>1. OneInv(w)
  BY OneInit
<1>2. TypeOK
  BY <1>1 DEF OneInv, TypeInv
<1>3. Len(Queued) = 0
  <2>1. /\ pendingfirst = 0 /\ pendinglast = 0 /\ pendingfirst \in Slot
        /\ pendingcalls \in [Slot -> Call \cup {NoCall}]
    BY <1>2 DEF Init, TypeOK
  <2>2. Dist(pendingfirst, pendinglast) = 0
    BY <2>1 DEF Dist
  <2> QED BY <2>1, <2>2, QueuedIs, QueueIs
<1>4. \A r \in Registrar : reg[r].pc = "idle"
  BY DEF Init, Idle
<1>5. RingInv
  BY <1>3, <1>4 DEF RingInv, Active
<1>6. MakingInv
  BY DEF Init, MakingInv, NotMaking
<1> QED
  BY <1>1, <1>5, <1>6 DEF QueueInv

LEMMA QueueInitIs == Init => Queue!QueueInit
<1> SUFFICES ASSUME Init PROVE Queue!QueueInit
  OBVIOUS
<1>1. PICK w \in Thread : TRUE
  BY ConstantsAssumption
<1>2. TypeOK
  BY OneInit DEF OneInv, TypeInv
<1>3. /\ pendingfirst = 0 /\ pendinglast = 0 /\ pendingfirst \in Slot
      /\ pendingcalls \in [Slot -> Call \cup {NoCall}]
  BY <1>2 DEF Init, TypeOK
<1>4. Dist(pendingfirst, pendinglast) = 0
  BY <1>3 DEF Dist
<1>5. Queued \in Seq(Call \cup {NoCall}) /\ Len(Queued) = 0
  BY <1>3, <1>4, QueuedIs, QueueIs
<1>6. Queued = <<>>
  BY <1>5, EmptySeq
<1>7. Running = NoCall
  BY DEF Init, NotMaking, Running
<1> QED
  BY <1>6, <1>7 DEF Queue!QueueInit

LEMMA QueueAsked ==
  ASSUME NEW w \in Thread, QueueInv(w), Asked PROVE RingInv' /\ MakingInv' /\ QueueStep
<1>1. TypeOK
  BY DEF QueueInv, OneInv, TypeInv
<1>2. UNCHANGED <<ring, making, scans>>
  BY DEF Asked, Arrive, Register, SetInterrupt, main
<1>3. PICK r \in Registrar, c \in Call :
        /\ \A q \in Registrar \ {r} : reg'[q] = reg[q]
        /\ reg'[r].pc \in {"flag", "trip", "test"} /\ reg'[r].call = c
  <2>1. ASSUME NEW s \in Signal, NEW t \in Thread, Arrive(s, t)
        PROVE  /\ s \in Registrar /\ \A q \in Registrar \ {s} : reg'[q] = reg[q]
               /\ reg'[s].pc = "flag" /\ reg'[s].call = "check"
    BY <1>1, <2>1 DEF Arrive, Registrar, TypeOK
  <2>2. ASSUME NEW t \in Thread, SetInterrupt(t)
        PROVE  /\ t \in Registrar /\ \A q \in Registrar \ {t} : reg'[q] = reg[q]
               /\ reg'[t].pc = "trip" /\ reg'[t].call = "check"
    BY <1>1, <2>2 DEF SetInterrupt, Registrar, TypeOK
  <2>3. ASSUME NEW t \in Thread, NEW c \in Job, Register(t, c)
        PROVE  /\ t \in Registrar /\ \A q \in Registrar \ {t} : reg'[q] = reg[q]
               /\ reg'[t].pc = "test" /\ reg'[t].call = c
    BY <1>1, <2>3 DEF Register, Registrar, TypeOK
  <2>4. CASE \E s \in Signal, t \in Thread : Arrive(s, t)
    BY <2>1, <2>4, CallsAreCalls
  <2>5. CASE \E t \in Thread : SetInterrupt(t)
    BY <2>2, <2>5, CallsAreCalls
  <2>6. CASE \E t \in Thread : \E c \in Job : Register(t, c)
    BY <2>3, <2>6, CallsAreCalls
  <2> QED BY <2>4, <2>5, <2>6 DEF Asked
<1>4. QueueStep /\ Queued' = Queued
  BY <1>2, Stutters DEF Running
<1>5. RingInv'
  BY <1>2, <1>3, <1>4 DEF QueueInv, RingInv, Active, ring
<1>6. MakingInv'
  BY <1>2 DEF QueueInv, MakingInv, ring
<1> QED
  BY <1>4, <1>5, <1>6

LEMMA QueueRegistration ==
  ASSUME NEW w \in Thread, QueueInv(w), NEW r \in Registrar, RegStep(r)
  PROVE  RingInv' /\ MakingInv' /\ QueueStep
<1>0. /\ TypeInv /\ TypeOK /\ BusyInv(w) /\ RingInv /\ MakingInv
      /\ reg \in [Registrar -> Registration]
      /\ pendingcalls \in [Slot -> Call \cup {NoCall}]
      /\ pendingfirst \in Slot /\ pendinglast \in Slot
  BY DEF QueueInv, OneInv, TypeInv, TypeOK
<1>1. UNCHANGED <<making, scans, pendingfirst>>
  BY DEF RegStep, Flag, Trip, TestBusy, SetBusy, ReadEnds, Store, Publish, ZeroTicker,
     SignalMainLoop, ClearBusy, Leave, RegFrame, main, ring
<1>2. \A q \in Registrar \ {r} : reg'[q] = reg[q]
  BY <1>0 DEF RegStep, Flag, Trip, TestBusy, SetBusy, ReadEnds, Store, Publish, ZeroTicker,
     SignalMainLoop, ClearBusy, Leave, Goto
<1>3. Running' = Running
  BY <1>1 DEF Running
<1>4. Holds(r) => \A q \in Registrar \ {r} : reg[q].pc \notin {"store", "publish"}
  BY <1>0 DEF BusyInv, Holds
<1>5. CASE Store(r)
  <2>1. /\ reg[r].pc = "store" /\ Holds(r) /\ Active(r)
        /\ pendingcalls' = [pendingcalls EXCEPT ![reg[r].i] = reg[r].call]
        /\ reg'[r].pc = "publish" /\ reg'[r].call = reg[r].call /\ reg'[r].i = reg[r].i
        /\ pendinglast' = pendinglast
    BY <1>0, <1>5 DEF Store, Goto, Holds, Active, Registration
  <2>2. reg[r].i = pendinglast /\ After(pendinglast) # pendingfirst /\ reg[r].call \in Call
    BY <1>0, <2>1 DEF RingInv
  <2>3. Queued' = Queued
    <3>1. Queued' = QueueOf(pendingcalls', pendingfirst', pendinglast')
      BY DEF Queued, QueueOf
    <3> QED BY <1>0, <1>1, <2>1, <2>2, <3>1, QueuedIs, StoreHides
  <2>4. pendingcalls'[pendinglast] = reg[r].call
        /\ \A i \in Slot \ {pendinglast} : pendingcalls'[i] = pendingcalls[i]
    BY <1>0, <2>1, <2>2
  <2>5. RingInv'
    BY <1>0, <1>1, <1>2, <1>4, <2>1, <2>2, <2>3, <2>4 DEF RingInv, Active
  <2>6. MakingInv'
    BY <1>0, <1>1, <2>1, <2>4 DEF MakingInv
  <2> QED BY <1>3, <2>3, <2>5, <2>6 DEF QueueStep, Queue!queueVars
<1>6. CASE Publish(r)
  <2>1. /\ reg[r].pc = "publish" /\ Holds(r) /\ Active(r)
        /\ pendinglast' = After(reg[r].i) /\ pendingcalls' = pendingcalls
        /\ reg'[r].pc = "tick" /\ reg'[r].call = reg[r].call
    BY <1>0, <1>6 DEF Publish, Goto, Holds, Active, Registration
  <2>2. /\ reg[r].i = pendinglast /\ After(pendinglast) # pendingfirst /\ reg[r].call \in Call
        /\ pendingcalls[pendinglast] = reg[r].call
    BY <1>0, <2>1 DEF RingInv
  <2>3. Len(Queued) < NPENDINGCALLS - 1 /\ Queued' = Append(Queued, reg[r].call)
    <3>1. Queued' = QueueOf(pendingcalls, pendingfirst, After(pendinglast))
      BY <1>1, <2>1, <2>2 DEF Queued, QueueOf
    <3> QED BY <1>0, <2>2, <3>1, QueuedIs, PublishAppends
  <2>4. Queue!Register(reg[r].call)
    BY <1>3, <2>3 DEF Queue!Register
  <2>5. \A k \in 1..Len(Queued') : Queued'[k] \in Call
    <3>1. Queued \in Seq(Call \cup {NoCall}) /\ reg[r].call \in Call \cup {NoCall}
      BY <1>0, <2>2, QueuedIs, QueueIs
    <3>2. /\ Len(Queued) \in Nat /\ Len(Queued') = Len(Queued) + 1
          /\ \A k \in 1..Len(Queued) : Queued'[k] = Queued[k]
          /\ Queued'[Len(Queued) + 1] = reg[r].call
      BY <2>3, <3>1, AppendProperties, LenProperties
    <3> QED BY <1>0, <2>2, <3>2 DEF RingInv
  <2>6. RingInv'
    BY <1>0, <1>2, <1>4, <2>1, <2>2, <2>5 DEF RingInv, Active
  <2>7. MakingInv'
    BY <1>0, <1>1, <2>1, <2>2 DEF MakingInv
  <2> QED BY <2>2, <2>4, <2>6, <2>7 DEF QueueStep, Queue!QueueNext
<1>7. CASE ReadEnds(r)
  <2>1. UNCHANGED ring /\ reg[r].pc = "read" /\ Holds(r) /\ Active(r)
        /\ reg'[r].call = reg[r].call /\ reg'[r].i = pendinglast
        /\ reg'[r].pc = IF After(pendinglast) = pendingfirst THEN "full" ELSE "store"
    BY <1>0, <1>7 DEF ReadEnds, Holds, Active, Registration
  <2>2. QueueStep /\ Queued' = Queued
    BY <1>3, <2>1, Stutters
  <2>3. RingInv'
    BY <1>0, <1>2, <2>1, <2>2 DEF RingInv, Active, ring
  <2> QED BY <1>0, <1>1, <2>1, <2>2, <2>3 DEF MakingInv, ring
<1>8. ASSUME \/ Flag(r) \/ Trip(r) \/ TestBusy(r) \/ SetBusy(r) \/ ZeroTicker(r)
             \/ SignalMainLoop(r) \/ ClearBusy(r) \/ Leave(r)
      PROVE  RingInv' /\ MakingInv' /\ QueueStep
  <2>1. UNCHANGED ring /\ Active(r) /\ reg'[r].pc \notin {"store", "publish"}
        /\ (reg'[r].pc = "idle" \/ reg'[r].call = reg[r].call)
    BY <1>0, <1>8 DEF Flag, Trip, TestBusy, SetBusy, ZeroTicker, SignalMainLoop, ClearBusy, Leave,
       Goto, Active, Registration, Idle
  <2>2. QueueStep /\ Queued' = Queued
    BY <1>3, <2>1, Stutters
  <2>3. RingInv'
    BY <1>0, <1>2, <2>1, <2>2 DEF RingInv, Active, ring
  <2> QED BY <1>0, <1>1, <2>1, <2>2, <2>3 DEF MakingInv, ring
<1> QED
  BY <1>5, <1>6, <1>7, <1>8 DEF RegStep

\* Steps that leave the ring alone.
LEMMA RingKept ==
  ASSUME RingInv, UNCHANGED <<ring, reg>> PROVE RingInv'
<1>1. Queued' = Queued
  BY DEF ring, Queued
<1> QED
  BY <1>1 DEF RingInv, Active, ring

LEMMA QueueMakes ==
  ASSUME NEW w \in Thread, QueueInv(w), TypeOK', Makes PROVE RingInv' /\ MakingInv' /\ QueueStep
<1>0. /\ TypeOK /\ RingInv /\ MakingInv /\ making \in Making
      /\ pendingcalls \in [Slot -> Call \cup {NoCall}]
      /\ pendingfirst \in Slot /\ pendinglast \in Slot /\ Len(scans) \in Nat
  BY LenProperties DEF QueueInv, OneInv, TypeInv, TypeOK
<1>1. UNCHANGED <<reg, pendingcalls, pendinglast>>
  BY OthersDoNotRegister
<1>2. CASE MakeBegin \/ MakeLook \/ MakeTake
  <2>1. UNCHANGED <<ring, scans>>
    BY <1>2 DEF MakeBegin, MakeLook, MakeTake
  <2>2. /\ making.pc \in {"idle", "look", "take"} /\ making'.pc \in {"idle", "look", "take", "advance"}
        /\ making'.pc \in {"take", "advance"} => pendingfirst # pendinglast
        /\ making'.pc = "advance" => making'.call = pendingcalls[pendingfirst]
        /\ making'.pc # "idle" => making'.base <= Len(scans)
    <3>1. CASE MakeBegin
      <4>1. making.pc = "idle" /\ making' = [pc |-> "look", call |-> NoCall, base |-> Len(scans)]
        BY <3>1 DEF MakeBegin, MakingNext
      <4> QED BY <1>0, <4>1
    <3>2. CASE MakeLook
      <4>1. /\ making.pc = "look"
            /\ \/ making' = NotMaking
               \/ pendingfirst # pendinglast /\ making' = [making EXCEPT !.pc = "take"]
        BY <3>2 DEF MakeLook, MakeAt
      <4>2. CASE making' = NotMaking
        BY <4>1, <4>2 DEF NotMaking
      <4>3. CASE pendingfirst # pendinglast /\ making' = [making EXCEPT !.pc = "take"]
        <5>1. making'.pc = "take" /\ making'.base = making.base
          BY <1>0, <4>3 DEF Making
        <5> QED BY <1>0, <4>1, <4>3, <5>1 DEF MakingInv
      <4> QED BY <4>1, <4>2, <4>3
    <3>3. CASE MakeTake
      <4>1. /\ making.pc = "take"
            /\ making' = [making EXCEPT !.pc = "advance", !.call = pendingcalls[pendingfirst]]
        BY <3>3 DEF MakeTake, MakeAt
      <4>2. /\ making'.pc = "advance" /\ making'.base = making.base
            /\ making'.call = pendingcalls[pendingfirst]
        BY <1>0, <4>1 DEF Making
      <4> QED BY <1>0, <4>1, <4>2 DEF MakingInv
    <3> QED BY <1>2, <3>1, <3>2, <3>3
  <2>3. MakingInv'
    BY <1>0, <2>1, <2>2 DEF MakingInv, ring
  <2>4. Running = NoCall /\ Running' = NoCall
    BY <2>2 DEF Running
  <2> QED BY <1>0, <1>1, <2>1, <2>3, <2>4, RingKept, Stutters
<1>3. CASE MakeAdvance
  <2>1. /\ making.pc = "advance" /\ pendingfirst' = After(pendingfirst)
        /\ making' = [making EXCEPT !.pc = "run"] /\ scans' = scans
    BY <1>3 DEF MakeAdvance, MakeAt
  <2>2. pendingfirst # pendinglast /\ making.call = pendingcalls[pendingfirst]
    BY <1>0, <2>1 DEF MakingInv
  <2>3. /\ Queued # <<>> /\ Head(Queued) = making.call /\ Queued' = Tail(Queued)
    <3>1. Queued' = QueueOf(pendingcalls, After(pendingfirst), pendinglast)
      BY <1>1, <2>1 DEF Queued, QueueOf
    <3> QED BY <1>0, <2>2, <3>1, QueuedIs, AdvanceTakes
  <2>4. Running = NoCall /\ Running' = making.call
    BY <1>0, <2>1 DEF Running, Making
  <2>5. Queue!Take
    BY <2>3, <2>4 DEF Queue!Take
  <2>6. Queued \in Seq(Call \cup {NoCall})
    BY <1>0, QueuedIs, QueueIs
  <2>7. making.call \in Call /\ \A k \in 1..Len(Queued') : Queued'[k] \in Call
    <3>1. /\ Len(Queued) \in Nat \ {0} /\ Head(Queued) = Queued[1]
          /\ Len(Tail(Queued)) = Len(Queued) - 1
          /\ \A k \in 1..Len(Tail(Queued)) : Tail(Queued)[k] = Queued[k + 1]
      BY <2>3, <2>6, HeadTailProperties, EmptySeq
    <3>2. Queued[1] \in Call
      BY <1>0, <3>1 DEF RingInv
    <3>3. ASSUME NEW k \in 1..Len(Queued') PROVE Queued'[k] \in Call
      <4>1. k + 1 \in 1..Len(Queued) /\ Queued'[k] = Queued[k + 1]
        BY <2>3, <3>1
      <4> QED BY <1>0, <4>1 DEF RingInv
    <3> QED BY <2>3, <3>1, <3>2, <3>3
  <2>8. After(pendinglast) # pendingfirst => After(pendinglast) # pendingfirst'
    BY <1>0, <2>1, <2>2, RingIs
  <2>9. RingInv'
    BY <1>0, <1>1, <2>7, <2>8 DEF RingInv, Active
  <2>10. MakingInv'
    BY <1>0, <2>1, <2>7 DEF MakingInv, Making
  <2> QED BY <2>5, <2>9, <2>10 DEF QueueStep, Queue!QueueNext
<1>4. ASSUME Running # NoCall, Running' = NoCall, UNCHANGED ring PROVE QueueStep
  <2>1. Queued' = Queued
    BY <1>4 DEF ring, Queued
  <2> QED BY <1>4, <2>1 DEF QueueStep, Queue!QueueNext, Queue!Finish
<1>5. making.pc \in {"run", "called"} => Running # NoCall /\ Running = making.call
  BY <1>0, CallsAreCalls DEF MakingInv, Running
<1>6. CASE MakeCall
  <2>1. /\ making.pc = "run" /\ MakeOnTop /\ UNCHANGED ring
    BY <1>6 DEF MakeCall, MakeAt, ring
  <2>2. \A k \in 1..Len(scans) : scans[k].from # "make"
    BY <1>0, <2>1 DEF MakingInv
  <2>3. Len(scans) = making.base
    <3>1. scans = <<>> => Len(scans) = 0
      OBVIOUS
    <3> QED BY <1>0, <2>1, <3>1 DEF MakingInv, MakeOnTop, ScanOnTop, Making
  <2>4. CASE making' = [making EXCEPT !.pc = "called"] /\ scans' = scans
    <3>1. Running' = Running
      BY <1>0, <1>5, <2>1, <2>4 DEF Running, Making
    <3>2. MakingInv'
      BY <1>0, <2>1, <2>2, <2>4 DEF MakingInv, Making
    <3> QED BY <1>0, <1>1, <2>1, <3>1, <3>2, RingKept, Stutters
  <2>5. CASE /\ making' = [making EXCEPT !.pc = "called"] /\ making.call = "check"
             /\ scans' = Append(scans, [pc |-> "clear", i |-> 1, from |-> "make"])
    <3>1. Running' = Running
      BY <1>0, <1>5, <2>1, <2>5 DEF Running, Making
    <3>2. /\ Len(scans') = Len(scans) + 1
          /\ \A k \in 1..Len(scans) : scans'[k] = scans[k]
      <4>1. [pc |-> "clear", i |-> 1, from |-> "make"] \in Scan /\ scans \in Seq(Scan)
        BY <1>0, ConstantsAssumption DEF TypeOK, Scan
      <4> QED BY <2>5, <4>1, AppendProperties
    <3>3. \A k \in 1..Len(scans') : scans'[k].from = "make" => k = making.base + 1
      <4>1. \A k \in 1..Len(scans') : k \in 1..Len(scans) \/ k = Len(scans) + 1
        BY <1>0, <3>2
      <4> QED BY <2>2, <2>3, <3>2, <4>1
    <3>4. making'.pc = "called" /\ making'.call = making.call /\ making'.base = making.base
      BY <1>0, <2>5 DEF Making
    <3>5. MakingInv'
      BY <1>0, <2>1, <2>3, <2>5, <3>2, <3>3, <3>4 DEF MakingInv
    <3> QED BY <1>0, <1>1, <2>1, <3>1, <3>5, RingKept, Stutters
  <2>6. CASE making' = MakingNext(making.base) /\ scans' = scans
    <3>1. Running' = NoCall
      BY <2>6 DEF Running, MakingNext
    <3>2. MakingInv'
      BY <1>0, <2>1, <2>2, <2>6 DEF MakingInv, MakingNext
    <3> QED BY <1>0, <1>1, <1>4, <1>5, <2>1, <3>1, <3>2, RingKept
  <2> QED BY <1>6, <2>4, <2>5, <2>6 DEF MakeCall
<1>7. ASSUME NEW ok \in BOOLEAN, JobReturns(ok) PROVE RingInv' /\ MakingInv' /\ QueueStep
  <2>1. /\ making.pc = "called" /\ MakeOnTop /\ UNCHANGED <<ring, scans>>
        /\ making' = IF ok THEN MakingNext(making.base) ELSE NotMaking
    BY <1>7 DEF JobReturns, MakeAt, MakeReturned, ring
  <2>2. \A k \in 1..Len(scans) : scans[k].from # "make"
    <3>1. scans # <<>> => Len(scans) <= making.base
      BY <1>0, <2>1 DEF MakeOnTop, ScanOnTop, Making
    <3>2. scans = <<>> => Len(scans) = 0
      OBVIOUS
    <3> QED BY <1>0, <3>1, <3>2 DEF MakingInv, Making
  <2>3. Running' = NoCall
    BY <2>1 DEF Running, MakingNext, NotMaking
  <2>4. MakingInv'
    BY <1>0, <2>1, <2>2 DEF MakingInv, MakingNext, NotMaking
  <2> QED BY <1>0, <1>1, <1>4, <1>5, <2>1, <2>3, <2>4, RingKept
<1> QED
  BY <1>2, <1>3, <1>6, <1>7 DEF Makes, MakeStep

LEMMA QueueScans ==
  ASSUME NEW w \in Thread, QueueInv(w), Scans PROVE RingInv' /\ MakingInv' /\ QueueStep
<1>0. /\ TypeOK /\ RingInv /\ MakingInv /\ making \in Making /\ scans \in Seq(Scan)
      /\ Len(scans) \in Nat
  BY LenProperties DEF QueueInv, OneInv, TypeInv, TypeOK
<1>1. UNCHANGED <<ring, reg>>
  BY DEF Scans, CheckSignals, ScanStep, ScanClear, ScanNext, ScanEnd, HandlerReturns,
     HandlerRaises, ScanFrame, ring
<1>2. RingInv'
  BY <1>0, <1>1, RingKept
<1>3. CASE CheckSignals
  <2>1. making' = making /\ scans' = Append(scans, [pc |-> "clear", i |-> 1, from |-> "code"])
    BY <1>3 DEF CheckSignals
  <2>2. [pc |-> "clear", i |-> 1, from |-> "code"] \in Scan
    BY ConstantsAssumption DEF Scan
  <2>3. /\ Len(scans') = Len(scans) + 1
        /\ \A k \in 1..Len(scans) : scans'[k] = scans[k]
        /\ scans'[Len(scans) + 1].from = "code"
    BY <1>0, <2>1, <2>2, AppendProperties
  <2>4. ASSUME NEW k \in 1..Len(scans'), scans'[k].from = "make"
        PROVE  k \in 1..Len(scans) /\ scans[k].from = "make"
    BY <1>0, <2>3, <2>4
  <2>5. MakingInv'
    BY <1>0, <1>1, <2>1, <2>3, <2>4 DEF MakingInv, ring, Making
  <2> QED BY <1>1, <1>2, <2>1, <2>5, Stutters DEF Running
<1>4. ASSUME scans # <<>>, NEW new, SetScan(new), new.from = Last(scans).from, making' = making
      PROVE  MakingInv' /\ QueueStep
  <2>1. Len(scans') = Len(scans)
        /\ \A k \in 1..Len(scans) : scans'[k].from = scans[k].from
    BY <1>0, <1>4 DEF SetScan, Last
  <2>2. MakingInv'
    BY <1>0, <1>1, <1>4, <2>1 DEF MakingInv, ring
  <2> QED BY <1>1, <1>4, <2>2, Stutters DEF Running
<1>5. CASE ScanClear \/ ScanNext \/ HandlerReturns
  <2>1. /\ scans # <<>> /\ making' = making
        /\ \E new : SetScan(new) /\ new.from = Last(scans).from
    <3>1. scans # <<>> /\ making' = making
      BY <1>5 DEF ScanClear, ScanNext, HandlerReturns, HandlerEnds, ScanAt, ScanOnTop
    <3>2. Last(scans) \in Scan
      BY <1>0, <3>1, LastAndPop
    <3>3. \/ SetScan([Last(scans) EXCEPT !.pc = "scan"])
          \/ SetScan([Last(scans) EXCEPT !.pc = "handler"])
          \/ SetScan([Last(scans) EXCEPT !.i = @ + 1])
          \/ SetScan([Last(scans) EXCEPT !.pc = "scan", !.i = @ + 1])
      BY <1>5 DEF ScanClear, ScanNext, HandlerReturns
    <3>4. /\ [Last(scans) EXCEPT !.pc = "scan"].from = Last(scans).from
          /\ [Last(scans) EXCEPT !.pc = "handler"].from = Last(scans).from
          /\ [Last(scans) EXCEPT !.i = @ + 1].from = Last(scans).from
          /\ [Last(scans) EXCEPT !.pc = "scan", !.i = @ + 1].from = Last(scans).from
      BY <3>2 DEF Scan
    <3> QED BY <3>1, <3>3, <3>4
  <2> QED BY <1>2, <1>4, <2>1
<1>6. ASSUME NEW ok \in BOOLEAN, scans # <<>>, ScanOnTop, ScanReturns(ok)
      PROVE  MakingInv' /\ QueueStep
  <2> DEFINE n == Len(scans)
  <2>1. /\ n \in Nat \ {0} /\ Len(scans') = n - 1 /\ \A k \in 1..(n - 1) : scans'[k] = scans[k]
        /\ Last(scans) = scans[n]
    BY <1>0, <1>6, LastAndPop DEF ScanReturns, Last
  <2> HIDE DEF n
  <2>2. making.pc # "idle" => n > making.base
    BY <1>6 DEF ScanOnTop, n
  <2>3. CASE Last(scans).from = "code"
    <3>1. making' = making
      BY <1>6, <2>3 DEF ScanReturns
    <3>2. MakingInv'
      BY <1>0, <1>1, <2>1, <2>2, <3>1 DEF MakingInv, Making, ring, n
    <3> QED BY <1>1, <3>1, <3>2, Stutters DEF Running
  <2>4. CASE Last(scans).from = "make"
    <3>1. making.pc = "called" /\ n = making.base + 1
      BY <1>0, <2>1, <2>4 DEF MakingInv, n
    <3>2. making' = IF ok THEN MakingNext(making.base) ELSE NotMaking
      BY <1>6, <2>4 DEF ScanReturns, MakeReturned
    <3>3. \A k \in 1..Len(scans') : scans'[k].from # "make"
      BY <1>0, <2>1, <3>1 DEF MakingInv, Making, n
    <3>4. MakingInv'
      BY <1>0, <2>1, <3>1, <3>2, <3>3 DEF MakingInv, MakingNext, NotMaking, Making
    <3>5. Running # NoCall /\ Running' = NoCall /\ Queued' = Queued
      BY <1>0, <1>1, <3>1, <3>2, CallsAreCalls
      DEF MakingInv, Running, MakingNext, NotMaking, Queued, ring
    <3> QED BY <3>4, <3>5 DEF QueueStep, Queue!QueueNext, Queue!Finish
  <2>5. Last(scans).from \in {"make", "code"}
    BY <1>6 DEF ScanReturns
  <2> QED BY <2>3, <2>4, <2>5
<1>7. CASE ScanEnd
  BY <1>2, <1>6, <1>7 DEF ScanEnd, ScanAt, ScanOnTop
<1>8. CASE HandlerRaises
  BY <1>2, <1>6, <1>8 DEF HandlerRaises, HandlerEnds, ScanAt, ScanOnTop
<1> QED
  BY <1>3, <1>5, <1>7, <1>8 DEF Scans, ScanStep

LEMMA QueueNextStep ==
  ASSUME NEW w \in Thread, OnlyRegistrar(w)
  PROVE  QueueInv(w) /\ [Next]_vars => QueueInv(w)' /\ QueueStep
<1> SUFFICES ASSUME QueueInv(w), [Next]_vars PROVE QueueInv(w)' /\ QueueStep
  OBVIOUS
<1>1. OneInv(w)' /\ TypeOK'
  BY OneNext DEF QueueInv, OneInv, TypeInv
<1>2. ASSUME UNCHANGED <<ring, reg, making, scans>> PROVE RingInv' /\ MakingInv' /\ QueueStep
  <2>1. MakingInv'
    BY <1>2 DEF QueueInv, MakingInv, ring
  <2> QED BY <1>2, <2>1, RingKept, Stutters DEF QueueInv, Running
<1>3. ASSUME NEW t \in Thread, EvalLoopStep(t) PROVE UNCHANGED <<ring, reg, making, scans>>
  BY <1>3 DEF EvalLoopStep, EvalStep, Load, Dispatch, Look, Again, Yield, ComeBack, SkipPeriodic,
     Expire, SaveThread, Acquire, EvalFrame, main
<1>4. UNCHANGED vars => UNCHANGED <<ring, reg, making, scans>>
  BY DEF vars, main
<1> QED
  BY <1>1, <1>2, <1>3, <1>4, NextIsGrouped, QueueAsked, QueueRegistration, QueueMakes, QueueScans
  DEF QueueInv

\* When one thread registers all the calls, with signal handlers on top of it at any point, calls
\* are made in the order of their registration, each once, one at a time, and none is lost.
THEOREM PendingCallsAreAQueue ==
  ASSUME NEW w \in Thread, OnlyRegistrar(w) PROVE Spec => ImplementsQueue
<1>1. QueueInv(w) /\ [Next]_vars => QueueInv(w)' /\ [Queue!QueueNext]_(Queue!queueVars)
  BY QueueNextStep DEF QueueStep
<1> QED
  BY <1>1, QueueInvInit, QueueInitIs, PTL DEF Spec, ImplementsQueue, Queue!QueueSpec
===============================================================================
