--------------------------- MODULE ImportLock_proofs ---------------------------
(***************************************************************************)
(* Proofs about ImportLock, for any threads and any depth of imports.      *)
(***************************************************************************)
EXTENDS ImportLock, TLAPS

\* The program counters tell who has the mutex, who may have the interpreter lock, and that the
\* thread whose name is on the import lock runs Python code.
MutexByPC == \A t \in Thread : mut = t <=> pc[t] \in {"try_test", "test", "rel"}
WithGIL == {"try_lock", "try_test", "save", "rel_lock", "rel", "signal"}
GILByPC == \A t \in Thread :
  /\ pc[t] \in WithGIL => interpreter_lock = t
  /\ pc[t] \in Asking \cup {"restore"} => interpreter_lock # t
HolderRuns == \A t \in Thread : import_lock_thread = t => pc[t] = "run"

\* The inductive invariant.
IInv == TypeOK /\ MutexByPC /\ GILByPC /\ HolderRuns /\ HolderOwns

USE DEF Trying, Asking, Releasing, PC, WithGIL

LEMMA InitIInv == Init => IInv
<1> SUFFICES ASSUME Init PROVE IInv
  OBVIOUS
<1> USE ThreadAssumption DEF Init
<1>1. TypeOK
  <2>1. 0 \in 0 .. MaxLevel
    OBVIOUS
  <2>2. [t \in Thread |-> "run"] \in [Thread -> PC]
    OBVIOUS
  <2>3. FALSE \in BOOLEAN
    OBVIOUS
  <2> QED
    BY <2>1, <2>2, <2>3, Zenon DEF TypeOK
<1>2. MutexByPC /\ GILByPC /\ HolderRuns
  BY DEF MutexByPC, GILByPC, HolderRuns
<1>3. \A t \in Thread : ~Owns(t)
  BY DEF Owns
<1>4. HolderOwns
  BY <1>3 DEF HolderOwns
<1> QED
  BY <1>1, <1>2, <1>4 DEF IInv

-----------------------------------------------------------------------------
\* Every step keeps the types: a level that is counted down belongs to a thread.
LEMMA StepTypeOK == IInv /\ [Next]_vars => TypeOK'
<1> SUFFICES ASSUME IInv, [Next]_vars PROVE TypeOK'
  OBVIOUS
<1> USE ThreadAssumption DEF IInv, TypeOK, importVars, lockVars, Go, At, Runs
<1>1. ASSUME NEW t \in Thread, lock_import(t) \/ NoBlock(t) PROVE TypeOK'
  BY <1>1 DEF lock_import, NoBlock, lock_import_again, lock_import_try, lock_import_wait
<1>2. ASSUME NEW t \in Thread, unlock_import(t) PROVE TypeOK'
  <2>1. import_lock_level \in 1 .. MaxLevel
    BY <1>2 DEF unlock_import, HolderOwns
  <2> QED BY <1>2, <2>1 DEF unlock_import
<1>3. ASSUME NEW t \in Thread, TakeTurn(t) \/ EndTurn(t) \/ Fork(t) \/ SpuriousWakeup(t)
      PROVE TypeOK'
  BY <1>3 DEF TakeTurn, EndTurn, Fork, SpuriousWakeup
<1>4. ASSUME NEW t \in Thread, pthread_mutex_lock(t) PROVE TypeOK'
  BY <1>4 DEF pthread_mutex_lock, LockMutex
<1>5. ASSUME NEW t \in Thread, PyEval_SaveThread(t) \/ PyEval_RestoreThread(t) PROVE TypeOK'
  BY <1>5 DEF PyEval_SaveThread, PyEval_RestoreThread, Holds
<1>6. ASSUME NEW t \in Thread, TryTest(t) PROVE TypeOK'
  BY <1>6 DEF TryTest, Holds
<1>9. ASSUME NEW t \in Thread, Test(t) PROVE TypeOK'
  BY <1>9 DEF Test
<1>10. ASSUME NEW t \in Thread, Release(t) PROVE TypeOK'
  BY <1>10 DEF Release
<1>7. ASSUME NEW t \in Thread, pthread_cond_signal(t) PROVE TypeOK'
  BY <1>7 DEF pthread_cond_signal, Waiting
<1>8. CASE UNCHANGED vars
  BY <1>8, Zenon DEF vars
<1> QED
  BY <1>1, <1>2, <1>3, <1>4, <1>5, <1>6, <1>7, <1>8, <1>9, <1>10 DEF Next, LockStep

-----------------------------------------------------------------------------
\* Every step keeps what the program counters tell.
LEMMA StepByPC == IInv /\ [Next]_vars => MutexByPC' /\ GILByPC' /\ HolderRuns'
<1> SUFFICES ASSUME IInv, [Next]_vars PROVE MutexByPC' /\ GILByPC' /\ HolderRuns'
  OBVIOUS
<1> USE ThreadAssumption
    DEF IInv, TypeOK, importVars, lockVars, Go, At, Runs, MutexByPC, GILByPC, HolderRuns
<1>1. ASSUME NEW t \in Thread, lock_import(t) \/ NoBlock(t)
      PROVE MutexByPC' /\ GILByPC' /\ HolderRuns'
  BY <1>1 DEF lock_import, NoBlock, lock_import_again, lock_import_try, lock_import_wait
<1>2. ASSUME NEW t \in Thread, unlock_import(t) PROVE MutexByPC' /\ GILByPC' /\ HolderRuns'
  BY <1>2 DEF unlock_import
<1>3. ASSUME NEW t \in Thread, TakeTurn(t) \/ EndTurn(t) \/ Fork(t) \/ SpuriousWakeup(t)
      PROVE MutexByPC' /\ GILByPC' /\ HolderRuns'
  BY <1>3 DEF TakeTurn, EndTurn, Fork, SpuriousWakeup
<1>4. ASSUME NEW t \in Thread, pthread_mutex_lock(t)
      PROVE MutexByPC' /\ GILByPC' /\ HolderRuns'
  BY <1>4 DEF pthread_mutex_lock, LockMutex
<1>5. ASSUME NEW t \in Thread, PyEval_SaveThread(t) \/ PyEval_RestoreThread(t)
      PROVE MutexByPC' /\ GILByPC' /\ HolderRuns'
  BY <1>5 DEF PyEval_SaveThread, PyEval_RestoreThread, Holds
<1>6. ASSUME NEW t \in Thread, TryTest(t) \/ Test(t) \/ Release(t)
      PROVE MutexByPC' /\ GILByPC' /\ HolderRuns'
  BY <1>6 DEF TryTest, Test, Release, Holds
<1>7. ASSUME NEW t \in Thread, pthread_cond_signal(t)
      PROVE MutexByPC' /\ GILByPC' /\ HolderRuns'
  BY <1>7 DEF pthread_cond_signal, Waiting
<1>8. CASE UNCHANGED vars
  BY <1>8 DEF vars
<1> QED
  BY <1>1, <1>2, <1>3, <1>4, <1>5, <1>6, <1>7, <1>8 DEF Next, LockStep

-----------------------------------------------------------------------------
\* Who owns the lock is a matter of the name on it and of the program counters.
LEMMA OwnersSame ==
  ASSUME HolderOwns, UNCHANGED <<locked, importVars>>,
         \A t \in Thread : pc'[t] \in {"restore", "rel_lock", "rel"}
                             <=> pc[t] \in {"restore", "rel_lock", "rel"}
  PROVE  HolderOwns'
  BY DEF HolderOwns, Owns, importVars

\* A thread takes a free lock: it is the only owner.
LEMMA OwnerComes ==
  ASSUME HolderOwns, NEW t \in Thread, ~locked, locked', Owns(t)',
         \A u \in Thread \ {t} : Owns(u)' => Owns(u),
         import_lock_thread' # NoThread <=> import_lock_level' > 0
  PROVE  HolderOwns'
  BY DEF HolderOwns

\* Steps of an owner that leave it the owner.
LEMMA OwnerStays ==
  ASSUME HolderOwns, NEW t \in Thread, Owns(t), Owns(t)', locked' = locked,
         \A u \in Thread \ {t} : Owns(u)' => Owns(u),
         import_lock_thread' # NoThread <=> import_lock_level' > 0
  PROVE  HolderOwns'
  BY DEF HolderOwns

\* Every step keeps the owner unique and the flag true to it.
LEMMA StepHolderOwns == IInv /\ [Next]_vars => HolderOwns'
<1> SUFFICES ASSUME IInv, [Next]_vars PROVE HolderOwns'
  OBVIOUS
<1> USE ThreadAssumption DEF IInv, TypeOK, importVars, lockVars, Go, At, Runs
<1>1. ASSUME NEW t \in Thread, lock_import(t) \/ NoBlock(t) PROVE HolderOwns'
  <2>1. CASE lock_import_again(t)
    <3>1. UNCHANGED <<import_lock_thread, pc, locked>> /\ import_lock_level' > 0
      BY <1>1, <2>1 DEF lock_import_again, lock_import, NoBlock
    <3>2. Owns(t) /\ Owns(t)' /\ import_lock_thread' # NoThread
      BY <3>1, <2>1 DEF Owns, lock_import_again
    <3>3. \A u \in Thread \ {t} : Owns(u)' => Owns(u)
      BY <3>1 DEF Owns
    <3> QED BY <3>1, <3>2, <3>3, OwnerStays
  <2>2. CASE lock_import_try(t) \/ lock_import_wait(t)
    BY <1>1, <2>2, OwnersSame DEF lock_import_try, lock_import_wait, lock_import, NoBlock
  <2> QED BY <1>1, <2>1, <2>2 DEF lock_import, NoBlock
<1>2. ASSUME NEW t \in Thread, unlock_import(t) PROVE HolderOwns'
  <2>1. Owns(t) /\ locked' = locked
    BY <1>2 DEF unlock_import, Owns
  <2>2. Owns(t)' /\ \A u \in Thread \ {t} : Owns(u)' => Owns(u)
    BY <1>2 DEF unlock_import, Owns
  <2>3. import_lock_level \in 1 .. MaxLevel
    BY <1>2 DEF unlock_import, HolderOwns
  <2>4. import_lock_thread' # NoThread <=> import_lock_level' > 0
    BY <1>2, <2>3 DEF unlock_import
  <2> QED BY <2>1, <2>2, <2>4, OwnerStays
<1>3. ASSUME NEW t \in Thread, TakeTurn(t) \/ EndTurn(t) \/ Fork(t) \/ SpuriousWakeup(t)
      PROVE HolderOwns'
  BY <1>3, OwnersSame DEF TakeTurn, EndTurn, Fork, SpuriousWakeup
<1>4. ASSUME NEW t \in Thread, pthread_mutex_lock(t) PROVE HolderOwns'
  BY <1>4, OwnersSame DEF pthread_mutex_lock, LockMutex
<1>5. ASSUME NEW t \in Thread, PyEval_SaveThread(t) PROVE HolderOwns'
  BY <1>5, OwnersSame DEF PyEval_SaveThread
<1>6. ASSUME NEW t \in Thread, PyEval_RestoreThread(t) PROVE HolderOwns'
  <2>1. Owns(t) /\ Owns(t)' /\ locked' = locked
    BY <1>6 DEF PyEval_RestoreThread, Holds, Owns
  <2>2. \A u \in Thread \ {t} : Owns(u)' => Owns(u)
    BY <1>6 DEF PyEval_RestoreThread, Holds, Owns
  <2>3. import_lock_thread' # NoThread <=> import_lock_level' > 0
    BY <1>6 DEF PyEval_RestoreThread, Holds
  <2> QED BY <2>1, <2>2, <2>3, OwnerStays
<1>7. ASSUME NEW t \in Thread, TryTest(t) PROVE HolderOwns'
  <2>1. CASE locked
    BY <1>7, <2>1, OwnersSame DEF TryTest
  <2>2. CASE ~locked
    <3>1. locked' /\ Owns(t)'
      BY <1>7, <2>2 DEF TryTest, Holds, Owns
    <3>2. \A u \in Thread \ {t} : Owns(u)' => Owns(u)
      BY <1>7, <2>2 DEF TryTest, Holds, Owns
    <3>3. import_lock_thread' # NoThread <=> import_lock_level' > 0
      BY <1>7, <2>2 DEF TryTest, Holds
    <3> QED BY <2>2, <3>1, <3>2, <3>3, OwnerComes
  <2> QED BY <2>1, <2>2
<1>8. ASSUME NEW t \in Thread, Test(t) PROVE HolderOwns'
  <2>1. CASE locked
    BY <1>8, <2>1, OwnersSame DEF Test
  <2>2. CASE ~locked
    <3>1. locked' /\ Owns(t)' /\ \A u \in Thread \ {t} : Owns(u)' => Owns(u)
      BY <1>8, <2>2 DEF Test, Owns
    <3>2. import_lock_thread' # NoThread <=> import_lock_level' > 0
      BY <1>8 DEF Test, HolderOwns
    <3> QED BY <2>2, <3>1, <3>2, OwnerComes
  <2> QED BY <2>1, <2>2
<1>9. ASSUME NEW t \in Thread, Release(t) PROVE HolderOwns'
  <2>1. Owns(t)
    BY <1>9 DEF Release, Owns
  <2>2. \A u \in Thread : ~Owns(u)'
    BY <1>9, <2>1 DEF Release, Owns, HolderOwns, HolderRuns
  <2>3. ~locked' /\ UNCHANGED importVars
    BY <1>9 DEF Release
  <2> QED BY <2>2, <2>3 DEF HolderOwns
<1>10. ASSUME NEW t \in Thread, pthread_cond_signal(t) PROVE HolderOwns'
  BY <1>10, OwnersSame DEF pthread_cond_signal, Waiting
<1>11. CASE UNCHANGED vars
  BY <1>11, OwnersSame DEF vars
<1> QED
  BY <1>1, <1>2, <1>3, <1>4, <1>5, <1>6, <1>7, <1>8, <1>9, <1>10, <1>11 DEF Next, LockStep

\* The inductive invariant holds in every state.
THEOREM Inductive == Spec => []IInv
<1>1. IInv /\ [Next]_vars => IInv'
  BY StepTypeOK, StepByPC, StepHolderOwns DEF IInv
<1> QED
  BY InitIInv, <1>1, PTL DEF Spec

\* TypeOK for any threads and any bound on nested imports.
THEOREM TypesHold == Spec => []TypeOK
<1>1. IInv => TypeOK
  BY DEF IInv
<1> QED
  BY <1>1, Inductive, PTL

\* At most one thread owns the import lock, and while one does, and only then, the flag is set:
\* with forks, spurious wakeups and any number of threads.
THEOREM OneOwner == Spec => []HolderOwns
<1>1. IInv => HolderOwns
  BY DEF IInv
<1> QED
  BY <1>1, Inductive, PTL

\* No thread waits for the import lock while it has the interpreter lock.
THEOREM NobodySleepsWithGIL == Spec => []SleepsWithoutGIL
<1>1. IInv => SleepsWithoutGIL
  BY DEF IInv, SleepsWithoutGIL, GILByPC, MutexByPC
<1> QED
  BY <1>1, Inductive, PTL
-----------------------------------------------------------------------------
\* The threads whose next steps test the flag or signal.
Awake == {t \in Thread : pc[t] \in {"signal", "lock", "test", "try_test"}}
NoLostWakeupInv == (running = Thread /\ ~locked /\ Waiting # {}) => Awake # {}

\* A step that keeps the flag, that makes nobody wait, and whose thread was not awake or still is.
LEMMA AwakeStays ==
  ASSUME NoLostWakeupInv, running' = running, locked' = locked, Waiting' \subseteq Waiting,
         Awake \subseteq Awake'
  PROVE  NoLostWakeupInv'
  BY DEF NoLostWakeupInv

LEMMA StepNoLostWakeup == IInv /\ NoLostWakeupInv /\ [Next]_vars => NoLostWakeupInv'
<1> SUFFICES ASSUME IInv, NoLostWakeupInv, [Next]_vars PROVE NoLostWakeupInv'
  OBVIOUS
<1> USE ThreadAssumption DEF IInv, TypeOK, importVars, lockVars, Go, At, Runs
<1>1. ASSUME NEW t \in Thread,
             TakeTurn(t) \/ EndTurn(t) \/ lock_import(t) \/ NoBlock(t) \/ unlock_import(t)
             \/ PyEval_SaveThread(t) \/ PyEval_RestoreThread(t)
      PROVE NoLostWakeupInv'
  <2>1. running' = running /\ locked' = locked
    BY <1>1 DEF TakeTurn, EndTurn, lock_import, NoBlock, unlock_import, PyEval_SaveThread,
                PyEval_RestoreThread
  <2>2. \A u \in Thread : (pc'[u] = pc[u])
          \/ (pc[u] \in {"run", "save", "restore"} /\ pc'[u] # "wait")
    BY <1>1 DEF TakeTurn, EndTurn, lock_import, NoBlock, unlock_import, PyEval_SaveThread,
                PyEval_RestoreThread, lock_import_again, lock_import_try, lock_import_wait
  <2>3. Waiting' \subseteq Waiting /\ Awake \subseteq Awake'
    BY <2>1, <2>2 DEF Waiting, Awake
  <2> QED BY <2>1, <2>3, AwakeStays
<1>2. ASSUME NEW t \in Thread, LockMutex(t, "try_lock", "try_test") \/ LockMutex(t, "lock", "test")
                               \/ LockMutex(t, "rel_lock", "rel")
      PROVE NoLostWakeupInv'
  <2>1. running' = running /\ locked' = locked
    BY <1>2 DEF LockMutex
  <2>2. Waiting' \subseteq Waiting /\ Awake \subseteq Awake'
    BY <1>2, <2>1 DEF LockMutex, Waiting, Awake
  <2> QED BY <2>1, <2>2, AwakeStays
<1>3. ASSUME NEW t \in Thread, TryTest(t) \/ Test(t) PROVE NoLostWakeupInv'
  BY <1>3 DEF TryTest, Test, NoLostWakeupInv
<1>4. ASSUME NEW t \in Thread, Release(t) \/ SpuriousWakeup(t) PROVE NoLostWakeupInv'
  <2>1. t \in Awake'
    BY <1>4 DEF Release, SpuriousWakeup, Awake
  <2> QED BY <2>1 DEF NoLostWakeupInv
<1>5. ASSUME NEW t \in Thread, pthread_cond_signal(t) PROVE NoLostWakeupInv'
  <2>1. CASE Waiting = {} /\ Go(t, "run")
    <3>1. Waiting' = {}
      BY <1>5, <2>1 DEF pthread_cond_signal, Waiting
    <3> QED BY <3>1 DEF NoLostWakeupInv
  <2>2. ASSUME NEW w \in Waiting, pc' = [pc EXCEPT ![t] = "run", ![w] = "lock"]
        PROVE NoLostWakeupInv'
    <3>1. w \in Awake'
      BY <2>2 DEF Awake, Waiting
    <3> QED BY <3>1 DEF NoLostWakeupInv
  <2> QED BY <1>5, <2>1, <2>2 DEF pthread_cond_signal
<1>6. ASSUME NEW t \in Thread, Fork(t) PROVE NoLostWakeupInv'
  <2>1. running = Thread /\ locked' = locked /\ UNCHANGED pc /\ running' \subseteq running
    BY <1>6 DEF Fork
  <2>2. Waiting' \subseteq Waiting /\ Awake = Awake'
    BY <2>1 DEF Waiting, Awake
  <2> QED BY <2>1, <2>2 DEF NoLostWakeupInv
<1>7. CASE UNCHANGED vars
  <2>1. Waiting' = Waiting /\ Awake' = Awake
    BY <1>7 DEF vars, Waiting, Awake
  <2> QED BY <1>7, <2>1, AwakeStays DEF vars
<1> QED
  BY <1>1, <1>2, <1>3, <1>4, <1>5, <1>6, <1>7 DEF Next, LockStep, pthread_mutex_lock

\* No wakeup is lost, for any number of threads.
THEOREM WakeupsReach == Spec => []NoLostWakeup
<1>1. Init => NoLostWakeupInv
  BY DEF Init, NoLostWakeupInv, Waiting
<1>2. NoLostWakeupInv => NoLostWakeup
  BY DEF NoLostWakeupInv, NoLostWakeup, Awake
<1> QED
  BY <1>1, <1>2, Inductive, StepNoLostWakeup, PTL DEF Spec
-----------------------------------------------------------------------------
\* The lock as a semaphore.
value == IF locked THEN 0 ELSE 1
asking == {t \in Thread : pc[t] \in Asking}

\* A step that keeps the flag and who asks is a stutter of the semaphore.
LEMMA SemStutters ==
  ASSUME locked' = locked, pc \in [Thread -> PC], pc' \in [Thread -> PC],
         \A t \in Thread : pc'[t] \in Asking <=> pc[t] \in Asking
  PROVE  UNCHANGED Sem!semVars
<1>1. asking' = asking
  BY DEF asking
<1> QED
  BY <1>1 DEF Sem!semVars, asking

\* Every step is a step of the semaphore or a stutter.
LEMMA SemStep == IInv /\ IInv' /\ [Next]_vars => [Sem!SemNext]_(Sem!semVars)
<1> SUFFICES ASSUME IInv, IInv', [Next]_vars PROVE [Sem!SemNext]_(Sem!semVars)
  OBVIOUS
<1> USE ThreadAssumption DEF importVars, lockVars, Go, At, Runs
<1>0. pc \in [Thread -> PC] /\ pc' \in [Thread -> PC] /\ locked \in BOOLEAN
  BY DEF IInv, TypeOK
<1>1. ASSUME NEW t \in Thread,
             TakeTurn(t) \/ EndTurn(t) \/ lock_import(t) \/ NoBlock(t) \/ unlock_import(t)
             \/ PyEval_RestoreThread(t) \/ Fork(t) \/ SpuriousWakeup(t) \/ pthread_mutex_lock(t)
             \/ pthread_cond_signal(t)
      PROVE UNCHANGED Sem!semVars
  <2>1. locked' = locked
    BY <1>1 DEF TakeTurn, EndTurn, lock_import, NoBlock, unlock_import, PyEval_RestoreThread,
                Fork, SpuriousWakeup, pthread_mutex_lock, LockMutex, pthread_cond_signal
  <2>2. CASE TakeTurn(t) \/ EndTurn(t) \/ lock_import(t) \/ NoBlock(t) \/ unlock_import(t)
    BY <1>0, <2>1, <2>2, SemStutters
       DEF TakeTurn, EndTurn, lock_import, NoBlock, unlock_import,
           lock_import_again, lock_import_try, lock_import_wait
  <2>3. CASE PyEval_RestoreThread(t) \/ Fork(t) \/ SpuriousWakeup(t)
    BY <1>0, <2>1, <2>3, SemStutters DEF PyEval_RestoreThread, Fork, SpuriousWakeup
  <2>4. CASE pthread_mutex_lock(t)
    BY <1>0, <2>1, <2>4, SemStutters DEF pthread_mutex_lock, LockMutex
  <2>5. CASE pthread_cond_signal(t)
    BY <1>0, <2>1, <2>5, SemStutters DEF pthread_cond_signal, Waiting
  <2> QED BY <1>1, <2>2, <2>3, <2>4, <2>5
<1>2. ASSUME NEW t \in Thread, PyEval_SaveThread(t) PROVE Sem!Ask(t)
  <2>1. t \notin asking /\ asking' = asking \cup {t} /\ locked' = locked
    BY <1>0, <1>2 DEF PyEval_SaveThread, asking
  <2> QED BY <2>1 DEF Sem!Ask, asking
<1>3. ASSUME NEW t \in Thread, TryTest(t) PROVE Sem!sem_trywait \/ UNCHANGED Sem!semVars
  <2>1. locked' /\ asking' = asking
    BY <1>0, <1>3 DEF TryTest, asking
  <2> QED BY <1>0, <2>1 DEF Sem!sem_trywait, Sem!semVars, asking
<1>4. ASSUME NEW t \in Thread, Test(t) PROVE Sem!sem_wait(t) \/ UNCHANGED Sem!semVars
  <2>1. CASE locked
    <3>1. locked' /\ asking' = asking
      BY <1>0, <1>4, <2>1 DEF Test, asking
    <3> QED BY <2>1, <3>1 DEF Sem!semVars, asking
  <2>2. CASE ~locked
    <3>1. locked' /\ t \in asking /\ asking' = asking \ {t}
      BY <1>0, <1>4, <2>2 DEF Test, asking
    <3> QED BY <2>2, <3>1 DEF Sem!sem_wait, asking
  <2> QED BY <2>1, <2>2
<1>5. ASSUME NEW t \in Thread, Release(t) PROVE Sem!sem_post
  <2>1. locked
    BY <1>5 DEF Release, IInv, HolderOwns, Owns
  <2>2. ~locked' /\ asking' = asking
    BY <1>0, <1>5 DEF Release, asking
  <2> QED BY <2>1, <2>2 DEF Sem!sem_post, asking
<1>6. CASE UNCHANGED vars
  BY <1>6 DEF vars, Sem!semVars
<1> QED
  BY <1>1, <1>2, <1>3, <1>4, <1>5, <1>6 DEF Next, LockStep, Sem!SemNext

\* The flag under a mutex implements the semaphore, for any number of threads.
THEOREM LockIsSemaphore == Spec => ImplementsSemaphore
<1>1. Init => Sem!SemInit
  BY DEF Init, Sem!SemInit
<1>2. Spec => [][Sem!SemNext]_(Sem!semVars)
  BY Inductive, SemStep, PTL DEF Spec
<1> QED
  BY <1>1, <1>2, PTL DEF Spec, ImplementsSemaphore, Sem!SemSpec
=============================================================================
