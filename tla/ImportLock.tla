------------------------------ MODULE ImportLock ------------------------------
(***************************************************************************)
(* The import lock of Python/import.c, held on a lock that is a flag under *)
(* a mutex (Python/thread_pthread.h without USE_SEMAPHORES), by threads    *)
(* that take turns with the interpreter lock; and os.fork.                 *)
(*                                                                         *)
(* After a fork the model goes on in the child: the thread that forked is  *)
(* the only one that still runs, and the others keep what they held.  The  *)
(* parent behaves as if there had been no fork.                            *)
(***************************************************************************)
EXTENDS Naturals

CONSTANTS Thread, NoThread,
          MaxLevel            \* bound: nested imports of a thread

ASSUME ThreadAssumption == NoThread \notin Thread /\ MaxLevel \in Nat \ {0}

VARIABLES
  running,               \* threads of this process
  interpreter_lock,      \* the thread that has it, or NoThread
  import_lock_thread, import_lock_level,
  locked, mut,           \* the import lock: its flag, and who has its mutex
  pc,                    \* where each thread is
  noblock,               \* threads inside PyImport_ImportModuleNoBlock
  orphaned               \* history: at the fork another thread had the lock or its mutex

lockVars == <<locked, mut>>
importVars == <<import_lock_thread, import_lock_level>>
vars == <<running, interpreter_lock, importVars, lockVars, pc, noblock, orphaned>>

\* The steps of PyThread_acquire_lock(lock, 0): lock the mutex, test and set;
Trying == {"try_lock", "try_test"}
\* of PyThread_acquire_lock(lock, 1), without the interpreter lock;
Asking == {"lock", "test", "wait"}
\* and of PyThread_release_lock.
Releasing == {"rel_lock", "rel", "signal"}
PC == {"run", "save", "restore"} \cup Trying \cup Asking \cup Releasing

TypeOK ==
  /\ running \subseteq Thread
  /\ interpreter_lock \in Thread \cup {NoThread} /\ import_lock_thread \in Thread \cup {NoThread}
  /\ mut \in Thread \cup {NoThread} /\ locked \in BOOLEAN
  /\ import_lock_level \in 0 .. MaxLevel
  /\ pc \in [Thread -> PC] /\ noblock \subseteq Thread /\ orphaned \in BOOLEAN

Init ==
  /\ running = Thread /\ interpreter_lock = NoThread
  /\ import_lock_thread = NoThread /\ import_lock_level = 0
  /\ locked = FALSE /\ mut = NoThread
  /\ pc = [t \in Thread |-> "run"] /\ noblock = {} /\ orphaned = FALSE

At(t, l) == t \in running /\ pc[t] = l
Go(t, l) == pc' = [pc EXCEPT ![t] = l]
\* Python code of the thread runs.
Runs(t) == At(t, "run") /\ interpreter_lock = t
-----------------------------------------------------------------------------
(* The interpreter lock: the evaluation loop takes it and lets it go.       *)

TakeTurn(t) ==
  /\ At(t, "run") /\ interpreter_lock = NoThread /\ interpreter_lock' = t
  /\ UNCHANGED <<running, importVars, lockVars, pc, noblock, orphaned>>

EndTurn(t) ==
  /\ Runs(t) /\ interpreter_lock' = NoThread
  /\ UNCHANGED <<running, importVars, lockVars, pc, noblock, orphaned>>
-----------------------------------------------------------------------------
(* import.c                                                                 *)

\* The thread is known to hold the lock.
Holds(t) == import_lock_thread' = t /\ import_lock_level' = 1

lock_import_again(t) ==
  /\ import_lock_thread = t
  /\ import_lock_level < MaxLevel /\ import_lock_level' = import_lock_level + 1
  /\ UNCHANGED <<import_lock_thread, pc>>
lock_import_try(t) ==
  /\ import_lock_thread = NoThread /\ Go(t, "try_lock") /\ UNCHANGED importVars
lock_import_wait_for_me(t) ==
  /\ import_lock_thread # NoThread /\ Go(t, "save") /\ UNCHANGED importVars
lock_import_wait_with_gil(t) ==
  /\ import_lock_thread \notin {NoThread, t} /\ Go(t, "lock") /\ UNCHANGED importVars
lock_import_wait(t) ==
  /\ import_lock_thread \notin {NoThread, t} /\ Go(t, "save") /\ UNCHANGED importVars

lock_import(t) ==
  /\ Runs(t)
  /\ lock_import_again(t) \/ lock_import_try(t) \/ lock_import_wait(t)
  /\ UNCHANGED <<running, interpreter_lock, lockVars, noblock, orphaned>>

\* PyImport_ImportModuleNoBlock imports when it finds nobody else's name on the lock.
NoBlock(t) ==
  /\ Runs(t)
  /\ lock_import_again(t) \/ lock_import_try(t)
  /\ noblock' = IF import_lock_thread = t THEN noblock ELSE noblock \cup {t}
  /\ UNCHANGED <<running, interpreter_lock, lockVars, orphaned>>

PyEval_SaveThread(t) ==
  /\ At(t, "save") /\ interpreter_lock' = NoThread /\ Go(t, "lock")
  /\ UNCHANGED <<running, importVars, lockVars, noblock, orphaned>>

PyEval_RestoreThread(t) ==
  /\ At(t, "restore") /\ interpreter_lock = NoThread /\ interpreter_lock' = t
  /\ Holds(t) /\ Go(t, "run")
  /\ noblock' = noblock \ {t}
  /\ UNCHANGED <<running, lockVars, orphaned>>

\* unlock_import, for an import that ends and for imp.release_lock().
unlock_import_unchecked(t) ==
  /\ Runs(t)
  /\ import_lock_level' = import_lock_level - 1
  /\ IF import_lock_level = 1 THEN import_lock_thread' = NoThread /\ Go(t, "rel_lock")
     ELSE UNCHANGED <<import_lock_thread, pc>>
  /\ UNCHANGED <<running, interpreter_lock, lockVars, noblock, orphaned>>
unlock_import(t) ==
  /\ Runs(t) /\ import_lock_thread = t
  /\ import_lock_level' = import_lock_level - 1
  /\ IF import_lock_level = 1 THEN import_lock_thread' = NoThread /\ Go(t, "rel_lock")
     ELSE UNCHANGED <<import_lock_thread, pc>>
  /\ UNCHANGED <<running, interpreter_lock, lockVars, noblock, orphaned>>
-----------------------------------------------------------------------------
(* thread_pthread.h                                                         *)

LockMutex(t, from, to) ==
  /\ At(t, from) /\ mut = NoThread /\ mut' = t /\ Go(t, to)
  /\ UNCHANGED <<running, interpreter_lock, importVars, locked, noblock, orphaned>>
pthread_mutex_lock(t) ==
  \/ LockMutex(t, "try_lock", "try_test")
  \/ LockMutex(t, "lock", "test")
  \/ LockMutex(t, "rel_lock", "rel")

\* PyThread_acquire_lock(lock, 0), and back in lock_import.
TryTest(t) ==
  /\ At(t, "try_test") /\ mut' = NoThread /\ locked' = TRUE
  /\ IF locked THEN Go(t, "save") /\ UNCHANGED <<importVars, noblock>>
               ELSE Go(t, "run") /\ Holds(t) /\ noblock' = noblock \ {t}
  /\ UNCHANGED <<running, interpreter_lock, orphaned>>

\* PyThread_acquire_lock(lock, 1): the loop around pthread_cond_wait.
Test(t) ==
  /\ At(t, "test") /\ mut' = NoThread /\ locked' = TRUE
  /\ Go(t, IF locked THEN "wait" ELSE "restore")
  /\ UNCHANGED <<running, interpreter_lock, importVars, noblock, orphaned>>

\* pthread_cond_wait returns without a signal.
SpuriousWakeup_gives_up(t) ==
  /\ At(t, "wait") /\ Go(t, "run")
  /\ UNCHANGED <<running, interpreter_lock, importVars, lockVars, noblock, orphaned>>
SpuriousWakeup(t) ==
  /\ At(t, "wait") /\ Go(t, "lock")
  /\ UNCHANGED <<running, interpreter_lock, importVars, lockVars, noblock, orphaned>>

Release_quietly(t) ==
  /\ At(t, "rel") /\ locked' = FALSE /\ mut' = NoThread /\ Go(t, "run")
  /\ UNCHANGED <<running, interpreter_lock, importVars, noblock, orphaned>>
Release(t) ==
  /\ At(t, "rel") /\ locked' = FALSE /\ mut' = NoThread /\ Go(t, "signal")
  /\ UNCHANGED <<running, interpreter_lock, importVars, noblock, orphaned>>

Waiting == {t \in running : pc[t] = "wait"}
pthread_cond_signal(t) ==
  /\ At(t, "signal")
  /\ \/ Waiting = {} /\ Go(t, "run")
     \/ \E w \in Waiting : pc' = [pc EXCEPT ![t] = "run", ![w] = "lock"]
  /\ UNCHANGED <<running, interpreter_lock, importVars, lockVars, noblock, orphaned>>
-----------------------------------------------------------------------------
(* posix_fork and PyOS_AfterFork: the child's interpreter lock is new and   *)
(* the thread has it; its import lock is the parent's.                      *)

Owns(t) == import_lock_thread = t \/ pc[t] \in {"restore", "rel_lock", "rel"}
Fork_new_lock(t) ==
  /\ Runs(t) /\ running = Thread
  /\ running' = {t} /\ locked' = FALSE /\ mut' = NoThread /\ orphaned' = FALSE
  /\ UNCHANGED <<interpreter_lock, importVars, pc, noblock>>
Fork(t) ==
  /\ Runs(t) /\ running = Thread
  /\ running' = {t}
  /\ orphaned' = (mut # NoThread \/ \E u \in Thread \ {t} : Owns(u))
  /\ UNCHANGED <<interpreter_lock, importVars, lockVars, pc, noblock>>
-----------------------------------------------------------------------------
LockStep(t) ==
  \/ PyEval_SaveThread(t) \/ PyEval_RestoreThread(t)
  \/ pthread_mutex_lock(t) \/ TryTest(t) \/ Test(t) \/ Release(t) \/ pthread_cond_signal(t)
Next == \E t \in Thread :
  \/ TakeTurn(t) \/ EndTurn(t) \/ lock_import(t) \/ NoBlock(t) \/ unlock_import(t)
  \/ LockStep(t) \/ SpuriousWakeup(t) \/ Fork(t)
Spec == Init /\ [][Next]_vars

\* A thread inside C functions of the lock goes on.
FairSpec == Spec /\ \A t \in Thread : WF_vars(LockStep(t))
-----------------------------------------------------------------------------
(* Properties.                                                              *)

\* One thread at a time owns the lock, and while one does its flag is set: the thread whose name
\* is on it and whose level is counted, or one that has just acquired or is about to release it.
HolderOwns ==
  /\ \A t, u \in Thread : Owns(t) /\ Owns(u) => t = u
  /\ locked <=> \E t \in Thread : Owns(t)
  /\ import_lock_thread # NoThread <=> import_lock_level > 0

\* A flag under a mutex is a semaphore: acquiring, trying and releasing are atomic, and nobody
\* releases a free lock.
Sem == INSTANCE ThreadLock WITH value <- IF locked THEN 0 ELSE 1,
                                asking <- {t \in Thread : pc[t] \in Asking}
ImplementsSemaphore == Sem!SemSpec

\* No wakeup is lost: while the lock is free and a thread sleeps on it, some thread is about to
\* signal or to test the flag, though a thread that never slept may take the lock in between.
NoLostWakeup ==
  (running = Thread /\ ~locked /\ Waiting # {}) =>
    \E t \in Thread : pc[t] \in {"signal", "lock", "test", "try_test"}

\* Nobody sleeps, or takes long, with the interpreter lock: whoever has the mutex needs no other
\* lock to let it go, and a thread that waits for the import lock has let the interpreter go. A
\* mutex whose owner a fork did not copy counts as no offence here: the child of such a fork that
\* tries the lock waits in try_lock for ever, and with the interpreter lock.
SleepsWithoutGIL ==
  /\ \A t \in Thread : pc[t] \in Asking \cup {"restore"} => interpreter_lock # t
  /\ \A t \in Thread : mut = t => pc[t] \in {"try_test", "test", "rel"}

\* A lock that is free does not stay free while threads of a process without fork ask for it.
LockTaken ==
  (running = Thread /\ ~locked /\ \E t \in Thread : pc[t] \in Asking)
    ~> (running # Thread \/ locked)

\* After a fork, unless another thread of the parent had the import lock or was inside its mutex,
\* the child's thread that imports gets the lock.
ChildImports ==
  \A t \in Thread : (running = {t} /\ ~orphaned /\ pc[t] # "run") ~> (pc[t] = "run")

\* PyImport_ImportModuleNoBlock does not wait for another thread.
NoBlockNeverWaits == \A t \in noblock : pc[t] \notin {"save", "restore"} \cup Asking
=============================================================================
