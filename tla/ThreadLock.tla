------------------------------ MODULE ThreadLock ------------------------------
(***************************************************************************)
(* What PyThread_acquire_lock and PyThread_release_lock promise: the       *)
(* implementation by a semaphore (Python/thread_pthread.h, USE_SEMAPHORES).*)
(***************************************************************************)
EXTENDS Naturals

CONSTANT Thread
VARIABLES value,     \* of the semaphore: 1 when the lock is free
          asking     \* threads inside PyThread_acquire_lock(lock, 1)

semVars == <<value, asking>>
SemInit == value = 1 /\ asking = {}

Ask(t) == t \notin asking /\ asking' = asking \cup {t} /\ UNCHANGED value
sem_wait(t) == t \in asking /\ value > 0 /\ value' = value - 1 /\ asking' = asking \ {t}
sem_trywait == value > 0 /\ value' = value - 1 /\ UNCHANGED asking
\* Nobody releases a lock that is free: the semaphore never counts past 1.
sem_post == value = 0 /\ value' = value + 1 /\ UNCHANGED asking

SemNext == (\E t \in Thread : Ask(t) \/ sem_wait(t)) \/ sem_trywait \/ sem_post
SemSpec == SemInit /\ [][SemNext]_semVars
=============================================================================
