----------------------------- MODULE FutexMutex -----------------------------
(***************************************************************************)
(* The futex mutex of src/src/platform/linux/thread.c.  The lock word is   *)
(* 0 (free), 1 (held) or 2 (held, and somebody may sleep on it).  Every    *)
(* atomic instruction and every futex call of a thread is a step of its    *)
(* own.                                                                    *)
(***************************************************************************)
EXTENDS Naturals, Futex

CONSTANT Nobody   \* the abstract owner of a mutex nobody holds

ASSUME NobodyAssumption == Nobody \notin Threads

VARIABLES mutexState,   \* PlatformMutex.state
          mpc           \* where each thread is in platform_mutex_lock/unlock

mutexVars == <<mutexState, mpc>>

(***************************************************************************)
(* "out"    outside the mutex          "cs"     holds it                   *)
(* "xchg"   about to exchange in a 2   "store"  unlocking, about to store  *)
(* "futex"  about to call futex_wait   "wake"   about to call futex_wake   *)
(* "asleep" queued in the kernel                                           *)
(***************************************************************************)
Places == {"out", "xchg", "futex", "asleep", "cs", "store", "wake"}

Go(t, place) == mpc' = [mpc EXCEPT ![t] = place]

MutexInit ==
    /\ mutexState = 0
    /\ mpc = [t \in Threads |-> "out"]

LockCasIgnoresResult(t) ==
    /\ mpc[t] = "out"
    /\ mutexState' = IF mutexState = 0 THEN 1 ELSE mutexState
    /\ Go(t, "cs")

\* The uncontended path: compare-and-exchange 0 -> 1.
LockCas(t) ==
    /\ mpc[t] = "out"
    /\ \/ mutexState = 0 /\ mutexState' = 1 /\ Go(t, "cs")
       \/ mutexState # 0 /\ UNCHANGED mutexState /\ Go(t, "xchg")

LockXchgTakesUncontended(t) ==
    /\ mpc[t] = "xchg"
    /\ mutexState' = IF mutexState = 0 THEN 1 ELSE 2
    /\ Go(t, IF mutexState = 0 THEN "cs" ELSE "futex")

\* The contended path always leaves a 2, whoever it finds.
LockXchg(t) ==
    /\ mpc[t] = "xchg"
    /\ mutexState' = 2
    /\ Go(t, IF mutexState = 0 THEN "cs" ELSE "futex")

\* futex_wait(&state, 2) compares and queues atomically; EAGAIN is ignored.
FutexWait(t) ==
    /\ mpc[t] = "futex"
    /\ Go(t, IF mutexState = 2 THEN "asleep" ELSE "xchg")
    /\ UNCHANGED mutexState

\* A signal ends the wait (EINTR is ignored and the loop tries again).
Interrupted(t) ==
    /\ mpc[t] = "asleep"
    /\ Go(t, "xchg")
    /\ UNCHANGED mutexState

\* fetch_sub(1): from 1 the mutex is free, from 2 it is still closed.
UnlockSub(t) ==
    /\ mpc[t] = "cs"
    /\ mutexState' = mutexState - 1
    /\ Go(t, IF mutexState = 1 THEN "out" ELSE "store")

UnlockStore(t) ==
    /\ mpc[t] = "store"
    /\ mutexState' = 0
    /\ Go(t, "wake")

\* futex_wake(&state, 1): one sleeper, if there is one, runs again.
UnlockWake(t) ==
    /\ mpc[t] = "wake"
    /\ UNCHANGED mutexState
    /\ \/ Asleep(mpc) = {} /\ Go(t, "out")
       \/ \E s \in Asleep(mpc) : mpc' = [mpc EXCEPT ![t] = "out", ![s] = "xchg"]

\* The steps of a thread that is inside platform_mutex_lock and of one that
\* is inside platform_mutex_unlock.
LockStep(t) == LockXchg(t) \/ FutexWait(t)
UnlockStep(t) == UnlockStore(t) \/ UnlockWake(t)

MutexNext ==
    \E t \in Threads : \/ LockCas(t)
                       \/ LockStep(t)
                       \/ Interrupted(t)
                       \/ UnlockSub(t)
                       \/ UnlockStep(t)

MutexSpec == MutexInit /\ [][MutexNext]_mutexVars

-----------------------------------------------------------------------------
MutexTypeOK ==
    /\ mutexState \in 0..2
    /\ mpc \in [Threads -> Places]

\* A thread keeps the mutex closed from the lock to the store of its unlock.
Holds(t) == mpc[t] \in {"cs", "store"}

(***************************************************************************)
(* Mutual exclusion: no two threads are inside the region that             *)
(* platform_mutex_lock and platform_mutex_unlock delimit, also while the   *)
(* unlock of a contended mutex is between its fetch_sub and its store,     *)
(* when the word reads 1 and nobody is in the critical section.            *)
(***************************************************************************)
MutualExclusion ==
    \A t, u \in Threads : Holds(t) /\ Holds(u) => t = u

(***************************************************************************)
(* No lost wake-up: while a thread sleeps on the mutex, some other thread  *)
(* is bound to find it: a holder that will see the 2, an unlock that is    *)
(* about to wake, or a contender that will leave a 2 behind.               *)
(***************************************************************************)
WillWake(t) ==
    \/ mpc[t] \in {"xchg", "futex", "store", "wake"}
    \/ mpc[t] = "cs" /\ mutexState = 2

NoLostWakeup == Asleep(mpc) # {} => \E t \in Threads : WillWake(t)

(***************************************************************************)
(* The mutex implements the abstract lock whose owner is the thread in its *)
(* critical section.                                                       *)
(***************************************************************************)
Owner ==
    IF \E t \in Threads : mpc[t] = "cs"
    THEN CHOOSE t \in Threads : mpc[t] = "cs"
    ELSE Nobody

Lock == INSTANCE AbstractLock WITH owner <- Owner

ImplementsLock == Lock!Spec
=============================================================================
