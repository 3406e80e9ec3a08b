--------------------------- MODULE FutexSemaphore ---------------------------
(***************************************************************************)
(* The counting semaphore of src/src/platform/linux/thread.c: a waiter     *)
(* loads the count, tries to take one permit by compare-and-exchange and   *)
(* sleeps in the kernel while the count is 0; a poster adds one permit and *)
(* wakes one sleeper.  One step per atomic instruction or futex call.      *)
(*                                                                         *)
(* posted and granted are history variables: the calls of                  *)
(* platform_semaphore_post that have added their permit and the calls of   *)
(* platform_semaphore_wait that have taken one.                            *)
(***************************************************************************)
EXTENDS Integers, FiniteSets, Futex

CONSTANTS Initial,   \* the value given to platform_semaphore_init
          MaxPosts   \* bound: posts in one behaviour

ASSUME SemaphoreAssumption ==
    /\ IsFiniteSet(Threads)
    /\ Initial \in Nat
    /\ MaxPosts \in Nat

VARIABLES count,     \* PlatformSemaphore.count
          spc,       \* where each thread is
          loaded,    \* the local "value" of platform_semaphore_wait
          posted,
          granted

semVars == <<count, spc, loaded, posted, granted>>

(***************************************************************************)
(* "out"   outside         "futex"  about to call futex_wait               *)
(* "load"  about to load   "asleep" queued in the kernel                   *)
(* "test"  has a value     "wake"   posted, about to call futex_wake       *)
(***************************************************************************)
SemPlaces == {"out", "load", "test", "futex", "asleep", "wake"}

SemGo(t, place) == spc' = [spc EXCEPT ![t] = place]

SemInit ==
    /\ count = Initial
    /\ spc = [t \in Threads |-> "out"]
    /\ loaded = [t \in Threads |-> 0]
    /\ posted = 0
    /\ granted = 0

WaitCall(t) ==
    /\ spc[t] = "out"
    /\ SemGo(t, "load")
    /\ UNCHANGED <<count, loaded, posted, granted>>

WaitLoad(t) ==
    /\ spc[t] = "load"
    /\ loaded' = [loaded EXCEPT ![t] = count]
    /\ SemGo(t, "test")
    /\ UNCHANGED <<count, posted, granted>>

WaitCasStoresBlindly(t) ==
    /\ spc[t] = "test"
    /\ loaded[t] > 0
    /\ count' = loaded[t] - 1
    /\ granted' = granted + 1
    /\ SemGo(t, "out")
    /\ UNCHANGED <<loaded, posted>>

\* while (value > 0): a failed exchange reloads the value.
WaitCas(t) ==
    /\ spc[t] = "test"
    /\ loaded[t] > 0
    /\ \/ /\ count = loaded[t]
          /\ count' = loaded[t] - 1
          /\ granted' = granted + 1
          /\ SemGo(t, "out")
          /\ UNCHANGED <<loaded, posted>>
       \/ /\ count # loaded[t]
          /\ loaded' = [loaded EXCEPT ![t] = count]
          /\ UNCHANGED <<count, spc, posted, granted>>

WaitEmpty(t) ==
    /\ spc[t] = "test"
    /\ loaded[t] <= 0
    /\ SemGo(t, "futex")
    /\ UNCHANGED <<count, loaded, posted, granted>>

SleepTrustsValue(t) ==
    /\ spc[t] = "futex"
    /\ SemGo(t, "asleep")
    /\ UNCHANGED <<count, loaded, posted, granted>>

\* futex_wait(&count, 0): sleeps only while the count still is 0.
WaitSleep(t) ==
    /\ spc[t] = "futex"
    /\ SemGo(t, IF count = 0 THEN "asleep" ELSE "load")
    /\ UNCHANGED <<count, loaded, posted, granted>>

\* EINTR: the loop loads again.
WaitInterrupted(t) ==
    /\ spc[t] = "asleep"
    /\ SemGo(t, "load")
    /\ UNCHANGED <<count, loaded, posted, granted>>

PostCall(t) ==
    /\ spc[t] = "out"
    /\ posted < MaxPosts
    /\ count' = count + 1
    /\ posted' = posted + 1
    /\ SemGo(t, "wake")
    /\ UNCHANGED <<loaded, granted>>

PostWakeOnlyFromZero(t) ==
    /\ spc[t] = "wake"
    /\ \/ (Asleep(spc) = {} \/ count > 1) /\ SemGo(t, "out")
       \/ /\ count <= 1
          /\ \E s \in Asleep(spc) : spc' = [spc EXCEPT ![t] = "out", ![s] = "load"]
    /\ UNCHANGED <<count, loaded, posted, granted>>

\* futex_wake(&count, 1)
PostWake(t) ==
    /\ spc[t] = "wake"
    /\ \/ Asleep(spc) = {} /\ SemGo(t, "out")
       \/ \E s \in Asleep(spc) : spc' = [spc EXCEPT ![t] = "out", ![s] = "load"]
    /\ UNCHANGED <<count, loaded, posted, granted>>

\* What a thread does inside a call without waiting for anybody.
Running(t) == WaitLoad(t) \/ WaitCas(t) \/ WaitEmpty(t) \/ WaitSleep(t) \/ PostWake(t)

SemNext ==
    \E t \in Threads : WaitCall(t) \/ Running(t) \/ WaitInterrupted(t) \/ PostCall(t)

SemSpec == SemInit /\ [][SemNext]_semVars

\* The kernel runs every runnable thread; nobody is obliged to call, and
\* signals need not come.
FairSemSpec == SemSpec /\ \A t \in Threads : WF_semVars(Running(t))

-----------------------------------------------------------------------------
SemTypeOK ==
    /\ count \in Nat
    /\ spc \in [Threads -> SemPlaces]
    /\ loaded \in [Threads -> Nat]
    /\ posted \in 0..MaxPosts
    /\ granted \in Nat

(***************************************************************************)
(* Permits are conserved: what waits have taken and what is left add up to *)
(* the initial value and the posts, so that no permit is granted twice and *)
(* none is lost, whatever the races between the exchanges.                 *)
(***************************************************************************)
PermitsConserved == granted + count = Initial + posted

(***************************************************************************)
(* No stranded permit: while somebody sleeps, every permit in the count    *)
(* has a thread of its own that will look for it, a waiter still running   *)
(* its loop or a poster that is about to wake a sleeper.                   *)
(***************************************************************************)
Awake == {t \in Threads : spc[t] \in {"load", "test", "futex", "wake"}}

NoStrandedPermit == Asleep(spc) # {} => count <= Cardinality(Awake)

(***************************************************************************)
(* A thread in platform_semaphore_wait does not stay there while permits   *)
(* are left: a permit and a waiter meet, or the permits run out.           *)
(***************************************************************************)
Waiters == {t \in Threads : spc[t] \in {"load", "test", "futex", "asleep"}}

PermitsMeetWaiters == (count > 0 /\ Waiters # {}) ~> (count = 0 \/ Waiters = {})
=============================================================================
