---------------------------- MODULE ThreadProofs ----------------------------
(***************************************************************************)
(* Proofs about threads that share memory, for any number of them and any  *)
(* schedule: of src/src/platform/linux/thread.c the mutex (mutual          *)
(* exclusion, no lost wake-up, refinement of the abstract lock), the       *)
(* semaphore (permits conserved and never stranded), and the start and     *)
(* join of threads that count under the mutex (ThreadTest); of             *)
(* src/src/tools/rte_gpu_route.cu the kernels of the search (GpuTransit):  *)
(* its labels do not depend on the schedule and can be travelled.          *)
(***************************************************************************)
EXTENDS ThreadTest, FutexSemaphore, GpuTransit, WellFoundedInduction, FiniteSetTheorems, TLAPS

-----------------------------------------------------------------------------
(***************************************************************************)
(* The mutex.                                                              *)
(***************************************************************************)

(***************************************************************************)
(* The strengthening: the word is 0 exactly when nobody holds the mutex.   *)
(* From it a thread that wins an exchange or a compare-and-exchange on a 0 *)
(* is alone, and a thread that reads a 2 knows of a holder.                *)
(***************************************************************************)
WordInv ==
    /\ MutexTypeOK
    /\ MutualExclusion
    /\ mutexState = 0 <=> ~ \E t \in Threads : Holds(t)

LEMMA WordInvInductive == WordInv /\ [MutexNext]_mutexVars => WordInv'
<1> SUFFICES ASSUME WordInv, [MutexNext]_mutexVars
             PROVE  WordInv'
    OBVIOUS
<1> USE DEF WordInv, MutexTypeOK, MutualExclusion, Holds, Places, Go
<1>1. ASSUME NEW t \in Threads, LockCas(t) PROVE WordInv'
    BY <1>1 DEF LockCas
<1>2. ASSUME NEW t \in Threads, LockXchg(t) PROVE WordInv'
    BY <1>2 DEF LockXchg
<1>3. ASSUME NEW t \in Threads, FutexWait(t) PROVE WordInv'
    BY <1>3 DEF FutexWait
<1>4. ASSUME NEW t \in Threads, Interrupted(t) PROVE WordInv'
    BY <1>4 DEF Interrupted
<1>5. ASSUME NEW t \in Threads, UnlockSub(t) PROVE WordInv'
    BY <1>5 DEF UnlockSub
<1>6. ASSUME NEW t \in Threads, UnlockStore(t) PROVE WordInv'
    BY <1>6 DEF UnlockStore
<1>7. ASSUME NEW t \in Threads, UnlockWake(t) PROVE WordInv'
    BY <1>7 DEF UnlockWake, Asleep
<1>8. CASE UNCHANGED mutexVars
    BY <1>8 DEF mutexVars
<1> QED
    BY <1>1, <1>2, <1>3, <1>4, <1>5, <1>6, <1>7, <1>8
       DEF MutexNext, LockStep, UnlockStep

LEMMA WordInvAlways == MutexSpec => []WordInv
<1>1. MutexInit => WordInv
    BY DEF MutexInit, WordInv, MutexTypeOK, MutualExclusion, Holds, Places
<1> QED
    BY <1>1, WordInvInductive, PTL DEF MutexSpec

(***************************************************************************)
(* Two threads never hold a mutex together, however many contend for it.   *)
(***************************************************************************)
THEOREM MutexExcludes == MutexSpec => []MutualExclusion
<1>1. WordInv => MutualExclusion
    BY DEF WordInv
<1> QED
    BY <1>1, WordInvAlways, PTL

(***************************************************************************)
(* A thread that sleeps on the mutex is never forgotten: a step either     *)
(* leaves somebody who will wake it or hands the duty on.                  *)
(***************************************************************************)
THEOREM MutexNoLostWakeup == MutexSpec => []NoLostWakeup
<1>1. MutexInit => NoLostWakeup
    BY DEF MutexInit, NoLostWakeup, Asleep
<1>2. WordInv /\ NoLostWakeup /\ [MutexNext]_mutexVars => NoLostWakeup'
    <2> SUFFICES ASSUME WordInv, NoLostWakeup, [MutexNext]_mutexVars,
                        Asleep(mpc)' # {}
                 PROVE  \E t \in Threads : WillWake(t)'
        BY DEF NoLostWakeup
    <2> USE DEF WordInv, MutexTypeOK, Places, Go, Asleep, WillWake
    <2>1. ASSUME NEW t \in Threads, LockCas(t)
          PROVE  \E u \in Threads : WillWake(u)'
        BY <2>1 DEF LockCas, NoLostWakeup, MutualExclusion, Holds
    <2>2. ASSUME NEW t \in Threads, LockXchg(t)
          PROVE  \E u \in Threads : WillWake(u)'
        BY <2>2 DEF LockXchg
    <2>3. ASSUME NEW t \in Threads, FutexWait(t)
          PROVE  \E u \in Threads : WillWake(u)'
        <3>1. CASE mutexState = 2
            <4>1. PICK h \in Threads : Holds(h)
                BY <3>1
            <4> QED
                BY <2>3, <3>1, <4>1 DEF FutexWait, Holds
        <3>2. CASE mutexState # 2
            BY <2>3, <3>2 DEF FutexWait
        <3> QED
            BY <3>1, <3>2
    <2>4. ASSUME NEW t \in Threads, Interrupted(t)
          PROVE  \E u \in Threads : WillWake(u)'
        BY <2>4 DEF Interrupted
    <2>5. ASSUME NEW t \in Threads, UnlockSub(t)
          PROVE  \E u \in Threads : WillWake(u)'
        <3>1. CASE mutexState = 1
            BY <2>5, <3>1 DEF UnlockSub, NoLostWakeup
        <3>2. CASE mutexState # 1
            BY <2>5, <3>2 DEF UnlockSub
        <3> QED
            BY <3>1, <3>2
    <2>6. ASSUME NEW t \in Threads, UnlockStore(t)
          PROVE  \E u \in Threads : WillWake(u)'
        BY <2>6 DEF UnlockStore
    <2>7. ASSUME NEW t \in Threads, UnlockWake(t)
          PROVE  \E u \in Threads : WillWake(u)'
        <3>1. PICK s \in Threads : mpc'[s] = "asleep"
            OBVIOUS
        <3>2. s \in Asleep(mpc)
            BY <2>7, <3>1 DEF UnlockWake
        <3> QED
            BY <2>7, <3>2 DEF UnlockWake
    <2>8. CASE UNCHANGED mutexVars
        BY <2>8 DEF mutexVars, NoLostWakeup
    <2> QED
        BY <2>1, <2>2, <2>3, <2>4, <2>5, <2>6, <2>7, <2>8
           DEF MutexNext, LockStep, UnlockStep
<1> QED
    BY <1>1, <1>2, WordInvAlways, PTL DEF MutexSpec

(***************************************************************************)
(* The futex mutex implements the abstract lock: entering the critical     *)
(* section is Acquire, the fetch_sub of the unlock is Release, every other *)
(* instruction is invisible.                                               *)
(***************************************************************************)
LEMMA OwnerIs ==
    ASSUME MutualExclusion
    PROVE  /\ \A t \in Threads : mpc[t] = "cs" => Owner = t
           /\ (\A t \in Threads : mpc[t] # "cs") => Owner = Nobody
<1>1. ASSUME NEW t \in Threads, mpc[t] = "cs"
      PROVE  Owner = t
    <2>1. Owner \in Threads /\ mpc[Owner] = "cs"
        BY <1>1 DEF Owner
    <2> QED
        BY <1>1, <2>1 DEF MutualExclusion, Holds
<1>2. (\A t \in Threads : mpc[t] # "cs") => Owner = Nobody
    BY DEF Owner
<1> QED
    BY <1>1, <1>2

LEMMA OwnerIsAfter ==
    ASSUME MutualExclusion'
    PROVE  /\ \A t \in Threads : mpc'[t] = "cs" => Owner' = t
           /\ (\A t \in Threads : mpc'[t] # "cs") => Owner' = Nobody
<1>1. ASSUME NEW t \in Threads, mpc'[t] = "cs"
      PROVE  Owner' = t
    <2>1. Owner' \in Threads /\ mpc'[Owner'] = "cs"
        BY <1>1 DEF Owner
    <2> QED
        BY <1>1, <2>1 DEF MutualExclusion, Holds
<1>2. (\A t \in Threads : mpc'[t] # "cs") => Owner' = Nobody
    BY DEF Owner
<1> QED
    BY <1>1, <1>2

THEOREM MutexImplementsLock == MutexSpec => ImplementsLock
<1>1. MutexInit => Lock!Init
    BY DEF MutexInit, Lock!Init, Owner
<1>2. WordInv /\ WordInv' /\ [MutexNext]_mutexVars => [Lock!Next]_Owner
    <2> SUFFICES ASSUME WordInv, WordInv', [MutexNext]_mutexVars
                 PROVE  Lock!Next \/ UNCHANGED Owner
        BY DEF WordInv
    <2> USE DEF WordInv, MutexTypeOK, Go
    <2>0. /\ MutualExclusion
          /\ MutualExclusion'
        OBVIOUS
    <2>1. ASSUME \A t \in Threads : mpc'[t] = "cs" <=> mpc[t] = "cs"
          PROVE  UNCHANGED Owner
        <3>1. CASE \E t \in Threads : mpc[t] = "cs"
            BY <2>0, <2>1, <3>1, OwnerIs, OwnerIsAfter
        <3>2. CASE \A t \in Threads : mpc[t] # "cs"
            BY <2>0, <2>1, <3>2, OwnerIs, OwnerIsAfter
        <3> QED
            BY <3>1, <3>2
    <2>2. ASSUME NEW t \in Threads, mpc[t] # "cs", mpc'[t] = "cs", mutexState = 0
          PROVE  Lock!Next
        <3>1. Owner = Nobody
            BY <2>0, <2>2, OwnerIs DEF Holds
        <3>2. Owner' = t
            BY <2>0, <2>2, OwnerIsAfter
        <3> QED
            BY <3>1, <3>2 DEF Lock!Next, Lock!Acquire
    <2>3. ASSUME NEW t \in Threads, UnlockSub(t)
          PROVE  Lock!Next
        <3>1. Owner = t
            BY <2>0, <2>3, OwnerIs DEF UnlockSub
        <3>2. \A u \in Threads : mpc'[u] # "cs"
            BY <2>0, <2>3 DEF UnlockSub, MutualExclusion, Holds
        <3>3. Owner' = Nobody
            BY <2>0, <3>2, OwnerIsAfter
        <3> QED
            BY <3>1, <3>3 DEF Lock!Next, Lock!Release
    <2>4. ASSUME NEW t \in Threads, LockCas(t) \/ LockXchg(t)
          PROVE  Lock!Next \/ UNCHANGED Owner
        <3>1. CASE mutexState = 0
            BY <2>2, <2>4, <3>1 DEF LockCas, LockXchg
        <3>2. CASE mutexState # 0
            BY <2>1, <2>4, <3>2 DEF LockCas, LockXchg
        <3> QED
            BY <3>1, <3>2
    <2>5. ASSUME NEW t \in Threads,
                 FutexWait(t) \/ Interrupted(t) \/ UnlockStore(t) \/ UnlockWake(t)
          PROVE  UNCHANGED Owner
        BY <2>1, <2>5 DEF FutexWait, Interrupted, UnlockStore, UnlockWake, Asleep
    <2>6. CASE UNCHANGED mutexVars
        BY <2>1, <2>6 DEF mutexVars
    <2> QED
        BY <2>3, <2>4, <2>5, <2>6 DEF MutexNext, LockStep, UnlockStep
<1> QED
    BY <1>1, <1>2, WordInvAlways, PTL DEF MutexSpec, ImplementsLock, Lock!Spec

-----------------------------------------------------------------------------
(***************************************************************************)
(* The semaphore.                                                          *)
(***************************************************************************)

SemInv ==
    /\ SemTypeOK
    /\ PermitsConserved

LEMMA SemInvInductive == SemInv /\ [SemNext]_semVars => SemInv'
<1> SUFFICES ASSUME SemInv, [SemNext]_semVars
             PROVE  SemInv'
    OBVIOUS
<1> USE SemaphoreAssumption DEF SemInv, SemTypeOK, PermitsConserved, SemPlaces, SemGo
<1>1. ASSUME NEW t \in Threads, WaitCall(t) PROVE SemInv'
    BY <1>1 DEF WaitCall
<1>2. ASSUME NEW t \in Threads, WaitLoad(t) PROVE SemInv'
    BY <1>2 DEF WaitLoad
<1>3. ASSUME NEW t \in Threads, WaitCas(t) PROVE SemInv'
    BY <1>3 DEF WaitCas
<1>4. ASSUME NEW t \in Threads, WaitEmpty(t) PROVE SemInv'
    BY <1>4 DEF WaitEmpty
<1>5. ASSUME NEW t \in Threads, WaitSleep(t) PROVE SemInv'
    BY <1>5 DEF WaitSleep
<1>6. ASSUME NEW t \in Threads, WaitInterrupted(t) PROVE SemInv'
    BY <1>6 DEF WaitInterrupted
<1>7. ASSUME NEW t \in Threads, PostCall(t) PROVE SemInv'
    BY <1>7 DEF PostCall
<1>8. ASSUME NEW t \in Threads, PostWake(t) PROVE SemInv'
    BY <1>8 DEF PostWake, Asleep
<1>9. CASE UNCHANGED semVars
    BY <1>9 DEF semVars
<1> QED
    BY <1>1, <1>2, <1>3, <1>4, <1>5, <1>6, <1>7, <1>8, <1>9 DEF SemNext, Running

LEMMA SemInvAlways == SemSpec => []SemInv
<1>1. SemInit => SemInv
    BY SemaphoreAssumption DEF SemInit, SemInv, SemTypeOK, PermitsConserved, SemPlaces
<1> QED
    BY <1>1, SemInvInductive, PTL DEF SemSpec

(***************************************************************************)
(* Every permit is granted at most once and none is lost, for any number   *)
(* of waiters and posters.                                                 *)
(***************************************************************************)
THEOREM SemaphoreConservesPermits == SemSpec => []PermitsConserved
<1>1. SemInv => PermitsConserved
    BY DEF SemInv
<1> QED
    BY <1>1, SemInvAlways, PTL

(***************************************************************************)
(* A set of threads gains or loses one member: what that does to its size. *)
(***************************************************************************)
LEMMA OneMore ==
    ASSUME NEW S, NEW T, NEW x, IsFiniteSet(S), x \notin S, T = S \cup {x}
    PROVE  Cardinality(T) = Cardinality(S) + 1
BY FS_AddElement

LEMMA NotFewer ==
    ASSUME NEW S, NEW T, IsFiniteSet(T), S \subseteq T
    PROVE  /\ Cardinality(S) <= Cardinality(T)
           /\ Cardinality(S) \in Nat
           /\ Cardinality(T) \in Nat
BY FS_Subset, FS_CardinalityType

(***************************************************************************)
(* While a thread sleeps, the permits in the count do not outnumber the    *)
(* threads that are awake and will look at it, so none is left unused.     *)
(***************************************************************************)
THEOREM SemaphoreStrandsNoPermit == SemSpec => []NoStrandedPermit
<1>1. SemInit => NoStrandedPermit
    BY DEF SemInit, NoStrandedPermit, Asleep
<1>2. SemInv /\ NoStrandedPermit /\ [SemNext]_semVars => NoStrandedPermit'
    <2> SUFFICES ASSUME SemInv, NoStrandedPermit, [SemNext]_semVars, Asleep(spc)' # {}
                 PROVE  count' <= Cardinality(Awake')
        BY DEF NoStrandedPermit
    <2> USE DEF SemInv, SemTypeOK, SemPlaces, SemGo
    <2>0. /\ IsFiniteSet(Awake) /\ IsFiniteSet(Awake')
          /\ Cardinality(Awake) \in Nat /\ Cardinality(Awake') \in Nat
          /\ count \in Nat /\ count' \in Nat
        BY SemaphoreAssumption, SemInvInductive, FS_Subset, FS_CardinalityType DEF Awake
    <2>1. ASSUME count' <= count, Asleep(spc) # {}, Awake \subseteq Awake'
          PROVE  count' <= Cardinality(Awake')
        BY <2>0, <2>1, NotFewer DEF NoStrandedPermit
    <2>2. ASSUME NEW t \in Threads, WaitCall(t)
          PROVE  count' <= Cardinality(Awake')
        <3>1. Asleep(spc) # {} /\ Awake \subseteq Awake'
            BY <2>2 DEF WaitCall, Asleep, Awake
        <3> QED
            BY <2>0, <2>1, <2>2, <3>1 DEF WaitCall
    <2>3. ASSUME NEW t \in Threads, WaitLoad(t) \/ WaitEmpty(t) \/ WaitInterrupted(t)
          PROVE  count' <= Cardinality(Awake')
        <3>1. Asleep(spc) # {} /\ Awake \subseteq Awake'
            BY <2>3 DEF WaitLoad, WaitEmpty, WaitInterrupted, Asleep, Awake
        <3> QED
            BY <2>0, <2>1, <2>3, <3>1 DEF WaitLoad, WaitEmpty, WaitInterrupted
    <2>4. ASSUME NEW t \in Threads, WaitCas(t)
          PROVE  count' <= Cardinality(Awake')
        <3>1. CASE count # loaded[t]
            <4>1. Asleep(spc) # {} /\ Awake \subseteq Awake' /\ count' = count
                BY <2>4, <3>1 DEF WaitCas, Asleep, Awake
            <4> QED
                BY <2>0, <2>1, <4>1
        <3>2. CASE count = loaded[t]
            <4>1. /\ Asleep(spc) # {}
                  /\ Awake = Awake' \cup {t}
                  /\ t \notin Awake'
                  /\ count' = count - 1
                BY <2>4, <3>2 DEF WaitCas, Asleep, Awake
            <4>2. Cardinality(Awake) = Cardinality(Awake') + 1
                BY <2>0, <4>1, OneMore
            <4> QED
                BY <2>0, <4>1, <4>2 DEF NoStrandedPermit
        <3> QED
            BY <3>1, <3>2
    <2>5. ASSUME NEW t \in Threads, WaitSleep(t)
          PROVE  count' <= Cardinality(Awake')
        <3>1. CASE count = 0
            BY <2>0, <2>5, <3>1 DEF WaitSleep
        <3>2. CASE count # 0
            <4>1. Asleep(spc) # {} /\ Awake \subseteq Awake' /\ count' = count
                BY <2>5, <3>2 DEF WaitSleep, Asleep, Awake
            <4> QED
                BY <2>0, <2>1, <4>1
        <3> QED
            BY <3>1, <3>2
    <2>6. ASSUME NEW t \in Threads, PostCall(t)
          PROVE  count' <= Cardinality(Awake')
        <3>1. /\ Asleep(spc) # {}
              /\ Awake' = Awake \cup {t}
              /\ t \notin Awake
              /\ count' = count + 1
            BY <2>6 DEF PostCall, Asleep, Awake
        <3>2. Cardinality(Awake') = Cardinality(Awake) + 1
            BY <2>0, <3>1, OneMore
        <3> QED
            BY <2>0, <3>1, <3>2 DEF NoStrandedPermit
    <2>7. ASSUME NEW t \in Threads, PostWake(t)
          PROVE  count' <= Cardinality(Awake')
        <3>1. PICK z \in Threads : spc'[z] = "asleep"
            BY DEF Asleep
        <3>2. Asleep(spc) # {}
            BY <2>7, <3>1 DEF PostWake, Asleep
        <3>3. PICK s \in Asleep(spc) : spc' = [spc EXCEPT ![t] = "out", ![s] = "load"]
            BY <2>7, <3>2 DEF PostWake
        <3>4. /\ t \in Awake /\ s \notin Awake
              /\ Awake' = (Awake \ {t}) \cup {s}
              /\ s \notin Awake \ {t}
            BY <2>7, <3>3 DEF PostWake, Asleep, Awake
        <3>5. /\ IsFiniteSet(Awake \ {t})
              /\ Cardinality(Awake) = Cardinality(Awake \ {t}) + 1
            <4>1. IsFiniteSet(Awake \ {t})
                BY <2>0, FS_Subset
            <4>2. t \notin Awake \ {t} /\ Awake = (Awake \ {t}) \cup {t}
                BY <3>4
            <4> QED
                BY <4>1, <4>2, OneMore
        <3>6. Cardinality(Awake') = Cardinality(Awake \ {t}) + 1
            BY <3>4, <3>5, OneMore
        <3> QED
            BY <2>0, <2>7, <3>2, <3>5, <3>6 DEF NoStrandedPermit, PostWake
    <2>8. CASE UNCHANGED semVars
        <3>1. Asleep(spc) # {} /\ Awake \subseteq Awake' /\ count' = count
            BY <2>8 DEF semVars, Asleep, Awake
        <3> QED
            BY <2>0, <2>1, <3>1
    <2> QED
        BY <2>2, <2>3, <2>4, <2>5, <2>6, <2>7, <2>8 DEF SemNext, Running
<1> QED
    BY <1>1, <1>2, SemInvAlways, PTL DEF SemSpec

-----------------------------------------------------------------------------
(***************************************************************************)
(* Start and join of threads that count under the mutex.                   *)
(***************************************************************************)

TestTypes ==
    /\ place \in [Threads -> WorkerPlaces]
    /\ iterationIndex \in [Threads -> 0..WorkerIterations]
    /\ seen \in [Threads -> Nat]
    /\ counter \in Nat
    /\ clearTid \in [Threads -> Nat]
    /\ mapped \in [Threads -> BOOLEAN]
    /\ returned \in [Threads -> Nat]
    /\ mainPc \in MainPlaces
    /\ current \in 1..(Count + 1)

(***************************************************************************)
(* The life of a thread.  clear_tid is its tid from the clone to the store *)
(* of the kernel; it is outside the mutex before the loop and after it,    *)
(* and holds the mutex from the read of the counter to the unlock; once it *)
(* has left the loop all its increments are done and its result is stored. *)
(***************************************************************************)
InUserCode == {"loop", "read", "written", "returning", "exiting"}
Exited == {"cleared", "gone"}
LoopLeft == {"returning", "exiting", "cleared", "gone"}

LifeOf(t) ==
    /\ place[t] \in InUserCode => clearTid[t] = t
    /\ place[t] \in {"read", "written"} => mpc[t] = "cs"
    /\ mpc[t] \in {"xchg", "futex", "asleep", "cs"} =>
           place[t] \in {"loop", "read", "written"} /\ iterationIndex[t] < WorkerIterations
    /\ place[t] \in LoopLeft => iterationIndex[t] = WorkerIterations /\ returned[t] = Result(t)

Lives == \A t \in Threads : LifeOf(t)

(***************************************************************************)
(* The books of main: which threads it has started and joined.             *)
(***************************************************************************)
Starting == mainPc \in {"start", "clone", "failed"}
Joining == mainPc \in {"load", "wait", "asleep", "collect"}

MainBooks ==
    /\ Starting => \A t \in Threads :
           IF t < current THEN place[t] # "none" /\ mapped[t] ELSE place[t] = "none"
    /\ mainPc = "clone" => current \in Threads /\ mapped[current]
    /\ Joining => /\ current \in Threads
                  /\ \A t \in Threads : IF t < current THEN place[t] \in Exited
                                                       ELSE place[t] # "none" /\ mapped[t]
    /\ mainPc = "collect" => place[current] \in Exited
    /\ mainPc \in {"check", "passed"} => \A t \in Threads : place[t] \in Exited
    /\ mainPc # "mismatch"

(***************************************************************************)
(* The counter has the increments that were written, and a thread between  *)
(* its read and its write has read the counter as it still is.             *)
(***************************************************************************)
Written(t) == IF place[t] = "written" THEN iterationIndex[t] + 1 ELSE iterationIndex[t]

Increments == {x \in Threads \X (1..WorkerIterations) : x[2] <= Written(x[1])}

CounterBooks ==
    /\ counter = Cardinality(Increments)
    /\ \A t \in Threads : place[t] = "read" => seen[t] = counter

TestInv ==
    /\ TestTypes
    /\ WordInv
    /\ Lives
    /\ MainBooks
    /\ CounterBooks

LEMMA CountIsPositive == Count \in Nat /\ 1 <= Count /\ Threads = 1..Count
BY ThreadTestAssumption, FS_CardinalityType, FS_EmptySet DEF Count

LEMMA ResultIsNat == \A t \in Threads : Result(t) \in Nat
BY CountIsPositive, ThreadTestAssumption DEF Result

(***************************************************************************)
(* The workers use the mutex only through its own steps, so what holds of  *)
(* the mutex for any use of it holds here.                                 *)
(***************************************************************************)
LEMMA TestStepIsMutexStep == [Next]_vars => [MutexNext]_mutexVars
<1> SUFFICES ASSUME [Next]_vars
             PROVE  MutexNext \/ UNCHANGED mutexVars
    OBVIOUS
<1>1. CASE MainStep \/ JoinInterrupted
    BY <1>1 DEF MainStep, MapStack, Clone, AllStarted, JoinLoad, JoinWait, Collect,
                CheckCounter, JoinInterrupted
<1>2. ASSUME NEW t \in Threads,
             WorkerLock(t) \/ WorkerInMutex(t) \/ WorkerUnlock(t) \/ WorkerInterrupted(t)
      PROVE  MutexNext
    BY <1>2 DEF WorkerLock, WorkerInMutex, WorkerUnlock, WorkerInterrupted, MutexNext
<1>3. ASSUME NEW t \in Threads,
             \/ WorkerRead(t) \/ WorkerWrite(t) \/ WorkerReturn(t)
             \/ WorkerExit(t) \/ KernelClears(t) \/ KernelWakes(t)
      PROVE  UNCHANGED mutexVars
    BY <1>3 DEF WorkerRead, WorkerWrite, WorkerReturn, WorkerExit, KernelClears, KernelWakes
<1>4. CASE UNCHANGED vars
    BY <1>4 DEF vars
<1> QED
    BY <1>1, <1>2, <1>3, <1>4 DEF Next, WorkerStep, Ended

THEOREM TestUsesMutex == Spec => MutexSpec
<1>1. Init => MutexInit
    BY DEF Init
<1> QED
    BY <1>1, TestStepIsMutexStep, PTL DEF Spec, MutexSpec

LEMMA TestInvInit == Init => TestInv
<1> SUFFICES ASSUME Init
             PROVE  TestInv
    OBVIOUS
<1> USE CountIsPositive, ThreadTestAssumption DEF Init
<1>1. TestTypes
    BY DEF TestTypes, WorkerPlaces, MainPlaces
<1>2. WordInv
    BY DEF MutexInit, WordInv, MutexTypeOK, MutualExclusion, Holds, Places
<1>3. Lives
    BY DEF Lives, LifeOf, InUserCode, LoopLeft, MutexInit
<1>4. MainBooks
    BY DEF MainBooks, Starting, Joining
<1>5. CounterBooks
    <2>1. Increments = {}
        BY DEF Increments, Written
    <2> QED
        BY <2>1, FS_EmptySet DEF CounterBooks
<1> QED
    BY <1>1, <1>2, <1>3, <1>4, <1>5 DEF TestInv

LEMMA TypesKept == TestInv /\ [Next]_vars => TestTypes'
<1> SUFFICES ASSUME TestInv, [Next]_vars
             PROVE  TestTypes'
    OBVIOUS
<1>0. /\ TestTypes
      /\ current \in Nat /\ 1 \in 1..(Count + 1)
      /\ current \in Threads => current + 1 \in 1..(Count + 1)
    BY CountIsPositive DEF TestInv, TestTypes
<1> USE <1>0
    DEF TestTypes, WorkerPlaces, MainPlaces, MainAt, MainGoes, At, Goes,
        workerVars, threadVars, mainVars
<1>1. CASE MapStack
    <2>1. /\ UNCHANGED <<workerVars, current>> /\ mainPc' \in MainPlaces
          /\ \/ UNCHANGED threadVars
             \/ /\ mapped' = [mapped EXCEPT ![current] = TRUE]
                /\ returned' = [returned EXCEPT ![current] = 0]
                /\ clearTid' = [clearTid EXCEPT ![current] = 0]
        BY <1>1 DEF MapStack
    <2>2. mapped' \in [Threads -> BOOLEAN]
        BY <2>1, Zenon
    <2>3. /\ returned' \in [Threads -> Nat]
          /\ clearTid' \in [Threads -> Nat]
        BY <2>1
    <2> QED
        BY <2>1, <2>2, <2>3
<1>2. CASE Clone
    <2>1. current \in Threads
        BY <1>2 DEF Clone, TestInv, MainBooks
    <2>2. /\ UNCHANGED <<iterationIndex, seen, counter, returned>>
          /\ mainPc' \in MainPlaces
          /\ current' \in {current, current + 1}
          /\ place' \in {place, [place EXCEPT ![current] = "loop"]}
          /\ mapped' \in {mapped, [mapped EXCEPT ![current] = FALSE]}
          /\ clearTid' \in {[clearTid EXCEPT ![current] = current],
                             [clearTid EXCEPT ![current] = 0]}
        BY <1>2 DEF Clone
    <2>3. mapped' \in [Threads -> BOOLEAN]
        BY <2>2, Zenon
    <2>4. /\ place' \in [Threads -> WorkerPlaces]
          /\ clearTid' \in [Threads -> Nat]
          /\ current' \in 1..(Count + 1)
        BY <2>1, <2>2
    <2> QED
        BY <2>2, <2>3, <2>4
<1>3. CASE AllStarted \/ JoinLoad \/ JoinWait \/ CheckCounter \/ JoinInterrupted
    BY <1>3 DEF AllStarted, JoinLoad, JoinWait, CheckCounter, JoinInterrupted
<1>4. CASE Collect
    <2>1. current \in Threads
        BY <1>4 DEF Collect, TestInv, MainBooks, Joining
    <2> QED
        BY <1>4, <2>1 DEF Collect
<1>5. ASSUME NEW t \in Threads, WorkerLock(t) \/ WorkerInMutex(t) \/ WorkerInterrupted(t)
      PROVE  TestTypes'
    BY <1>5 DEF WorkerLock, WorkerInMutex, WorkerInterrupted
<1>6. ASSUME NEW t \in Threads, WorkerRead(t) \/ WorkerWrite(t)
      PROVE  TestTypes'
    BY <1>6 DEF WorkerRead, WorkerWrite
<1>7. ASSUME NEW t \in Threads, WorkerUnlock(t)
      PROVE  TestTypes'
    <2>1. mpc[t] = "cs" /\ LifeOf(t)
        BY <1>7 DEF WorkerUnlock, UnlockSub, TestInv, Lives
    <2>2. iterationIndex[t] + 1 \in 0..WorkerIterations
        BY <2>1, ThreadTestAssumption DEF LifeOf
    <2> QED
        BY <1>7, <2>2 DEF WorkerUnlock
<1>8. ASSUME NEW t \in Threads, WorkerReturn(t)
      PROVE  TestTypes'
    BY <1>8, ResultIsNat DEF WorkerReturn
<1>9. ASSUME NEW t \in Threads, WorkerExit(t) \/ KernelClears(t) \/ KernelWakes(t)
      PROVE  TestTypes'
    BY <1>9 DEF WorkerExit, KernelClears, KernelWakes
<1>10. CASE UNCHANGED vars
    BY <1>10 DEF vars
<1> QED
    BY <1>1, <1>2, <1>3, <1>4, <1>5, <1>6, <1>7, <1>8, <1>9, <1>10
       DEF Next, MainStep, WorkerStep, Ended

LEMMA LivesKept == TestInv /\ [Next]_vars => Lives'
<1> SUFFICES ASSUME TestInv, [Next]_vars, NEW u \in Threads
             PROVE  LifeOf(u)'
    BY DEF Lives
<1>0. LifeOf(u) /\ TestTypes /\ MutexTypeOK
    BY DEF TestInv, Lives, WordInv
<1> USE <1>0
    DEF LifeOf, InUserCode, LoopLeft, TestTypes, MutexTypeOK, WorkerPlaces, Places,
        MainAt, MainGoes, At, Goes, workerVars, threadVars, mainVars, mutexVars
<1>1. CASE MapStack
    <2>1. place[current] = "none" /\ current \in Threads
        BY <1>1, CountIsPositive DEF MapStack, TestInv, MainBooks, Starting
    <2> QED
        BY <1>1, <2>1 DEF MapStack
<1>2. CASE Clone
    <2>1. place[current] = "none" /\ current \in Threads
        BY <1>2, CountIsPositive DEF Clone, TestInv, MainBooks, Starting
    <2> QED
        BY <1>2, <2>1 DEF Clone
<1>3. CASE AllStarted \/ JoinLoad \/ JoinWait \/ CheckCounter \/ JoinInterrupted \/ Collect
    BY <1>3 DEF AllStarted, JoinLoad, JoinWait, CheckCounter, JoinInterrupted, Collect
<1>4. ASSUME NEW t \in Threads, WorkerLock(t)
      PROVE  LifeOf(u)'
    BY <1>4 DEF WorkerLock, LockCas, Go
<1>5. ASSUME NEW t \in Threads, WorkerInMutex(t) \/ WorkerInterrupted(t)
      PROVE  LifeOf(u)'
    <2>1. /\ mpc'[u] = "cs" \/ mpc'[u] = "xchg" \/ mpc'[u] = "futex" \/ mpc'[u] = "asleep"
             => mpc[u] \in {"xchg", "futex", "asleep", "cs"}
          /\ mpc[u] = "cs" => mpc'[u] = "cs"
        BY <1>5 DEF WorkerInMutex, WorkerInterrupted, Interrupted, LockStep, UnlockStep,
                    LockXchg, FutexWait, UnlockStore, UnlockWake, Asleep, Go
    <2> QED
        BY <1>5, <2>1 DEF WorkerInMutex, WorkerInterrupted
<1>6. ASSUME NEW t \in Threads, WorkerRead(t) \/ WorkerWrite(t)
      PROVE  LifeOf(u)'
    BY <1>6 DEF WorkerRead, WorkerWrite
<1>7. ASSUME NEW t \in Threads, WorkerUnlock(t)
      PROVE  LifeOf(u)'
    BY <1>7 DEF WorkerUnlock, UnlockSub, Go
<1>8. ASSUME NEW t \in Threads, WorkerReturn(t)
      PROVE  LifeOf(u)'
    BY <1>8 DEF WorkerReturn, Result
<1>9. ASSUME NEW t \in Threads, WorkerExit(t) \/ KernelClears(t) \/ KernelWakes(t)
      PROVE  LifeOf(u)'
    BY <1>9 DEF WorkerExit, KernelClears, KernelWakes, Result
<1>10. CASE UNCHANGED vars
    BY <1>10 DEF vars
<1> QED
    BY <1>1, <1>2, <1>3, <1>4, <1>5, <1>6, <1>7, <1>8, <1>9, <1>10
       DEF Next, MainStep, WorkerStep, Ended

(***************************************************************************)
(* What main knows of its threads.  A thread only moves on in its life, so *)
(* only main's own steps and the clone can disturb the books; a join ends  *)
(* when clear_tid is 0, which a started thread's is only once it exited.   *)
(***************************************************************************)
LEMMA BooksAfterWorker ==
    ASSUME TestInv, UNCHANGED <<current, mapped>>,
           mainPc' = mainPc \/ (mainPc = "asleep" /\ mainPc' = "load"),
           \A u \in Threads : /\ place[u] = "none" <=> place'[u] = "none"
                              /\ place[u] \in Exited => place'[u] \in Exited
    PROVE  MainBooks'
<1>1. MainBooks /\ (\A u \in Threads : place[u] # "none" <=> place'[u] # "none")
    BY DEF TestInv
<1>2. CASE mainPc' = mainPc
    BY <1>1, <1>2, Zenon DEF MainBooks, Starting, Joining
<1>3. CASE mainPc = "asleep" /\ mainPc' = "load"
    <2>1. Joining /\ Joining' /\ ~Starting'
        BY <1>3 DEF Joining, Starting
    <2> QED
        BY <1>1, <1>3, <2>1 DEF MainBooks
<1> QED
    BY <1>2, <1>3

LEMMA AllIncrements ==
    /\ IsFiniteSet(Threads \X (1..WorkerIterations))
    /\ Cardinality(Threads \X (1..WorkerIterations)) = Count * WorkerIterations
<1>1. WorkerIterations \in Int /\ WorkerIterations >= 1 /\ IsFiniteSet(Threads)
    BY ThreadTestAssumption
<1>2. IsFiniteSet(1..WorkerIterations) /\ Cardinality(1..WorkerIterations) = WorkerIterations
    BY <1>1, FS_Interval
<1> DEFINE Rounds == 1..WorkerIterations
<1>3. IsFiniteSet(Rounds) /\ Cardinality(Rounds) = WorkerIterations
    BY <1>2
<1> HIDE DEF Rounds
<1>4. /\ IsFiniteSet(Threads \X Rounds)
      /\ Cardinality(Threads \X Rounds) = Cardinality(Threads) * WorkerIterations
    BY <1>1, <1>3, FS_Product
<1> QED
    BY <1>4 DEF Rounds, Count

LEMMA MainBooksKept == TestInv /\ [Next]_vars => MainBooks'
<1> SUFFICES ASSUME TestInv, [Next]_vars
             PROVE  MainBooks'
    OBVIOUS
<1>0. /\ MainBooks /\ TestTypes
      /\ \A t \in Threads : LifeOf(t)
    BY DEF TestInv, Lives
<1>a. /\ Count \in Nat /\ 1 <= Count /\ current \in Nat
      /\ \A t : t \in Threads <=> t \in Nat /\ 1 <= t /\ t <= Count
    <2>1. current \in Nat
        BY <1>0, CountIsPositive DEF TestTypes
    <2> QED
        BY <2>1, CountIsPositive
<1> USE <1>0, <1>a DEF MainAt, MainGoes, At, Goes, workerVars, threadVars, mainVars
<1>1. CASE MapStack
    BY <1>1 DEF MapStack, MainBooks, Starting, Joining, TestTypes
<1>2. CASE Clone
    BY <1>2 DEF Clone, MainBooks, Starting, Joining, TestTypes
<1>3. CASE AllStarted
    BY <1>3 DEF AllStarted, MainBooks, Starting, Joining
<1>4. CASE JoinLoad
    <2>1. clearTid[current] = 0 => place[current] \in Exited
        BY <1>4 DEF JoinLoad, MainBooks, Joining, LifeOf, InUserCode, Exited,
                    TestTypes, WorkerPlaces
    <2> QED
        BY <1>4, <2>1 DEF JoinLoad, MainBooks, Starting, Joining
<1>5. CASE JoinWait \/ JoinInterrupted
    BY <1>5 DEF JoinWait, JoinInterrupted, MainBooks, Starting, Joining
<1>6. CASE Collect
    <2>1. current \in Threads /\ returned[current] = Result(current)
        BY <1>6 DEF Collect, MainBooks, Joining, LifeOf, LoopLeft, Exited
    <2> QED
        BY <1>6, <2>1 DEF Collect, MainBooks, Starting, Joining, TestTypes
<1>7. CASE CheckCounter
    <2>1. counter = Count * WorkerIterations
        <3>1. \A t \in Threads : Written(t) = WorkerIterations
            BY <1>7 DEF CheckCounter, MainBooks, LifeOf, LoopLeft, Exited, Written
        <3>2. Increments = Threads \X (1..WorkerIterations)
            <4>1. \A x \in Threads \X (1..WorkerIterations) : x[2] <= Written(x[1])
                BY ONLY <3>1, ThreadTestAssumption
            <4> QED
                BY ONLY <4>1 DEF Increments
        <3>3. Cardinality(Increments) = Count * WorkerIterations
            BY <3>2, AllIncrements
        <3> QED
            BY <3>3 DEF TestInv, CounterBooks
    <2> QED
        BY <1>7, <2>1 DEF CheckCounter, MainBooks, Starting, Joining
<1>8. ASSUME NEW t \in Threads,
             \/ WorkerLock(t) \/ WorkerInMutex(t) \/ WorkerInterrupted(t)
             \/ WorkerRead(t) \/ WorkerWrite(t) \/ WorkerUnlock(t)
      PROVE  MainBooks'
    <2>1. /\ UNCHANGED <<current, mapped, mainPc>>
          /\ \A u \in Threads : /\ place[u] = "none" <=> place'[u] = "none"
                                /\ place[u] \in Exited => place'[u] \in Exited
        BY <1>8 DEF WorkerLock, WorkerInMutex, WorkerInterrupted, WorkerRead, WorkerWrite,
                    WorkerUnlock, TestTypes, Exited
    <2> QED
        BY <2>1, BooksAfterWorker
<1>9. ASSUME NEW t \in Threads,
             WorkerReturn(t) \/ WorkerExit(t) \/ KernelClears(t) \/ KernelWakes(t)
      PROVE  MainBooks'
    <2>1. /\ UNCHANGED <<current, mapped>>
          /\ mainPc' = mainPc \/ (mainPc = "asleep" /\ mainPc' = "load")
          /\ \A u \in Threads : /\ place[u] = "none" <=> place'[u] = "none"
                                /\ place[u] \in Exited => place'[u] \in Exited
        BY <1>9 DEF WorkerReturn, WorkerExit, KernelClears, KernelWakes, TestTypes, Exited
    <2> QED
        BY <2>1, BooksAfterWorker
<1>10. CASE UNCHANGED vars
    BY <1>10, BooksAfterWorker DEF vars
<1> QED
    BY <1>1, <1>2, <1>3, <1>4, <1>5, <1>6, <1>7, <1>8, <1>9, <1>10
       DEF Next, MainStep, WorkerStep, Ended

(***************************************************************************)
(* A step that writes no increment and reads nothing leaves the counter's  *)
(* books as they are.                                                      *)
(***************************************************************************)
LEMMA CounterAsBefore ==
    ASSUME TestInv, UNCHANGED <<counter, seen>>,
           \A u \in Threads : /\ Written(u)' = Written(u)
                              /\ place'[u] = "read" => place[u] = "read"
    PROVE  CounterBooks'
<1>1. Increments' = Increments
    BY DEF Increments
<1> QED
    BY <1>1 DEF CounterBooks, TestInv

LEMMA CounterBooksKept == TestInv /\ [Next]_vars => CounterBooks'
<1> SUFFICES ASSUME TestInv, [Next]_vars
             PROVE  CounterBooks'
    OBVIOUS
<1>0. /\ TestTypes /\ CounterBooks /\ MutexTypeOK /\ MutualExclusion
      /\ \A t \in Threads : LifeOf(t)
    BY DEF TestInv, Lives, WordInv
<1> USE <1>0 DEF MainAt, MainGoes, At, Goes, workerVars, threadVars, mainVars
<1>1. CASE Clone
    <2>1. place[current] = "none" /\ current \in Threads
        BY <1>1, CountIsPositive DEF Clone, TestInv, MainBooks, Starting
    <2>2. /\ UNCHANGED <<counter, seen>>
          /\ \A u \in Threads : /\ Written(u)' = Written(u)
                                /\ place'[u] = "read" => place[u] = "read"
        BY <1>1, <2>1 DEF Clone, Written, TestTypes
    <2> QED
        BY <2>2, CounterAsBefore
<1>2. CASE UNCHANGED workerVars
    <2>1. \A u \in Threads : Written(u)' = Written(u)
        BY <1>2 DEF Written
    <2> QED
        BY <1>2, <2>1, CounterAsBefore
<1>3. ASSUME NEW t \in Threads, WorkerRead(t)
      PROVE  CounterBooks'
    <2>1. \A u \in Threads : Written(u)' = Written(u)
        BY <1>3 DEF WorkerRead, Written, TestTypes
    <2>2. Increments' = Increments
        BY <2>1 DEF Increments
    <2> QED
        BY <1>3, <2>2 DEF WorkerRead, CounterBooks, TestTypes
<1>4. ASSUME NEW t \in Threads, WorkerWrite(t)
      PROVE  CounterBooks'
    <2>1. mpc[t] = "cs" /\ iterationIndex[t] < WorkerIterations /\ iterationIndex[t] \in Nat
        BY <1>4, ThreadTestAssumption DEF WorkerWrite, LifeOf, TestTypes
    <2>2. \A u \in Threads : u # t => place'[u] # "read"
        <3>1. \A u \in Threads : u # t => mpc[u] # "cs"
            BY <2>1 DEF MutualExclusion, Holds
        <3> QED
            BY <1>4, <3>1 DEF WorkerWrite, LifeOf, TestTypes
    <2>3. /\ Written(t) = iterationIndex[t] /\ Written(t)' = iterationIndex[t] + 1
          /\ \A u \in Threads : u # t => Written(u)' = Written(u)
        BY <1>4 DEF WorkerWrite, Written, TestTypes
    <2>4. /\ Increments' = Increments \cup {<<t, iterationIndex[t] + 1>>}
          /\ <<t, iterationIndex[t] + 1>> \notin Increments
        <3> DEFINE new == <<t, iterationIndex[t] + 1>>
        <3>1. /\ new \in Threads \X (1..WorkerIterations)
              /\ new[1] = t /\ new[2] = iterationIndex[t] + 1
            BY <2>1, ThreadTestAssumption
        <3>2. \A x \in Threads \X (1..WorkerIterations) :
                 x[2] <= Written(x[1])' <=> x[2] <= Written(x[1]) \/ x = new
            <4> SUFFICES ASSUME NEW u \in Threads, NEW i \in 1..WorkerIterations
                         PROVE  i <= Written(u)' <=> i <= Written(u) \/ <<u, i>> = new
                OBVIOUS
            <4>1. CASE u = t
                BY <2>1, <2>3, <4>1, ThreadTestAssumption
            <4>2. CASE u # t
                BY <2>3, <4>2
            <4> QED
                BY <4>1, <4>2
        <3>3. ~ (new[2] <= Written(new[1]))
            BY <2>1, <2>3, <3>1
        <3> HIDE DEF new
        <3>4. Increments' = Increments \cup {new} /\ new \notin Increments
            BY ONLY <3>1, <3>2, <3>3 DEF Increments
        <3> QED
            BY <3>4 DEF new
    <2>5. IsFiniteSet(Increments)
        <3>1. Increments \subseteq Threads \X (1..WorkerIterations)
            BY DEF Increments
        <3> QED
            BY <3>1, AllIncrements, FS_Subset
    <2>6. Cardinality(Increments') = Cardinality(Increments) + 1
        BY <2>4, <2>5, OneMore
    <2>7. counter' = counter + 1 /\ place'[t] = "written"
        BY <1>4 DEF WorkerWrite, CounterBooks, TestTypes
    <2> QED
        BY <2>2, <2>6, <2>7 DEF CounterBooks
<1>5. ASSUME NEW t \in Threads, WorkerUnlock(t)
      PROVE  CounterBooks'
    <2>1. /\ UNCHANGED <<counter, seen>>
          /\ \A u \in Threads : /\ Written(u)' = Written(u)
                                /\ place'[u] = "read" => place[u] = "read"
        BY <1>5 DEF WorkerUnlock, Written, TestTypes
    <2> QED
        BY <2>1, CounterAsBefore
<1>6. ASSUME NEW t \in Threads,
             WorkerReturn(t) \/ WorkerExit(t) \/ KernelClears(t) \/ KernelWakes(t)
      PROVE  CounterBooks'
    <2>1. /\ UNCHANGED <<counter, seen>>
          /\ \A u \in Threads : /\ Written(u)' = Written(u)
                                /\ place'[u] = "read" => place[u] = "read"
        BY <1>6 DEF WorkerReturn, WorkerExit, KernelClears, KernelWakes, Written, TestTypes
    <2> QED
        BY <2>1, CounterAsBefore
<1>7. CASE MapStack \/ AllStarted \/ JoinLoad \/ JoinWait \/ JoinInterrupted \/ Collect \/ CheckCounter
    BY <1>2, <1>7 DEF MapStack, AllStarted, JoinLoad, JoinWait, JoinInterrupted, Collect,
                      CheckCounter
<1>8. ASSUME NEW t \in Threads, WorkerLock(t) \/ WorkerInMutex(t) \/ WorkerInterrupted(t)
      PROVE  CounterBooks'
    BY <1>2, <1>8 DEF WorkerLock, WorkerInMutex, WorkerInterrupted
<1>9. CASE UNCHANGED vars
    BY <1>2, <1>9 DEF vars
<1> QED
    BY <1>1, <1>3, <1>4, <1>5, <1>6, <1>7, <1>8, <1>9
       DEF Next, MainStep, WorkerStep, Ended

LEMMA TestInvAlways == Spec => []TestInv
<1>1. TestInv /\ [Next]_vars => TestInv'
    <2>1. TestInv /\ [Next]_vars => WordInv'
        BY TestStepIsMutexStep, WordInvInductive DEF TestInv
    <2> QED
        BY <2>1, TypesKept, LivesKept, MainBooksKept, CounterBooksKept DEF TestInv
<1> QED
    BY <1>1, TestInvInit, PTL DEF Spec

(***************************************************************************)
(* No thread ever runs user code on a stack that a join, or a failed       *)
(* start, has unmapped, for any number of threads and iterations.          *)
(***************************************************************************)
THEOREM StackIsThere == Spec => []StackOutlivesThread
<1>1. TestInv => StackOutlivesThread
    <2> SUFFICES ASSUME TestInv, NEW t \in Threads, RunsOnStack(t)
                 PROVE  mapped[t]
        BY DEF StackOutlivesThread
    <2>1. place[t] # "none" /\ place[t] \notin Exited
        BY DEF RunsOnStack, Exited
    <2>2. Starting \/ Joining
        BY <2>1 DEF TestInv, TestTypes, MainBooks, MainPlaces, Starting, Joining
    <2> QED
        BY <2>1, <2>2, Zenon DEF TestInv, MainBooks
<1> QED
    BY <1>1, TestInvAlways, PTL

(***************************************************************************)
(* Every join hands out what its thread returned, and the counter ends at  *)
(* threads times iterations: the test cannot fail.                         *)
(***************************************************************************)
THEOREM CountIsExact == Spec => []TestPasses
<1>1. TestInv => TestPasses
    BY DEF TestInv, MainBooks, TestPasses
<1> QED
    BY <1>1, TestInvAlways, PTL

-----------------------------------------------------------------------------
(***************************************************************************)
(* Facts about numbers.                                                    *)
(***************************************************************************)
\* Every non-empty set of naturals has a least element, and it is the Min.
LEMMA LeastNumber ==
    ASSUME NEW T \in SUBSET Nat, T # {}
    PROVE  \E x \in T : \A y \in T : x <= y
<1>1. \E x \in T : \A y \in T : ~(<<y, x>> \in OpToRel(<, Nat))
  BY NatLessThanWellFounded, WFMin, Zenon
<1>2. PICK x \in T : \A y \in T : ~(<<y, x>> \in OpToRel(<, Nat))
  BY <1>1, Zenon
<1>3. ASSUME NEW y \in T PROVE x <= y
  <2>1. y < x => <<y, x>> \in OpToRel(<, Nat)
    BY Zenon DEF OpToRel
  <2>2. ~(y < x)
    BY <1>2, <2>1, Zenon
  <2>3. x \in Nat /\ y \in Nat
    BY Zenon
  <2> QED
    BY ONLY <2>2, <2>3, SMT
<1> QED
  BY <1>3, Zenon

LEMMA MinOfNumbers ==
    ASSUME NEW T \in SUBSET Nat, T # {}
    PROVE  Min(T) \in T /\ \A y \in T : Min(T) <= y
BY LeastNumber DEF Min

\* What holds of 0 and of the next of each holds of every natural.
LEMMA EveryNumber ==
    ASSUME NEW T, 0 \in T, \A n \in Nat : n \in T => n + 1 \in T
    PROVE  \A n \in Nat : n \in T
<1> DEFINE U == {n \in Nat : n \notin T}
<1>1. SUFFICES ASSUME U # {} PROVE FALSE
  OBVIOUS
<1>2. PICK x \in U : \A y \in U : x <= y
  <2>1. U \in SUBSET Nat
    OBVIOUS
  <2> HIDE DEF U
  <2> QED
    BY <1>1, <2>1, LeastNumber
<1>3. x - 1 \in Nat /\ x - 1 \notin U
  BY <1>2
<1> QED
  BY <1>2, <1>3

-----------------------------------------------------------------------------
(***************************************************************************)
(* The kernels of the GPU search: the inductive invariant.                 *)
(***************************************************************************)
Labels == [Stops -> Nat]

Types ==
    /\ query \in Queries /\ trips = ActiveTrips(query.timetable, query.date)
    /\ state \in Labels /\ base \in Labels
    /\ round \in 0..(MaxRounds - 1)
    /\ kernel \in {"trips", "transfers", "none", "reported"}

\* What a rider has boarded: of all it has passed that can be boarded, the
\* earliest to depart.
BoardedAt(i, a) ==
    [stop |-> Timetable[i][a].stop, departure |-> Timetable[i][a].departure, rides |-> round + 1]

BoardIsEarliest(i) ==
    /\ \/ thread[i].board = NoBoard
       \/ \E a \in 1..(thread[i].event - 1) :
             Boardable(i, a, base, round) /\ thread[i].board = BoardedAt(i, a)
    /\ \A a \in 1..(thread[i].event - 1) : Boardable(i, a, base, round) =>
          /\ thread[i].board # NoBoard
          /\ thread[i].board.departure <= Timetable[i][a].departure

\* Labels that started as base and were lowered to some of what was found.
LoweredTo(found) ==
    \A s \in Stops :
        /\ state[s] <= base[s]
        /\ state[s] = base[s] \/ <<s, state[s]>> \in found

AllRides(from, r) == UNION {RidesFrom(i, from, r) : i \in trips}
AllWalks(from) == UNION {WalksFrom(s, from) : s \in Stops}

TripKernel ==
    /\ base = After[round]
    /\ DOMAIN thread = trips
    /\ \A i \in trips :
          /\ DOMAIN thread[i] = {"event", "board", "task"}
          /\ thread[i].event \in 1..(Len(Timetable[i]) + 1)
          /\ BoardIsEarliest(i)
          /\ \A b \in 1..(thread[i].event - 1) : RideTo(i, b, base, round) =>
                state[Timetable[i][b].stop] <= Packed(Timetable[i][b].arrival, round + 1)
    /\ LoweredTo(AllRides(base, round))

TransferKernel ==
    /\ base = Ridden(After[round], round)
    /\ DOMAIN thread = Stops
    /\ \A s \in Stops :
          /\ DOMAIN thread[s] = {"left", "task"}
          /\ thread[s].left \subseteq WalkTargets(s)
          /\ \A c \in WalksFrom(s, base) : c[1] \notin thread[s].left => state[c[1]] <= c[2]
    /\ LoweredTo(AllWalks(base))

LabelInv ==
    /\ Types
    /\ kernel = "trips" => TripKernel
    /\ kernel = "transfers" => TransferKernel
    /\ kernel \in {"none", "reported"} => thread = <<>> /\ state = After[MaxRounds]

-----------------------------------------------------------------------------
(***************************************************************************)
(* Lemmas.                                                                 *)
(***************************************************************************)
\* An atomicMin.
LEMMA LoweredLabel ==
    ASSUME NEW old \in Nat, NEW c \in Nat
    PROVE  /\ Lowered(old, c) \in {old, c}
           /\ Lowered(old, c) <= old /\ Lowered(old, c) <= c
BY MinOfNumbers DEF Lowered

\* What is packed into a label is read back.
LEMMA PackedParts ==
    ASSUME NEW a \in Nat, NEW n \in 0..255
    PROVE  Packed(a, n) \in Nat /\ Arrival(Packed(a, n)) = a /\ RidesOf(Packed(a, n)) = n
BY DEF Packed, Arrival, RidesOf

LEMMA LabelParts ==
    ASSUME NEW p \in Nat
    PROVE  Arrival(p) \in Nat /\ RidesOf(p) \in 0..255
BY DEF Arrival, RidesOf

\* The least of labels and of what was found: a label or a find, and none of
\* them is smaller.
Finds == Stops \X Nat

LEMMA LeastOfFinds ==
    ASSUME NEW from \in Labels, NEW found \in SUBSET Finds
    PROVE  /\ Least(from, found) \in Labels
           /\ \A s \in Stops :
                 /\ Least(from, found)[s] <= from[s]
                 /\ Least(from, found)[s] = from[s] \/ <<s, Least(from, found)[s]>> \in found
           /\ \A c \in found : Least(from, found)[c[1]] <= c[2]
<1> DEFINE AtStop(s) == {from[s]} \cup {c[2] : c \in {c \in found : c[1] = s}}
<1>1. ASSUME NEW s \in Stops
      PROVE  /\ Least(from, found)[s] = Min(AtStop(s))
             /\ AtStop(s) \in SUBSET Nat /\ from[s] \in AtStop(s)
  BY DEF Least, Finds, Labels
<1>2. ASSUME NEW s \in Stops
      PROVE  Min(AtStop(s)) \in AtStop(s) /\ \A y \in AtStop(s) : Min(AtStop(s)) <= y
  <2>1. AtStop(s) \in SUBSET Nat /\ AtStop(s) # {}
    BY <1>1
  <2> HIDE DEF AtStop
  <2> QED
    BY <2>1, MinOfNumbers
<1>3. ASSUME NEW s \in Stops
      PROVE  Min(AtStop(s)) = from[s] \/ <<s, Min(AtStop(s))>> \in found
  BY <1>2 DEF Finds
<1>4. ASSUME NEW c \in found
      PROVE  c[1] \in Stops /\ c[2] \in AtStop(c[1])
  BY DEF Finds
<1>5. Least(from, found) \in Labels
  <2>1. ASSUME NEW s \in Stops PROVE Least(from, found)[s] \in Nat
    <3> HIDE DEF AtStop
    <3> QED
      BY <1>1, <1>2
  <2> QED
    BY <2>1 DEF Least, Labels
<1> HIDE DEF AtStop
<1> QED
  BY <1>1, <1>2, <1>3, <1>4, <1>5

LEMMA LeastIsUnique ==
    ASSUME NEW from \in Labels, NEW found \in SUBSET Finds, NEW labels \in Labels,
           \A s \in Stops : /\ labels[s] <= from[s]
                            /\ labels[s] = from[s] \/ <<s, labels[s]>> \in found,
           \A c \in found : labels[c[1]] <= c[2]
    PROVE  labels = Least(from, found)
<1> DEFINE l == Least(from, found)
<1>1. /\ l \in Labels
      /\ \A s \in Stops : l[s] <= from[s] /\ (l[s] = from[s] \/ <<s, l[s]>> \in found)
      /\ \A c \in found : l[c[1]] <= c[2]
  BY LeastOfFinds
<1> HIDE DEF l
<1>2. ASSUME NEW s \in Stops PROVE labels[s] = l[s]
  <2>1. labels[s] <= l[s]
    <3>1. CASE l[s] = from[s]
      BY <3>1
    <3>2. CASE <<s, l[s]>> \in found
      BY <3>2
    <3> QED
      BY <1>1, <3>1, <3>2
  <2>2. l[s] <= labels[s]
    <3>1. CASE labels[s] = from[s]
      BY <1>1, <3>1
    <3>2. CASE <<s, labels[s]>> \in found
      BY <1>1, <3>2
    <3> QED
      BY <3>1, <3>2
  <2>3. labels[s] \in Nat /\ l[s] \in Nat
    BY <1>1 DEF Labels
  <2> QED
    BY <2>1, <2>2, <2>3
<1> QED
  BY <1>1, <1>2 DEF Labels, l

-----------------------------------------------------------------------------
(***************************************************************************)
(* The rounds of the reference.                                            *)
(***************************************************************************)
StopEvent == [stop : Stops, arrival : Nat, departure : Nat]

Asked == query \in Queries /\ trips = ActiveTrips(query.timetable, query.date)

LEMMA TripEvents ==
    ASSUME Asked, NEW i \in trips
    PROVE  /\ Timetable[i] \in Seq(StopEvent) /\ Len(Timetable[i]) \in Nat
           /\ DOMAIN Timetable[i] = 1..Len(Timetable[i])
           /\ \A a \in 1..Len(Timetable[i]) :
                 /\ Timetable[i][a] \in StopEvent
                 /\ Timetable[i][a].stop \in Stops
                 /\ Timetable[i][a].arrival \in Nat /\ Timetable[i][a].departure \in Nat
<1>1. Timetable \in Seq(Seq(StopEvent)) /\ i \in DOMAIN Timetable
  BY GpuTransitAssumption DEF Asked, ActiveTrips, Timetable, StopEvent
<1>2. Timetable[i] \in Seq(StopEvent)
  BY <1>1
<1>3. /\ Len(Timetable[i]) \in Nat
      /\ DOMAIN Timetable[i] = 1..Len(Timetable[i])
      /\ \A a \in 1..Len(Timetable[i]) : Timetable[i][a] \in StopEvent
  BY <1>2
<1>4. \A e \in StopEvent : e.stop \in Stops /\ e.arrival \in Nat /\ e.departure \in Nat
  BY DEF StopEvent
<1> QED
  BY <1>2, <1>3, <1>4

LEMMA RoundBounds ==
    ASSUME NEW r \in 0..(MaxRounds - 1)
    PROVE  MaxRounds \in Nat /\ r \in 0..255 /\ r + 1 \in 0..255 /\ r + 1 \in 1..MaxRounds
BY TransitPackAssumption, GpuTransitAssumption

LEMMA RidesAreFinds ==
    ASSUME Asked, NEW from, NEW r \in 0..(MaxRounds - 1)
    PROVE  AllRides(from, r) \in SUBSET Finds
<1>1. ASSUME NEW i \in trips, NEW c \in RidesFrom(i, from, r)
      PROVE  c \in Finds
  <2>1. PICK b \in DOMAIN Timetable[i] :
           c = <<Timetable[i][b].stop, Packed(Timetable[i][b].arrival, r + 1)>>
    BY DEF RidesFrom
  <2>2. Timetable[i][b].stop \in Stops /\ Timetable[i][b].arrival \in Nat
    BY <2>1, TripEvents
  <2> QED
    BY <2>1, <2>2, RoundBounds, PackedParts DEF Finds
<1> QED
  BY <1>1 DEF AllRides

LEMMA Walks ==
    ASSUME NEW s \in Stops, NEW t \in WalkTargets(s)
    PROVE  t \in Stops /\ Walk[<<s, t>>] \in Nat
BY TransitPackAssumption DEF WalkTargets

LEMMA WalksAreFinds ==
    ASSUME NEW from \in Labels
    PROVE  AllWalks(from) \in SUBSET Finds
<1>1. ASSUME NEW s \in Stops, NEW c \in WalksFrom(s, from)
      PROVE  c \in Finds
  <2>1. PICK t \in WalkTargets(s) :
           c = <<t, Packed(Arrival(from[s]) + Walk[<<s, t>>], RidesOf(from[s]))>>
    BY DEF WalksFrom
  <2>2. t \in Stops /\ Walk[<<s, t>>] \in Nat
    BY Walks
  <2>3. Arrival(from[s]) \in Nat /\ RidesOf(from[s]) \in 0..255
    BY LabelParts DEF Labels
  <2>4. Arrival(from[s]) + Walk[<<s, t>>] \in Nat
    BY <2>2, <2>3
  <2> QED
    BY <2>1, <2>2, <2>3, <2>4, PackedParts DEF Finds
<1> QED
  BY <1>1 DEF AllWalks

LEMMA OriginLabels == OriginState \in Labels
<1>1. ASSUME NEW s \in Stops PROVE OriginState[s] \in Nat
  <2>1. 0 \in 0..255 /\ Inf \in Nat
    BY TransitPackAssumption
  <2>2. CASE s \in DOMAIN Access
    <3>1. Depart + Access[s] \in Nat
      BY <2>2, TransitPackAssumption, GpuTransitAssumption
    <3> QED
      BY <2>1, <2>2, <3>1, PackedParts DEF OriginState
  <2>3. CASE s \notin DOMAIN Access
    BY <2>1, <2>3, PackedParts DEF OriginState
  <2> QED
    BY <2>2, <2>3
<1> QED
  BY <1>1 DEF OriginState, Labels

LEMMA RoundLabels ==
    ASSUME Asked, NEW from \in Labels, NEW r \in 0..(MaxRounds - 1)
    PROVE  Ridden(from, r) \in Labels /\ Walked(Ridden(from, r)) \in Labels
<1>1. Ridden(from, r) \in Labels
  BY RidesAreFinds, LeastOfFinds DEF Ridden, AllRides
<1> QED
  BY <1>1, WalksAreFinds, LeastOfFinds DEF Walked, AllWalks

\* The equations of After.
AfterEquations ==
    /\ After = [r \in 0..MaxRounds |-> After[r]]
    /\ After[0] = OriginState
    /\ \A r \in 1..MaxRounds : After[r] = Walked(Ridden(After[r - 1], r - 1))

LEMMA AfterRounds == AfterEquations
<1> DEFINE Step(labels, r) == Walked(Ridden(labels, r))
           Up(n, f) == f = [r \in 0..n |-> IF r = 0 THEN OriginState ELSE Step(f[r - 1], r - 1)]
           T == {n \in Nat : \E f : Up(n, f)}
<1>1. After = CHOOSE f : Up(MaxRounds, f)
  BY DEF After
<1> HIDE DEF Step
<1>2. 0 \in T
  <2>1. Up(0, [r \in 0..0 |-> OriginState])
    OBVIOUS
  <2> HIDE DEF Up
  <2> QED
    BY <2>1
<1>3. ASSUME NEW n \in Nat, n \in T PROVE n + 1 \in T
  <2>1. PICK f : Up(n, f)
    BY <1>3
  <2> DEFINE g == [r \in 0..(n + 1) |-> IF r = 0 THEN OriginState ELSE Step(f[r - 1], r - 1)]
  <2>2. ASSUME NEW r \in 0..(n + 1), r # 0 PROVE f[r - 1] = g[r - 1]
    <3>1. r - 1 \in 0..n /\ r - 1 \in 0..(n + 1)
      BY <2>2
    <3>2. f[r - 1] = IF r - 1 = 0 THEN OriginState ELSE Step(f[r - 1 - 1], r - 1 - 1)
      BY <2>1, <3>1
    <3> QED
      BY <3>1, <3>2
  <2>3. g = [r \in 0..(n + 1) |-> IF r = 0 THEN OriginState ELSE Step(g[r - 1], r - 1)]
    <3>1. \A r \in 0..(n + 1) :
             (IF r = 0 THEN OriginState ELSE Step(f[r - 1], r - 1))
                = (IF r = 0 THEN OriginState ELSE Step(g[r - 1], r - 1))
      BY <2>2
    <3> QED
      BY <3>1
  <2> HIDE DEF g
  <2>4. Up(n + 1, g)
    BY <2>3
  <2> HIDE DEF Up
  <2> QED
    BY <2>4
<1>4. MaxRounds \in Nat
  BY TransitPackAssumption
<1>5. \E f : Up(MaxRounds, f)
  <2> HIDE DEF Up
  <2>1. MaxRounds \in T
    <3> HIDE DEF T
    <3> QED
      BY <1>2, <1>3, <1>4, EveryNumber
  <2> QED
    BY <2>1
<1>6. Up(MaxRounds, After)
  <2> HIDE DEF Up
  <2> QED
    BY <1>1, <1>5
<1>7. After = [r \in 0..MaxRounds |-> After[r]]
  BY <1>6
<1>8. \A r \in 0..MaxRounds : After[r] = IF r = 0 THEN OriginState ELSE Step(After[r - 1], r - 1)
  BY <1>6
<1>9. After[0] = OriginState
  BY <1>4, <1>8
<1>10. \A r \in 1..MaxRounds : After[r] = Step(After[r - 1], r - 1)
  BY <1>4, <1>8
<1> QED
  BY <1>7, <1>9, <1>10 DEF Step, AfterEquations

LEMMA AfterLabels ==
    ASSUME Asked
    PROVE  \A r \in 0..MaxRounds : After[r] \in Labels
<1> DEFINE T == {r \in Nat : r \in 0..MaxRounds => After[r] \in Labels}
<1>1. 0 \in T
  BY AfterRounds, OriginLabels DEF AfterEquations
<1>2. ASSUME NEW r \in Nat, r \in T PROVE r + 1 \in T
  <2>1. SUFFICES ASSUME r + 1 \in 0..MaxRounds PROVE After[r + 1] \in Labels
    BY <1>2
  <2>2. r \in 0..MaxRounds /\ r \in 0..(MaxRounds - 1) /\ r + 1 \in 1..MaxRounds /\ r + 1 - 1 = r
    BY <2>1, TransitPackAssumption
  <2>3. After[r] \in Labels
    BY <1>2, <2>2
  <2>4. After[r + 1] = Walked(Ridden(After[r], r))
    BY <2>2, AfterRounds DEF AfterEquations
  <2> QED
    BY <2>2, <2>3, <2>4, RoundLabels
<1> HIDE DEF T
<1>3. \A r \in Nat : r \in T
  BY <1>1, <1>2, EveryNumber
<1> QED
  BY <1>3 DEF T

-----------------------------------------------------------------------------
(***************************************************************************)
(* The labels of the reference are real.                                   *)
(***************************************************************************)
Onwards(known) == known \cup UNION {WalksOn(l) \cup RidesOn(l) : l \in {l \in known : l.rides < MaxRounds}}

JourneyEquations ==
    /\ Journeyed[0] = {Known(s, Depart + Access[s], 0) : s \in DOMAIN Access}
    /\ \A n \in 1..(2 * MaxRounds) : Journeyed[n] = Onwards(Journeyed[n - 1])

LEMMA JourneySteps == JourneyEquations
<1> DEFINE First == {Known(s, Depart + Access[s], 0) : s \in DOMAIN Access}
           Up(n, f) == f = [r \in 0..n |-> IF r = 0 THEN First ELSE Onwards(f[r - 1])]
           T == {n \in Nat : \E f : Up(n, f)}
<1>1. Journeyed = CHOOSE f : Up(2 * MaxRounds, f)
  BY DEF Journeyed, Onwards
<1> HIDE DEF First
<1>2. 0 \in T
  <2>1. Up(0, [r \in 0..0 |-> First])
    OBVIOUS
  <2> HIDE DEF Up
  <2> QED
    BY <2>1
<1>3. ASSUME NEW n \in Nat, n \in T PROVE n + 1 \in T
  <2>1. PICK f : Up(n, f)
    BY <1>3
  <2> DEFINE g == [r \in 0..(n + 1) |-> IF r = 0 THEN First ELSE Onwards(f[r - 1])]
  <2>2. ASSUME NEW r \in 0..(n + 1), r # 0 PROVE f[r - 1] = g[r - 1]
    <3>1. r - 1 \in 0..n /\ r - 1 \in 0..(n + 1)
      BY <2>2
    <3>2. f[r - 1] = IF r - 1 = 0 THEN First ELSE Onwards(f[r - 1 - 1])
      BY <2>1, <3>1
    <3> QED
      BY <3>1, <3>2
  <2>3. g = [r \in 0..(n + 1) |-> IF r = 0 THEN First ELSE Onwards(g[r - 1])]
    <3>1. \A r \in 0..(n + 1) :
             (IF r = 0 THEN First ELSE Onwards(f[r - 1]))
                = (IF r = 0 THEN First ELSE Onwards(g[r - 1]))
      BY <2>2
    <3> QED
      BY <3>1
  <2> HIDE DEF g
  <2>4. Up(n + 1, g)
    BY <2>3
  <2> HIDE DEF Up
  <2> QED
    BY <2>4
<1>4. MaxRounds \in Nat /\ 2 * MaxRounds \in Nat
  BY TransitPackAssumption
<1>5. \E f : Up(2 * MaxRounds, f)
  <2> HIDE DEF Up
  <2>1. 2 * MaxRounds \in T
    <3> HIDE DEF T
    <3> QED
      BY <1>2, <1>3, <1>4, EveryNumber
  <2> QED
    BY <2>1
<1>6. Up(2 * MaxRounds, Journeyed)
  <2> HIDE DEF Up
  <2> QED
    BY <1>1, <1>5
<1>7. \A r \in 0..(2 * MaxRounds) : Journeyed[r] = IF r = 0 THEN First ELSE Onwards(Journeyed[r - 1])
  BY <1>6
<1>8. Journeyed[0] = First
  BY <1>4, <1>7
<1>9. \A n \in 1..(2 * MaxRounds) : Journeyed[n] = Onwards(Journeyed[n - 1])
  BY <1>4, <1>7
<1> QED
  BY <1>8, <1>9 DEF First, JourneyEquations

Real(labels, n) ==
    \A s \in Stops : Arrival(labels[s]) # Inf =>
        Known(s, Arrival(labels[s]), RidesOf(labels[s])) \in Journeyed[n]

LEMMA OriginIsReal == Real(OriginState, 0)
<1> SUFFICES ASSUME NEW s \in Stops, Arrival(OriginState[s]) # Inf
             PROVE  Known(s, Arrival(OriginState[s]), RidesOf(OriginState[s])) \in Journeyed[0]
  BY DEF Real
<1>1. 0 \in 0..255 /\ Inf \in Nat
  BY TransitPackAssumption
<1>2. s \in DOMAIN Access
  BY <1>1, PackedParts DEF OriginState
<1>3. Depart + Access[s] \in Nat
  BY <1>2, TransitPackAssumption, GpuTransitAssumption
<1>4. Arrival(OriginState[s]) = Depart + Access[s] /\ RidesOf(OriginState[s]) = 0
  BY <1>1, <1>2, <1>3, PackedParts DEF OriginState
<1> QED
  BY <1>2, <1>4, JourneySteps DEF JourneyEquations

\* A round of rides, and one of walks.
LEMMA RidesAreReal ==
    ASSUME Asked, NEW from \in Labels, NEW r \in 0..(MaxRounds - 1),
           NEW n \in 0..(2 * MaxRounds - 1), Real(from, n)
    PROVE  Real(Ridden(from, r), n + 1)
<1>1. n + 1 \in 1..(2 * MaxRounds) /\ n + 1 - 1 = n /\ r \in Nat /\ r < MaxRounds /\ r + 1 \in 0..255
  BY TransitPackAssumption, RoundBounds
<1>2. Journeyed[n + 1] = Onwards(Journeyed[n])
  BY <1>1, JourneySteps DEF JourneyEquations
<1>3. SUFFICES ASSUME NEW s \in Stops, Arrival(Ridden(from, r)[s]) # Inf
               PROVE  Known(s, Arrival(Ridden(from, r)[s]), RidesOf(Ridden(from, r)[s])) \in Journeyed[n + 1]
  BY DEF Real
<1>4. Ridden(from, r)[s] = from[s] \/ <<s, Ridden(from, r)[s]>> \in AllRides(from, r)
  <2>1. Ridden(from, r) = Least(from, AllRides(from, r))
    BY DEF Ridden, AllRides
  <2> QED
    BY <2>1, RidesAreFinds, LeastOfFinds
<1>5. CASE Ridden(from, r)[s] = from[s]
  <2>1. Known(s, Arrival(from[s]), RidesOf(from[s])) \in Journeyed[n]
    BY <1>3, <1>5 DEF Real
  <2> QED
    BY <1>2, <1>5, <2>1 DEF Onwards
<1>6. CASE <<s, Ridden(from, r)[s]>> \in AllRides(from, r)
  <2>0. PICK i \in trips : <<s, Ridden(from, r)[s]>> \in RidesFrom(i, from, r)
    BY <1>6 DEF AllRides
  <2>1. PICK b \in DOMAIN Timetable[i] :
           /\ <<s, Ridden(from, r)[s]>> = <<Timetable[i][b].stop, Packed(Timetable[i][b].arrival, r + 1)>>
           /\ RideTo(i, b, from, r)
    BY <2>0 DEF RidesFrom
  <2>2. PICK a \in 1..(b - 1) : Boardable(i, a, from, r) /\ Timetable[i][a].departure <= Timetable[i][b].arrival
    BY <2>1 DEF RideTo
  <2> DEFINE u == Timetable[i][a].stop
             l == Known(u, Arrival(from[u]), r)
  <2>3. /\ a \in DOMAIN Timetable[i] /\ a < b /\ u \in Stops
        /\ Timetable[i][b].arrival \in Nat
    BY <2>1, <2>2, TripEvents
  <2>4. /\ Arrival(from[u]) # Inf /\ RidesOf(from[u]) = r
        /\ Arrival(from[u]) + BoardSlack <= Timetable[i][a].departure
    BY <2>2 DEF Boardable, CanBoard
  <2>5. l \in Journeyed[n]
    BY <2>3, <2>4 DEF Real
  <2>6. /\ Ridden(from, r)[s] = Packed(Timetable[i][b].arrival, r + 1) /\ s = Timetable[i][b].stop
        /\ Arrival(Ridden(from, r)[s]) = Timetable[i][b].arrival /\ RidesOf(Ridden(from, r)[s]) = r + 1
    <3>1. Ridden(from, r)[s] = Packed(Timetable[i][b].arrival, r + 1) /\ s = Timetable[i][b].stop
      BY <2>1
    <3> DEFINE x == Timetable[i][b].arrival
    <3>2. x \in Nat
      BY <2>3
    <3> HIDE DEF x
    <3>3. Arrival(Packed(x, r + 1)) = x /\ RidesOf(Packed(x, r + 1)) = r + 1
      BY <1>1, <3>2, PackedParts
    <3> QED
      BY <3>1, <3>3 DEF x
  <2>7. l.stop = u /\ l.arrival = Arrival(from[u]) /\ l.rides = r
    BY DEF Known
  <2> DEFINE p == <<a, b>>
  <2>8. /\ p \in (DOMAIN Timetable[i]) \X (DOMAIN Timetable[i]) /\ p[1] = a /\ p[2] = b
        /\ p[1] < p[2] /\ Timetable[i][p[1]].stop = l.stop
        /\ l.arrival + BoardSlack <= Timetable[i][p[1]].departure
        /\ Timetable[i][p[1]].departure <= Timetable[i][p[2]].arrival
    BY <2>2, <2>3, <2>4, <2>7
  <2> HIDE DEF l, p, u
  <2>9. Known(Timetable[i][p[2]].stop, Timetable[i][p[2]].arrival, l.rides + 1) \in RidesOn(l)
    BY <2>8 DEF RidesOn
  <2>10. Known(s, Timetable[i][b].arrival, r + 1) \in RidesOn(l)
    BY <2>6, <2>7, <2>8, <2>9
  <2> QED
    BY <1>1, <1>2, <2>5, <2>6, <2>7, <2>10 DEF Onwards
<1> QED
  BY <1>4, <1>5, <1>6

LEMMA WalksAreReal ==
    ASSUME NEW from \in Labels, NEW n \in 0..(2 * MaxRounds - 1), Real(from, n)
    PROVE  Real(Walked(from), n + 1)
<1>1. n + 1 \in 1..(2 * MaxRounds) /\ n + 1 - 1 = n
  BY TransitPackAssumption
<1>2. Journeyed[n + 1] = Onwards(Journeyed[n])
  BY <1>1, JourneySteps DEF JourneyEquations
<1>3. SUFFICES ASSUME NEW s \in Stops, Arrival(Walked(from)[s]) # Inf
               PROVE  Known(s, Arrival(Walked(from)[s]), RidesOf(Walked(from)[s])) \in Journeyed[n + 1]
  BY DEF Real
<1>4. Walked(from)[s] = from[s] \/ <<s, Walked(from)[s]>> \in AllWalks(from)
  <2>1. Walked(from) = Least(from, AllWalks(from))
    BY DEF Walked, AllWalks
  <2> QED
    BY <2>1, WalksAreFinds, LeastOfFinds
<1>5. CASE Walked(from)[s] = from[s]
  <2>1. Known(s, Arrival(from[s]), RidesOf(from[s])) \in Journeyed[n]
    BY <1>3, <1>5 DEF Real
  <2> QED
    BY <1>2, <1>5, <2>1 DEF Onwards
<1>6. CASE <<s, Walked(from)[s]>> \in AllWalks(from)
  <2>1. PICK u \in Stops : <<s, Walked(from)[s]>> \in WalksFrom(u, from)
    BY <1>6 DEF AllWalks
  <2>2. /\ Arrival(from[u]) # Inf /\ ~(RidesOf(from[u]) >= MaxRounds)
        /\ s \in WalkTargets(u)
        /\ Walked(from)[s] = Packed(Arrival(from[u]) + Walk[<<u, s>>], RidesOf(from[u]))
    BY <2>1 DEF WalksFrom
  <2>3. Arrival(from[u]) \in Nat /\ RidesOf(from[u]) \in 0..255 /\ Walk[<<u, s>>] \in Nat
    BY <2>2, LabelParts, Walks DEF Labels
  <2>4. /\ Arrival(Walked(from)[s]) = Arrival(from[u]) + Walk[<<u, s>>]
        /\ RidesOf(Walked(from)[s]) = RidesOf(from[u])
    <3> DEFINE x == Arrival(from[u]) + Walk[<<u, s>>]
               k == RidesOf(from[u])
    <3>1. x \in Nat /\ k \in 0..255
      BY <2>3
    <3> HIDE DEF x, k
    <3>2. Arrival(Packed(x, k)) = x /\ RidesOf(Packed(x, k)) = k
      BY <3>1, PackedParts
    <3> QED
      BY <2>2, <3>2 DEF x, k
  <2> DEFINE l == Known(u, Arrival(from[u]), RidesOf(from[u]))
  <2>5. l.stop = u /\ l.arrival = Arrival(from[u]) /\ l.rides = RidesOf(from[u])
    BY DEF Known
  <2>6. l \in Journeyed[n] /\ l.rides < MaxRounds
    BY <2>2, <2>3, <2>5, TransitPackAssumption DEF Real
  <2> HIDE DEF l
  <2>7. Known(s, l.arrival + Walk[<<l.stop, s>>], l.rides) \in WalksOn(l)
    BY <2>2, <2>5 DEF WalksOn
  <2> QED
    BY <1>2, <2>4, <2>5, <2>6, <2>7 DEF Onwards
<1> QED
  BY <1>4, <1>5, <1>6

LEMMA ReferenceIsReal ==
    ASSUME Asked
    PROVE  Real(After[MaxRounds], 2 * MaxRounds)
<1> DEFINE T == {r \in Nat : r \in 0..MaxRounds => Real(After[r], 2 * r)}
<1>0. MaxRounds \in Nat \ {0}
  BY TransitPackAssumption
<1>1. 0 \in T
  BY AfterRounds, OriginIsReal DEF AfterEquations
<1>2. ASSUME NEW r \in Nat, r \in T PROVE r + 1 \in T
  <2>1. SUFFICES ASSUME r + 1 \in 0..MaxRounds PROVE Real(After[r + 1], 2 * (r + 1))
    BY <1>2
  <2>2. /\ r \in 0..MaxRounds /\ r \in 0..(MaxRounds - 1) /\ r + 1 \in 1..MaxRounds /\ r + 1 - 1 = r
        /\ 2 * r \in 0..(2 * MaxRounds - 1) /\ 2 * r + 1 \in 0..(2 * MaxRounds - 1)
        /\ 2 * r + 1 + 1 = 2 * (r + 1)
    BY <1>0, <2>1
  <2>3. After[r + 1] = Walked(Ridden(After[r], r))
    <3>1. \A k \in 1..MaxRounds : After[k] = Walked(Ridden(After[k - 1], k - 1))
      BY AfterRounds DEF AfterEquations
    <3> QED
      BY ONLY <2>2, <3>1
  <2>4. After[r] \in Labels /\ Real(After[r], 2 * r)
    BY <1>2, <2>2, AfterLabels
  <2>5. Ridden(After[r], r) \in Labels /\ Real(Ridden(After[r], r), 2 * r + 1)
    BY <2>2, <2>4, RoundLabels, RidesAreReal
  <2>6. Real(Walked(Ridden(After[r], r)), 2 * r + 1 + 1)
    BY <2>2, <2>5, WalksAreReal
  <2> QED
    BY <2>2, <2>3, <2>6
<1> HIDE DEF T
<1>3. \A r \in Nat : r \in T
  BY <1>1, <1>2, EveryNumber
<1> QED
  BY <1>0, <1>3 DEF T

-----------------------------------------------------------------------------
(***************************************************************************)
(* The search.                                                             *)
(***************************************************************************)
Again == query' = query /\ trips' = trips

LEMMA SameOperators ==
    ASSUME Again
    PROVE  /\ \A i, a, from, r : Boardable(i, a, from, r)' <=> Boardable(i, a, from, r)
           /\ \A i, b, from, r : RideTo(i, b, from, r)' <=> RideTo(i, b, from, r)
           /\ \A from, r : Ridden(from, r)' = Ridden(from, r)
           /\ \A from : Walked(from)' = Walked(from)
<1>1. Timetable' = Timetable
  BY DEF Again, Timetable
<1>2. ASSUME NEW i, NEW a, NEW from, NEW r
      PROVE  Boardable(i, a, from, r)' <=> Boardable(i, a, from, r)
  BY <1>1 DEF Boardable
<1>3. ASSUME NEW i, NEW b, NEW from, NEW r
      PROVE  RideTo(i, b, from, r)' <=> RideTo(i, b, from, r)
  BY <1>1, <1>2 DEF RideTo
<1>4. ASSUME NEW i, NEW from, NEW r
      PROVE  RidesFrom(i, from, r)' = RidesFrom(i, from, r)
  BY <1>1, <1>3 DEF RidesFrom
<1>5. ASSUME NEW from, NEW r
      PROVE  Ridden(from, r)' = Ridden(from, r)
  <2>1. AllRides(from, r)' = AllRides(from, r)
    BY <1>4 DEF AllRides, Again
  <2> QED
    BY <2>1 DEF AllRides, Ridden
<1>6. ASSUME NEW from PROVE Walked(from)' = Walked(from)
  BY DEF Walked
<1> QED
  BY <1>2, <1>3, <1>5, <1>6

LEMMA SameReference == Again => After' = After
<1> SUFFICES ASSUME Again PROVE After' = After
  OBVIOUS
<1>1. AfterEquations
  BY AfterRounds
<1>2. AfterEquations'
  BY AfterRounds, PTL
<1> DEFINE T == {r \in Nat : r \in 0..MaxRounds => After'[r] = After[r]}
<1>3. 0 \in T
  BY <1>1, <1>2 DEF AfterEquations, OriginState
<1>4. ASSUME NEW r \in Nat, r \in T PROVE r + 1 \in T
  <2>1. SUFFICES ASSUME r + 1 \in 0..MaxRounds PROVE After'[r + 1] = After[r + 1]
    BY <1>4
  <2>2. r \in 0..MaxRounds /\ r + 1 \in 1..MaxRounds /\ r + 1 - 1 = r
    BY <2>1, TransitPackAssumption
  <2>3. After'[r] = After[r]
    BY <1>4, <2>2
  <2>4. After[r + 1] = Walked(Ridden(After[r], r))
    BY <1>1, <2>2 DEF AfterEquations
  <2>5. After'[r + 1] = Walked(Ridden(After[r], r))'
    BY <1>2, <2>2 DEF AfterEquations
  <2> QED
    BY <2>3, <2>4, <2>5, SameOperators
<1> HIDE DEF T
<1>5. \A r \in Nat : r \in T
  BY <1>3, <1>4, EveryNumber
<1>6. \A r \in 0..MaxRounds : After'[r] = After[r]
  BY <1>5, TransitPackAssumption DEF T
<1>7. After = [r \in 0..MaxRounds |-> After[r]] /\ After' = [r \in 0..MaxRounds |-> After'[r]]
  BY <1>1, <1>2 DEF AfterEquations
<1> QED
  BY <1>6, <1>7

\* Every rider at its first event: nothing is lowered yet.
RoundBegins ==
    /\ base \in Labels /\ base = After[round] /\ state = base
    /\ Asked /\ thread = [i \in trips |-> Rider]

LEMMA RoundStarts == RoundBegins => TripKernel
<1> SUFFICES ASSUME base \in Labels, base = After[round], state = base,
                    Asked, thread = [i \in trips |-> Rider]
             PROVE  TripKernel
  BY DEF RoundBegins
<1>1. ASSUME NEW i \in trips
      PROVE  /\ DOMAIN thread[i] = {"event", "board", "task"}
             /\ thread[i].event = 1 /\ thread[i].board = NoBoard
             /\ thread[i].event \in 1..(Len(Timetable[i]) + 1)
             /\ 1..(thread[i].event - 1) = {}
  <2>1. thread[i] = [event |-> 1, board |-> NoBoard, task |-> NoTask]
    BY DEF Rider
  <2>2. Len(Timetable[i]) \in Nat
    BY TripEvents
  <2> QED
    BY <2>1, <2>2
<1>2. \A s \in Stops : state[s] <= base[s]
  BY DEF Labels
<1> QED
  BY <1>1, <1>2 DEF TripKernel, BoardIsEarliest, LoweredTo

\* The end of a thread's step that only concerns its predecessors.
LEMMA PredecessorsKeepLabels ==
    ASSUME LabelInv, NEW i \in DOMAIN thread, NEW x, thread' = [thread EXCEPT ![i].task = x],
           UNCHANGED <<query, trips, round, kernel, base, state>>
    PROVE  LabelInv'
<1>1. Again
  BY DEF Again
<1>2. After' = After
  BY <1>1, SameReference
<1>3. Types'
  BY DEF LabelInv, Types
<1>4. DOMAIN thread' = DOMAIN thread
  OBVIOUS
<1>5. ASSUME NEW j \in DOMAIN thread
      PROVE  /\ DOMAIN thread'[j] = DOMAIN thread[j]
             /\ \A f \in DOMAIN thread[j] : f # "task" => thread'[j][f] = thread[j][f]
  OBVIOUS
<1>6. CASE kernel = "trips"
  <2>1. TripKernel /\ DOMAIN thread = trips
    BY <1>6 DEF LabelInv, TripKernel
  <2>2. ASSUME NEW j \in trips
        PROVE  /\ DOMAIN thread'[j] = {"event", "board", "task"}
               /\ thread'[j].event = thread[j].event /\ thread'[j].board = thread[j].board
    <3>1. DOMAIN thread[j] = {"event", "board", "task"} /\ j \in DOMAIN thread
      BY <2>1 DEF TripKernel
    <3> QED
      BY <1>5, <3>1
  <2>3. ASSUME NEW j \in trips
        PROVE  /\ thread'[j].event \in 1..(Len(Timetable'[j]) + 1)
               /\ BoardIsEarliest(j)'
               /\ \A b \in 1..(thread'[j].event - 1) : RideTo(j, b, base, round)' =>
                     state'[Timetable'[j][b].stop] <= Packed(Timetable'[j][b].arrival, round' + 1)
    <3>1. Timetable' = Timetable
      BY DEF Timetable
    <3>2. /\ thread[j].event \in 1..(Len(Timetable[j]) + 1)
          /\ BoardIsEarliest(j)
          /\ \A b \in 1..(thread[j].event - 1) : RideTo(j, b, base, round) =>
                state[Timetable[j][b].stop] <= Packed(Timetable[j][b].arrival, round + 1)
      BY <2>1 DEF TripKernel
    <3>3. BoardIsEarliest(j)'
      BY <1>1, <2>2, <3>1, <3>2, SameOperators DEF BoardIsEarliest, BoardedAt
    <3> QED
      BY <1>1, <2>2, <3>1, <3>2, <3>3, SameOperators
  <2>4. LoweredTo(AllRides(base, round))'
    <3>1. AllRides(base, round)' = AllRides(base, round)
      BY DEF AllRides, RidesFrom, RideTo, Boardable, Timetable
    <3> QED
      BY <2>1, <3>1 DEF TripKernel, LoweredTo
  <2>5. TripKernel'
    BY <1>2, <1>4, <2>1, <2>2, <2>3, <2>4 DEF TripKernel
  <2> QED
    BY <1>3, <1>6, <2>5 DEF LabelInv
<1>7. CASE kernel = "transfers"
  <2>1. TransferKernel /\ DOMAIN thread = Stops
    BY <1>7 DEF LabelInv, TransferKernel
  <2>2. ASSUME NEW s \in Stops
        PROVE  DOMAIN thread'[s] = {"left", "task"} /\ thread'[s].left = thread[s].left
    <3>1. DOMAIN thread[s] = {"left", "task"} /\ s \in DOMAIN thread
      BY <2>1 DEF TransferKernel
    <3> QED
      BY <1>5, <3>1
  <2>3. base' = Ridden(After[round], round)'
    BY <1>1, <1>2, <2>1, SameOperators DEF TransferKernel
  <2>4. LoweredTo(AllWalks(base))'
    <3>1. AllWalks(base)' = AllWalks(base)
      BY DEF AllWalks, WalksFrom
    <3> QED
      BY <2>1, <3>1 DEF TransferKernel, LoweredTo
  <2>5. ASSUME NEW s \in Stops, NEW c \in WalksFrom(s, base)', c[1] \notin thread'[s].left
        PROVE  state'[c[1]] <= c[2]
    BY <2>1, <2>2, <2>5 DEF TransferKernel, WalksFrom
  <2>6. TransferKernel'
    BY <1>4, <2>1, <2>2, <2>3, <2>4, <2>5 DEF TransferKernel
  <2> QED
    BY <1>3, <1>7, <2>6 DEF LabelInv
<1>8. CASE kernel \in {"none", "reported"}
  BY <1>8 DEF LabelInv
<1> QED
  BY <1>6, <1>7, <1>8 DEF LabelInv, Types

-----------------------------------------------------------------------------
\* A rider alights exactly where a ride leads: having boarded only the earliest
\* to depart, it misses none.
LEMMA AlightsWhereRidesLead ==
    ASSUME Types, kernel = "trips", TripKernel, NEW i \in trips, thread[i].event <= Len(Timetable[i])
    PROVE  LET e == thread[i].event
           IN  /\ e \in 1..Len(Timetable[i])
               /\ Alights(thread[i].board, Timetable[i][e]) <=> RideTo(i, e, base, round)
               /\ thread[i].board # NoBoard => /\ thread[i].board.rides = round + 1
                                               /\ thread[i].board.departure \in Nat
<1> DEFINE e == thread[i].event
           board == thread[i].board
<1>1. BoardIsEarliest(i) /\ e \in 1..(Len(Timetable[i]) + 1)
  BY DEF TripKernel
<1>2. e \in 1..Len(Timetable[i])
  <2>1. Len(Timetable[i]) \in Nat
    BY TripEvents DEF Types, Asked
  <2> QED
    BY <1>1, <2>1
<1>3. /\ \A a \in 1..(e - 1) : Timetable[i][a].departure \in Nat
      /\ Timetable[i][e].arrival \in Nat
  <2>1. \A a \in 1..Len(Timetable[i]) : Timetable[i][a].departure \in Nat /\ Timetable[i][a].arrival \in Nat
    BY TripEvents DEF Types, Asked
  <2> QED
    BY <1>2, <2>1
<1>4. ASSUME board # NoBoard
      PROVE  \E a \in 1..(e - 1) : /\ Boardable(i, a, base, round)
                                   /\ board.rides = round + 1
                                   /\ board.departure = Timetable[i][a].departure
  <2>1. PICK a \in 1..(e - 1) : Boardable(i, a, base, round) /\ board = BoardedAt(i, a)
    BY <1>1, <1>4 DEF BoardIsEarliest
  <2>2. board.rides = round + 1 /\ board.departure = Timetable[i][a].departure
    BY <2>1 DEF BoardedAt
  <2> QED
    BY <2>1, <2>2
<1>5. \A a \in 1..(e - 1) : Boardable(i, a, base, round) =>
         board # NoBoard /\ board.departure <= Timetable[i][a].departure
  BY <1>1 DEF BoardIsEarliest
<1> HIDE DEF e, board
<1>6. Alights(board, Timetable[i][e]) => RideTo(i, e, base, round)
  BY <1>3, <1>4 DEF Alights, RideTo
<1>7. RideTo(i, e, base, round) => Alights(board, Timetable[i][e])
  <2> SUFFICES ASSUME RideTo(i, e, base, round) PROVE Alights(board, Timetable[i][e])
    OBVIOUS
  <2>1. PICK a \in 1..(e - 1) :
           Boardable(i, a, base, round) /\ Timetable[i][a].departure <= Timetable[i][e].arrival
    BY DEF RideTo
  <2>2. board # NoBoard /\ board.departure <= Timetable[i][a].departure
    BY <1>5, <2>1
  <2>3. board.departure \in Nat
    BY <1>3, <1>4, <2>2
  <2> QED
    BY <1>3, <2>1, <2>2, <2>3 DEF Alights
<1> QED
  BY <1>2, <1>3, <1>4, <1>6, <1>7 DEF e, board

LEMMA RidesOnKeeps ==
    ASSUME LabelInv, NEW i \in trips, RideOn(i)
    PROVE  LabelInv'
<1> DEFINE e == thread[i].event
           event == Timetable[i][e]
           board == thread[i].board
           candidate == Packed(event.arrival, board.rides)
<1>1. /\ kernel = "trips" /\ TripKernel /\ Types /\ Asked
      /\ e <= Len(Timetable[i]) /\ DOMAIN thread = trips
      /\ UNCHANGED <<query, trips, round, kernel, base>>
  BY DEF RideOn, LabelInv, TripKernel, Types, Asked
<1>2. /\ e \in 1..Len(Timetable[i])
      /\ Alights(board, event) <=> RideTo(i, e, base, round)
      /\ board # NoBoard => board.rides = round + 1 /\ board.departure \in Nat
  BY <1>1, AlightsWhereRidesLead
<1>3. /\ state' = IF Alights(board, event)
                   THEN [state EXCEPT ![event.stop] = Lowered(@, candidate)] ELSE state
      /\ thread'[i].event = e + 1 /\ thread'[i].board = Boarded(board, event)
      /\ DOMAIN thread'[i] = {"event", "board", "task"}
      /\ DOMAIN thread' = trips /\ \A j \in trips \ {i} : thread'[j] = thread[j]
  BY <1>1 DEF RideOn
<1>4. event.stop \in Stops /\ event.arrival \in Nat /\ event.departure \in Nat
  BY <1>1, <1>2, TripEvents
<1>5. Again /\ Timetable' = Timetable
  BY <1>1 DEF Again, Timetable
<1>6. After' = After
  BY <1>5, SameReference
<1>7. RideTo(i, e, base, round) => /\ candidate = Packed(event.arrival, round + 1) /\ candidate \in Nat
                                   /\ <<event.stop, candidate>> \in AllRides(base, round)
  <2> SUFFICES ASSUME RideTo(i, e, base, round)
               PROVE  /\ candidate = Packed(event.arrival, round + 1) /\ candidate \in Nat
                      /\ <<event.stop, candidate>> \in AllRides(base, round)
    OBVIOUS
  <2>1. candidate = Packed(event.arrival, round + 1)
    BY <1>2 DEF Alights
  <2>2. candidate \in Nat
    <3>1. round + 1 \in 0..255
      BY <1>1, RoundBounds DEF Types
    <3> QED
      BY <1>4, <2>1, <3>1, PackedParts
  <2>3. <<event.stop, candidate>> \in RidesFrom(i, base, round)
    <3>1. e \in DOMAIN Timetable[i]
      BY <1>1, <1>2, TripEvents
    <3> QED
      BY <2>1, <3>1 DEF RidesFrom
  <2> QED
    BY <2>1, <2>2, <2>3 DEF AllRides
<1> HIDE DEF e, event, board, candidate
<1>8. /\ state' \in Labels
      /\ \A s \in Stops : /\ state'[s] <= state[s]
                          /\ state'[s] = state[s] \/ <<s, state'[s]>> \in AllRides(base, round)
      /\ RideTo(i, e, base, round) => state'[event.stop] <= candidate
  <2>0. state \in [Stops -> Nat]
    BY <1>1 DEF Types, Labels
  <2>1. CASE RideTo(i, e, base, round)
    <3>1. state' = [state EXCEPT ![event.stop] = Lowered(@, candidate)]
      BY <1>2, <1>3, <2>1
    <3>2. /\ Lowered(state[event.stop], candidate) \in {state[event.stop], candidate}
          /\ Lowered(state[event.stop], candidate) <= state[event.stop]
          /\ Lowered(state[event.stop], candidate) <= candidate
          /\ state[event.stop] \in Nat /\ candidate \in Nat
      BY <1>4, <1>7, <2>0, <2>1, LoweredLabel
    <3>3. state' \in [Stops -> Nat]
      BY <2>0, <3>1, <3>2
    <3>4. state'[event.stop] = Lowered(state[event.stop], candidate)
      BY <1>4, <2>0, <3>1
    <3>5. ASSUME NEW s \in Stops
          PROVE  /\ state'[s] <= state[s]
                 /\ state'[s] = state[s] \/ <<s, state'[s]>> \in AllRides(base, round)
      <4>1. CASE s = event.stop
        BY <1>7, <2>1, <3>2, <3>4, <4>1
      <4>2. CASE s # event.stop
        BY <2>0, <3>1, <4>2
      <4> QED
        BY <4>1, <4>2
    <3> QED
      BY <3>2, <3>3, <3>4, <3>5 DEF Labels
  <2>2. CASE ~RideTo(i, e, base, round)
    BY <1>2, <1>3, <2>0, <2>2 DEF Labels
  <2> QED
    BY <2>1, <2>2
<1>9. Types'
  BY <1>1, <1>8 DEF Types, Labels
<1>10. LoweredTo(AllRides(base, round))'
  <2>1. AllRides(base, round)' = AllRides(base, round)
    BY <1>1 DEF AllRides, RidesFrom, RideTo, Boardable, Timetable
  <2>2. LoweredTo(AllRides(base, round)) /\ state \in Labels /\ base \in Labels
    BY <1>1 DEF TripKernel, Types
  <2>3. ASSUME NEW s \in Stops
        PROVE  /\ state'[s] <= base[s]
               /\ state'[s] = base[s] \/ <<s, state'[s]>> \in AllRides(base, round)
    <3>1. state'[s] \in Nat /\ state[s] \in Nat /\ base[s] \in Nat
      BY <1>8, <2>2 DEF Labels
    <3>2. state[s] <= base[s] /\ (state[s] = base[s] \/ <<s, state[s]>> \in AllRides(base, round))
      BY <2>2 DEF LoweredTo
    <3>3. state'[s] <= state[s] /\ (state'[s] = state[s] \/ <<s, state'[s]>> \in AllRides(base, round))
      BY <1>8
    <3>4. state'[s] <= base[s]
      BY <3>1, <3>2, <3>3
    <3> QED
      BY <3>2, <3>3, <3>4
  <2> QED
    BY <1>1, <2>1, <2>3 DEF LoweredTo
<1>11. \A j \in trips : \A b \in 1..(thread[j].event - 1) : RideTo(j, b, base, round) =>
         state'[Timetable[j][b].stop] <= Packed(Timetable[j][b].arrival, round + 1)
  <2> SUFFICES ASSUME NEW j \in trips, NEW b \in 1..(thread[j].event - 1), RideTo(j, b, base, round)
               PROVE  state'[Timetable[j][b].stop] <= Packed(Timetable[j][b].arrival, round + 1)
    OBVIOUS
  <2>1. /\ state[Timetable[j][b].stop] <= Packed(Timetable[j][b].arrival, round + 1)
        /\ thread[j].event \in 1..(Len(Timetable[j]) + 1)
    BY <1>1 DEF TripKernel
  <2>2. Timetable[j][b].stop \in Stops /\ Timetable[j][b].arrival \in Nat
    <3>1. b \in 1..Len(Timetable[j])
      BY <1>1, <2>1, TripEvents
    <3> QED
      BY <1>1, <3>1, TripEvents
  <2>3. Packed(Timetable[j][b].arrival, round + 1) \in Nat
    <3>1. round + 1 \in 0..255
      BY <1>1, RoundBounds DEF Types
    <3> QED
      BY <2>2, <3>1, PackedParts
  <2>4. state'[Timetable[j][b].stop] \in Nat /\ state[Timetable[j][b].stop] \in Nat
    BY <1>1, <1>8, <2>2 DEF Types, Labels
  <2>5. state'[Timetable[j][b].stop] <= state[Timetable[j][b].stop]
    BY <1>8, <2>2
  <2> QED
    BY <2>1, <2>3, <2>4, <2>5
<1>12. BoardIsEarliest(i)'
  <2> DEFINE takes == /\ CanBoard(base[event.stop], event.departure)
                      /\ RidesOf(base[event.stop]) = round
                      /\ board = NoBoard \/ event.departure < board.departure
             boarded == thread'[i].board
  <2>1. Boardable(i, e, base, round) <=> /\ CanBoard(base[event.stop], event.departure)
                                         /\ RidesOf(base[event.stop]) = round
    BY DEF Boardable, event
  <2>2. boarded = IF takes THEN BoardedAt(i, e) ELSE board
    BY <1>3 DEF Boarded, BoardedAt, event
  <2>3. /\ board = NoBoard \/ \E a \in 1..(e - 1) : Boardable(i, a, base, round) /\ board = BoardedAt(i, a)
        /\ \A a \in 1..(e - 1) : Boardable(i, a, base, round) =>
              board # NoBoard /\ board.departure <= Timetable[i][a].departure
    BY <1>1 DEF TripKernel, BoardIsEarliest, e, board
  <2>4. \A a \in 1..e : Timetable[i][a].departure \in Nat
    <3>1. Len(Timetable[i]) \in Nat /\ \A a \in 1..Len(Timetable[i]) : Timetable[i][a].departure \in Nat
      BY <1>1, TripEvents
    <3> QED
      BY <1>2, <3>1
  <2>5. /\ BoardedAt(i, e) # NoBoard /\ BoardedAt(i, e).departure = Timetable[i][e].departure
        /\ Timetable[i][e].departure = event.departure
    <3>1. BoardedAt(i, e).rides = round + 1 /\ NoBoard.rides = 0 /\ round + 1 # 0
      BY <1>1 DEF BoardedAt, NoBoard, Types
    <3> QED
      BY <3>1 DEF BoardedAt, event
  <2>6. e \in 1..e /\ 1..e = (1..(e - 1)) \cup {e}
    BY <1>2
  <2> HIDE DEF boarded
  <2>7. boarded = NoBoard \/ \E a \in 1..e : Boardable(i, a, base, round) /\ boarded = BoardedAt(i, a)
    BY <2>1, <2>2, <2>3, <2>6
  <2>8. ASSUME NEW a \in 1..e, Boardable(i, a, base, round)
        PROVE  boarded # NoBoard /\ boarded.departure <= Timetable[i][a].departure
    <3>1. CASE takes
      <4>1. boarded = BoardedAt(i, e)
        BY <2>2, <3>1
      <4>2. CASE a = e
        BY <2>4, <2>5, <4>1, <4>2
      <4>3. CASE a \in 1..(e - 1)
        BY <1>2, <1>4, <2>3, <2>4, <2>5, <2>8, <3>1, <4>1, <4>3
      <4> QED
        BY <2>6, <4>2, <4>3
    <3>2. CASE ~takes
      <4>1. boarded = board
        BY <2>2, <3>2
      <4>2. CASE a = e
        BY <1>2, <1>4, <2>1, <2>5, <2>8, <3>2, <4>1, <4>2
      <4>3. CASE a \in 1..(e - 1)
        BY <2>3, <2>8, <4>1, <4>3
      <4> QED
        BY <2>6, <4>2, <4>3
    <3> QED
      BY <3>1, <3>2
  <2>9. 1..(thread'[i].event - 1) = 1..e
    BY <1>2, <1>3
  <2> QED
    BY <1>1, <1>5, <2>7, <2>8, <2>9, SameOperators DEF BoardIsEarliest, BoardedAt, boarded
<1>13. ASSUME NEW j \in trips, j # i
       PROVE  BoardIsEarliest(j)'
  <2>1. BoardIsEarliest(j) /\ thread'[j] = thread[j]
    BY <1>1, <1>3, <1>13 DEF TripKernel
  <2> QED
    BY <1>1, <1>5, <2>1, SameOperators DEF BoardIsEarliest, BoardedAt
<1>14. ASSUME NEW j \in trips
       PROVE  /\ DOMAIN thread'[j] = {"event", "board", "task"}
              /\ thread'[j].event \in 1..(Len(Timetable[j]) + 1)
              /\ \A b \in 1..(thread'[j].event - 1) : RideTo(j, b, base, round) =>
                    state'[Timetable[j][b].stop] <= Packed(Timetable[j][b].arrival, round + 1)
  <2>1. CASE j # i
    BY <1>1, <1>3, <1>11, <2>1 DEF TripKernel
  <2>2. CASE j = i
    <3>1. Len(Timetable[i]) \in Nat
      BY <1>1, TripEvents
    <3>2. thread'[i].event = e + 1 /\ e + 1 \in 1..(Len(Timetable[i]) + 1) /\ e + 1 - 1 = e
      BY <1>2, <1>3, <3>1
    <3>3. ASSUME NEW b \in 1..e, RideTo(i, b, base, round)
          PROVE  state'[Timetable[i][b].stop] <= Packed(Timetable[i][b].arrival, round + 1)
      <4>1. CASE b = e
        BY <1>7, <1>8, <3>3, <4>1 DEF event
      <4>2. CASE b # e
        <5>1. b \in 1..(thread[i].event - 1)
          BY <1>2, <4>2 DEF e
        <5> QED
          BY <1>11, <3>3, <5>1
      <4> QED
        BY <4>1, <4>2
    <3>4. ASSUME NEW b \in 1..(thread'[i].event - 1), RideTo(i, b, base, round)
          PROVE  state'[Timetable[i][b].stop] <= Packed(Timetable[i][b].arrival, round + 1)
      <4>1. thread'[i].event - 1 = e
        <5>1. thread'[i].event = e + 1 /\ e \in Int
          BY <1>2, <3>1, <3>2
        <5> QED
          BY ONLY <5>1, SMT
      <4>2. b \in 1..e
        BY <4>1, Zenon
      <4> QED
        BY <3>3, <3>4, <4>2, Zenon
    <3> QED
      BY <1>3, <2>2, <3>2, <3>4
  <2> QED
    BY <2>1, <2>2
<1>15. TripKernel'
  <2>1. base' = After'[round']
    BY <1>1, <1>6 DEF TripKernel
  <2>2. \A j \in trips' : BoardIsEarliest(j)'
    BY <1>1, <1>12, <1>13
  <2>3. \A j \in trips' : \A b \in 1..(thread'[j].event - 1) : RideTo(j, b, base, round)' =>
           state'[Timetable'[j][b].stop] <= Packed(Timetable'[j][b].arrival, round' + 1)
    BY <1>1, <1>5, <1>14, SameOperators
  <2>4. \A j \in trips' : /\ DOMAIN thread'[j] = {"event", "board", "task"}
                          /\ thread'[j].event \in 1..(Len(Timetable'[j]) + 1)
    BY <1>1, <1>5, <1>14
  <2> QED
    BY <1>1, <1>3, <1>10, <2>1, <2>2, <2>3, <2>4 DEF TripKernel
<1> QED
  BY <1>1, <1>9, <1>15 DEF LabelInv

\* A walk of the transfer kernel lowers the label of a stop to what is found.
LEMMA WalkOnKeeps ==
    ASSUME LabelInv, NEW s \in Stops, NEW t \in Stops, WalkOn(s, t)
    PROVE  LabelInv'
<1> DEFINE walks == Arrival(base[s]) # Inf /\ RidesOf(base[s]) < MaxRounds
           candidate == Packed(Arrival(base[s]) + Walk[<<s, t>>], RidesOf(base[s]))
<1>1. /\ kernel = "transfers" /\ TransferKernel /\ Types
      /\ t \in thread[s].left /\ DOMAIN thread = Stops
      /\ UNCHANGED <<query, trips, round, kernel, base>>
  BY DEF WalkOn, LabelInv, TransferKernel
<1>2. /\ state' = IF walks THEN [state EXCEPT ![t] = Lowered(@, candidate)] ELSE state
      /\ thread'[s].left = thread[s].left \ {t}
      /\ DOMAIN thread'[s] = {"left", "task"}
      /\ DOMAIN thread' = Stops /\ \A u \in Stops \ {s} : thread'[u] = thread[u]
  BY <1>1 DEF WalkOn
<1>3. Again
  BY <1>1 DEF Again
<1>4. After' = After
  BY <1>3, SameReference
<1>5. state \in [Stops -> Nat] /\ base \in [Stops -> Nat]
  BY <1>1 DEF Types, Labels
<1>6. t \in WalkTargets(s)
  BY <1>1 DEF TransferKernel
<1>7. candidate \in Nat
  <2>1. Walk[<<s, t>>] \in Nat
    BY <1>6, Walks
  <2>2. Arrival(base[s]) \in Nat /\ RidesOf(base[s]) \in 0..255
    BY <1>5, LabelParts
  <2>3. Arrival(base[s]) + Walk[<<s, t>>] \in Nat
    BY <2>1, <2>2
  <2> QED
    BY <2>2, <2>3, PackedParts
<1>8. ASSUME walks PROVE <<t, candidate>> \in AllWalks(base)
  <2>1. <<t, candidate>> \in WalksFrom(s, base)
    <3>1. ~(RidesOf(base[s]) >= MaxRounds)
      <4>1. RidesOf(base[s]) \in 0..255 /\ MaxRounds \in Nat
        BY <1>5, LabelParts, TransitPackAssumption
      <4> QED
        BY <1>8, <4>1
    <3> QED
      BY <1>6, <1>8, <3>1 DEF WalksFrom
  <2> QED
    BY <2>1 DEF AllWalks
<1>9. ASSUME ~walks PROVE WalksFrom(s, base) = {}
  <2>1. RidesOf(base[s]) \in 0..255 /\ MaxRounds \in Nat
    BY <1>5, LabelParts, TransitPackAssumption
  <2> QED
    BY <1>9, <2>1 DEF WalksFrom
<1>10. ASSUME NEW c \in WalksFrom(s, base), c[1] = t
       PROVE  c[2] = candidate
  <2>1. PICK u \in WalkTargets(s) : c = <<u, Packed(Arrival(base[s]) + Walk[<<s, u>>], RidesOf(base[s]))>>
    BY DEF WalksFrom
  <2>2. u = t
    BY <1>10, <2>1
  <2> QED
    BY <2>1, <2>2
<1> HIDE DEF walks, candidate
<1>11. /\ state' \in Labels
       /\ \A u \in Stops : /\ state'[u] <= state[u]
                           /\ state'[u] = state[u] \/ <<u, state'[u]>> \in AllWalks(base)
       /\ walks => state'[t] <= candidate
  <2>1. CASE walks
    <3>1. state' = [state EXCEPT ![t] = Lowered(@, candidate)]
      BY <1>2, <2>1
    <3>2. /\ Lowered(state[t], candidate) \in {state[t], candidate}
          /\ Lowered(state[t], candidate) <= state[t]
          /\ Lowered(state[t], candidate) <= candidate
          /\ state[t] \in Nat /\ candidate \in Nat
      BY <1>5, <1>7, LoweredLabel
    <3>3. state' \in [Stops -> Nat]
      BY <1>5, <3>1, <3>2
    <3>4. state'[t] = Lowered(state[t], candidate)
      BY <1>5, <3>1
    <3>5. ASSUME NEW u \in Stops
          PROVE  /\ state'[u] <= state[u]
                 /\ state'[u] = state[u] \/ <<u, state'[u]>> \in AllWalks(base)
      <4>1. CASE u = t
        BY <1>8, <2>1, <3>2, <3>4, <4>1
      <4>2. CASE u # t
        BY <1>5, <3>1, <4>2
      <4> QED
        BY <4>1, <4>2
    <3> QED
      BY <3>2, <3>3, <3>4, <3>5 DEF Labels
  <2>2. CASE ~walks
    BY <1>2, <1>5, <2>2 DEF Labels
  <2> QED
    BY <2>1, <2>2
<1>12. Types'
  BY <1>1, <1>11 DEF Types, Labels
<1>13. LoweredTo(AllWalks(base))'
  <2>1. AllWalks(base)' = AllWalks(base)
    BY <1>1 DEF AllWalks, WalksFrom
  <2>2. ASSUME NEW u \in Stops
        PROVE  /\ state'[u] <= base[u]
               /\ state'[u] = base[u] \/ <<u, state'[u]>> \in AllWalks(base)
    <3>1. state'[u] \in Nat /\ state[u] \in Nat /\ base[u] \in Nat
      BY <1>5, <1>11 DEF Labels
    <3>2. state[u] <= base[u] /\ (state[u] = base[u] \/ <<u, state[u]>> \in AllWalks(base))
      BY <1>1 DEF TransferKernel, LoweredTo
    <3>3. state'[u] <= state[u] /\ (state'[u] = state[u] \/ <<u, state'[u]>> \in AllWalks(base))
      BY <1>11
    <3>4. state'[u] <= base[u]
      BY <3>1, <3>2, <3>3
    <3> QED
      BY <3>2, <3>3, <3>4
  <2> QED
    BY <1>1, <2>1, <2>2 DEF LoweredTo
<1>14. ASSUME NEW u \in Stops, NEW c \in WalksFrom(u, base), c[1] \notin thread'[u].left
       PROVE  state'[c[1]] <= c[2]
  <2>1. c[1] \in Stops /\ c[2] \in Nat
    BY <1>5, <1>14, WalksAreFinds DEF AllWalks, Finds, Labels
  <2>2. CASE u = s /\ c[1] = t
    <3>1. walks /\ c[2] = candidate
      BY <1>9, <1>10, <1>14, <2>2
    <3> QED
      BY <1>11, <2>2, <3>1
  <2>3. CASE ~(u = s /\ c[1] = t)
    <3>1. c[1] \notin thread[u].left
      BY <1>2, <1>14, <2>3
    <3>2. state[c[1]] <= c[2]
      BY <1>1, <3>1 DEF TransferKernel
    <3>3. state'[c[1]] <= state[c[1]] /\ state'[c[1]] \in Nat /\ state[c[1]] \in Nat
      BY <1>5, <1>11, <2>1 DEF Labels
    <3> QED
      BY <2>1, <3>2, <3>3
  <2> QED
    BY <2>2, <2>3
<1>15. TransferKernel'
  <2>1. base' = Ridden(After[round], round)'
    BY <1>1, <1>3, <1>4, SameOperators DEF TransferKernel
  <2>2. ASSUME NEW u \in Stops
        PROVE  /\ DOMAIN thread'[u] = {"left", "task"}
               /\ thread'[u].left \subseteq WalkTargets(u)
    BY <1>1, <1>2 DEF TransferKernel
  <2>3. ASSUME NEW u \in Stops, NEW c \in WalksFrom(u, base)', c[1] \notin thread'[u].left
        PROVE  state'[c[1]] <= c[2]
    <3>1. c \in WalksFrom(u, base)
      BY <1>1 DEF WalksFrom
    <3> QED
      BY <1>14, <2>3, <3>1
  <2> QED
    BY <1>2, <1>13, <2>1, <2>2, <2>3 DEF TransferKernel
<1> QED
  BY <1>1, <1>12, <1>15 DEF LabelInv

-----------------------------------------------------------------------------
(***************************************************************************)
(* Between the kernels: all threads are done, so the labels are the least. *)
(***************************************************************************)
LEMMA TripsDoneKeeps ==
    ASSUME LabelInv, TripsDone
    PROVE  LabelInv'
<1>1. /\ kernel = "trips" /\ TripKernel /\ Types /\ Asked
      /\ \A i \in trips : thread[i].event > Len(Timetable[i])
      /\ kernel' = "transfers" /\ base' = state /\ thread' = [s \in Stops |-> Walker(s)]
      /\ UNCHANGED <<query, trips, round, state>>
  BY DEF TripsDone, LabelInv, Types, Asked
<1>2. Again
  BY <1>1 DEF Again
<1>3. After' = After
  BY <1>2, SameReference
<1>4. ASSUME NEW c \in AllRides(base, round)
      PROVE  state[c[1]] <= c[2]
  <2>1. PICK i \in trips : c \in RidesFrom(i, base, round)
    BY DEF AllRides
  <2>2. PICK b \in DOMAIN Timetable[i] :
           RideTo(i, b, base, round) /\ c = <<Timetable[i][b].stop, Packed(Timetable[i][b].arrival, round + 1)>>
    BY <2>1 DEF RidesFrom
  <2>3. b \in 1..(thread[i].event - 1)
    <3>1. Len(Timetable[i]) \in Nat /\ b \in 1..Len(Timetable[i])
      BY <1>1, <2>2, TripEvents
    <3>2. thread[i].event \in 1..(Len(Timetable[i]) + 1) /\ thread[i].event > Len(Timetable[i])
      BY <1>1 DEF TripKernel
    <3> QED
      BY <3>1, <3>2
  <2>4. state[Timetable[i][b].stop] <= Packed(Timetable[i][b].arrival, round + 1)
    BY <1>1, <2>2, <2>3 DEF TripKernel
  <2> QED
    BY <2>2, <2>4
<1>5. state = Ridden(base, round)
  <2>1. state \in Labels /\ base \in Labels /\ AllRides(base, round) \in SUBSET Finds
    BY <1>1, RidesAreFinds DEF Types
  <2>2. \A s \in Stops : /\ state[s] <= base[s]
                         /\ state[s] = base[s] \/ <<s, state[s]>> \in AllRides(base, round)
    BY <1>1 DEF TripKernel, LoweredTo
  <2>3. state = Least(base, AllRides(base, round))
    BY <1>4, <2>1, <2>2, LeastIsUnique
  <2> QED
    BY <2>3 DEF Ridden, AllRides
<1>6. base' = Ridden(After[round], round)'
  BY <1>1, <1>2, <1>3, <1>5, SameOperators DEF TripKernel
<1>7. ASSUME NEW s \in Stops
      PROVE  /\ DOMAIN thread'[s] = {"left", "task"}
             /\ thread'[s].left = WalkTargets(s)
             /\ \A c \in WalksFrom(s, base') : c[1] \in WalkTargets(s)
  <2>1. thread'[s] = [left |-> WalkTargets(s), task |-> NoTask]
    BY <1>1 DEF Walker
  <2>2. ASSUME NEW c \in WalksFrom(s, base') PROVE c[1] \in WalkTargets(s)
    <3>1. PICK t \in WalkTargets(s) :
             c = <<t, Packed(Arrival(base'[s]) + Walk[<<s, t>>], RidesOf(base'[s]))>>
      BY DEF WalksFrom
    <3> QED
      BY <3>1
  <2> QED
    BY <2>1, <2>2
<1>8. LoweredTo(AllWalks(base))'
  BY <1>1 DEF Types, Labels, LoweredTo
<1>9. \A s \in Stops : \A c \in WalksFrom(s, base)' : c[1] \notin thread'[s].left => state'[c[1]] <= c[2]
  BY <1>7 DEF WalksFrom
<1>10. TransferKernel'
  BY <1>1, <1>6, <1>7, <1>8, <1>9 DEF TransferKernel
<1>11. Types'
  BY <1>1 DEF Types
<1> QED
  BY <1>1, <1>10, <1>11 DEF LabelInv

LEMMA RoundDoneKeeps ==
    ASSUME LabelInv, RoundDone
    PROVE  LabelInv'
<1>1. /\ kernel = "transfers" /\ TransferKernel /\ Types /\ Asked
      /\ \A s \in Stops : thread[s].left = {}
      /\ UNCHANGED <<query, trips>>
  BY DEF RoundDone, LabelInv, Types, Asked
<1>2. Again /\ Asked'
  BY <1>1 DEF Again, Asked
<1>3. After' = After
  BY <1>2, SameReference
<1>4. /\ round \in 0..(MaxRounds - 1) /\ round + 1 \in 1..MaxRounds /\ round + 1 - 1 = round
      /\ 0 \in 0..(MaxRounds - 1) /\ MaxRounds \in Nat
  BY <1>1, TransitPackAssumption DEF Types
<1>5. state \in Labels /\ base \in Labels
  BY <1>1 DEF Types
<1>6. state = Walked(base)
  <2>1. \A c \in AllWalks(base) : state[c[1]] <= c[2]
    BY <1>1 DEF AllWalks, TransferKernel
  <2>2. \A s \in Stops : /\ state[s] <= base[s]
                         /\ state[s] = base[s] \/ <<s, state[s]>> \in AllWalks(base)
    BY <1>1 DEF TransferKernel, LoweredTo
  <2>3. state = Least(base, AllWalks(base))
    BY <1>5, <2>1, <2>2, WalksAreFinds, LeastIsUnique
  <2> QED
    BY <2>3 DEF Walked, AllWalks
<1>7. state = After[round + 1]
  <2>0. round + 1 \in 1..MaxRounds /\ (round + 1) - 1 = round
    BY <1>4
  <2>1. After[round + 1] = Walked(Ridden(After[round], round))
    <3>1. After[round + 1] = Walked(Ridden(After[(round + 1) - 1], (round + 1) - 1))
      BY <2>0, AfterRounds, Zenon DEF AfterEquations
    <3> QED
      BY <2>0, <3>1, Zenon
  <2>2. base = Ridden(After[round], round)
    BY <1>1 DEF TransferKernel
  <2> QED
    BY <1>6, <2>1, <2>2
<1>8. CASE round + 1 < MaxRounds
  <2>1. /\ round' = round + 1 /\ kernel' = "trips" /\ base' = state /\ state' = state
        /\ thread' = [i \in trips |-> Rider]
    BY <1>8 DEF RoundDone
  <2>2. Types'
    BY <1>1, <1>4, <1>8, <2>1 DEF Types
  <2>3. base' \in Labels /\ base' = After'[round'] /\ state' = base' /\ thread' = [i \in trips' |-> Rider']
    BY <1>1, <1>3, <1>5, <1>7, <2>1 DEF Rider, NoBoard, NoTask
  <2>4. TripKernel'
    <3>1. RoundBegins'
      BY <1>2, <2>3 DEF RoundBegins, Labels
    <3> QED
      BY <3>1, RoundStarts, PTL
  <2> QED
    BY <2>1, <2>2, <2>4 DEF LabelInv
<1>9. CASE ~(round + 1 < MaxRounds) /\ iteration < Iterations
  <2>1. /\ round' = 0 /\ kernel' = "trips" /\ base' = OriginState /\ state' = OriginState
        /\ thread' = [i \in trips |-> Rider]
    BY <1>9 DEF RoundDone
  <2>2. Types'
    BY <1>1, <1>4, <2>1, OriginLabels DEF Types, Labels
  <2>3. base' \in Labels /\ base' = After'[round'] /\ state' = base' /\ thread' = [i \in trips' |-> Rider']
    BY <1>1, <1>3, <2>1, OriginLabels, AfterRounds DEF Rider, NoBoard, NoTask, AfterEquations
  <2>4. TripKernel'
    <3>1. RoundBegins'
      BY <1>2, <2>3 DEF RoundBegins, Labels
    <3> QED
      BY <3>1, RoundStarts, PTL
  <2> QED
    BY <2>1, <2>2, <2>4 DEF LabelInv
<1>10. CASE ~(round + 1 < MaxRounds) /\ ~(iteration < Iterations)
  <2>1. kernel' = "none" /\ thread' = <<>> /\ UNCHANGED <<round, base, state>>
    BY <1>10 DEF RoundDone
  <2>2. round + 1 = MaxRounds
    BY <1>4, <1>10
  <2>3. Types'
    BY <1>1, <2>1 DEF Types
  <2> QED
    BY <1>3, <1>7, <2>1, <2>2, <2>3 DEF LabelInv
<1> QED
  BY <1>8, <1>9, <1>10

-----------------------------------------------------------------------------
(***************************************************************************)
(* The theorems.                                                           *)
(***************************************************************************)
\* The labels are, all through a kernel, those the round began with, lowered by
\* what its threads have passed; and at its end those of the reference.
THEOREM LabelInvariant == GpuSpec => []LabelInv
<1>1. GpuInit => LabelInv
  <2> SUFFICES ASSUME GpuInit PROVE LabelInv
    OBVIOUS
  <2>1. /\ Asked /\ round = 0 /\ kernel = "trips" /\ base = OriginState /\ state = base
        /\ thread = [i \in trips |-> Rider]
    BY DEF GpuInit, Asked
  <2>2. base \in Labels /\ base = After[round]
    BY <2>1, OriginLabels, AfterRounds DEF AfterEquations
  <2>3. Types
    BY <2>1, <2>2, TransitPackAssumption DEF Types, Asked
  <2>4. TripKernel
    BY <2>1, <2>2, RoundStarts DEF RoundBegins
  <2> QED
    BY <2>1, <2>3, <2>4 DEF LabelInv
<1>2. LabelInv /\ [GpuNext]_gpuVars => LabelInv'
  <2> SUFFICES ASSUME LabelInv, [GpuNext]_gpuVars PROVE LabelInv'
    OBVIOUS
  <2>1. ASSUME NEW i \in DOMAIN thread, Confirm(i) PROVE LabelInv'
    BY <2>1, PredecessorsKeepLabels DEF Confirm
  <2>2. ASSUME NEW i \in DOMAIN thread, StoreField(i) PROVE LabelInv'
    BY <2>2, PredecessorsKeepLabels DEF StoreField
  <2>3. ASSUME NEW i \in trips, RideOn(i) PROVE LabelInv'
    BY <2>3, RidesOnKeeps
  <2>4. ASSUME NEW s \in Stops, NEW t \in Stops, WalkOn(s, t) PROVE LabelInv'
    BY <2>4, WalkOnKeeps
  <2>5. CASE TripsDone
    BY <2>5, TripsDoneKeeps
  <2>6. CASE RoundDone
    BY <2>6, RoundDoneKeeps
  <2>7. CASE Report
    <3>1. kernel = "none" /\ kernel' = "reported" /\ UNCHANGED <<query, trips, round, base, state, thread>>
      BY <2>7 DEF Report
    <3>2. After' = After
      BY <3>1, SameReference DEF Again
    <3>3. Types'
      BY <3>1 DEF LabelInv, Types
    <3> QED
      BY <3>1, <3>2, <3>3 DEF LabelInv
  <2>8. CASE UNCHANGED gpuVars
    <3>1. /\ UNCHANGED <<query, trips, round, kernel, base, state, thread>> /\ Timetable' = Timetable
          /\ After' = After
      BY <2>8, SameReference DEF gpuVars, Again, Timetable
    <3>2. Types' <=> Types
      BY <3>1 DEF Types, Labels
    <3>3. \A found : LoweredTo(found)' <=> LoweredTo(found)
      BY <3>1 DEF LoweredTo
    <3>4. TripKernel' <=> TripKernel
      BY <3>1, <3>3 DEF TripKernel, BoardIsEarliest, Boardable, BoardedAt, RideTo, AllRides, RidesFrom
    <3>5. TransferKernel' <=> TransferKernel
      <4>1. Ridden(After[round], round)' = Ridden(After[round], round)
        BY <3>1, SameOperators DEF Again
      <4>2. AllWalks(base)' = AllWalks(base)
        BY <3>1 DEF AllWalks, WalksFrom
      <4>3. LoweredTo(AllWalks(base))' <=> LoweredTo(AllWalks(base))
        BY <3>1, <4>2 DEF LoweredTo
      <4>4. \A s : WalksFrom(s, base)' = WalksFrom(s, base)
        BY <3>1 DEF WalksFrom
      <4> QED
        BY <3>1, <4>1, <4>3, <4>4 DEF TransferKernel
    <3> QED
      BY <3>1, <3>2, <3>4, <3>5 DEF LabelInv
  <2> QED
    BY <2>1, <2>2, <2>3, <2>4, <2>5, <2>6, <2>7, <2>8 DEF GpuNext, Done
<1> QED
  BY <1>1, <1>2, PTL DEF GpuSpec

\* ScheduleFree, for every query, pack and interleaving of the kernels' threads:
\* the labels that run_route_query reports are the least that the rounds can
\* give.  In particular no ride is missed because a rider keeps the one boarding
\* that departs first, and no iteration is left with labels of the one before.
THEOREM ScheduleDoesNotMatter == GpuSpec => []ScheduleFree
<1>1. LabelInv => ScheduleFree
  BY DEF LabelInv, ScheduleFree
<1> QED
  BY <1>1, LabelInvariant, PTL

\* LabelsAreReal, for every query and pack: to every stop that has an arrival
\* there is a journey from the origin that arrives then, with the rides the label
\* says.
THEOREM EveryLabelIsReal == GpuSpec => []LabelsAreReal
<1>1. LabelInv => LabelsAreReal
  <2> SUFFICES ASSUME LabelInv, kernel = "reported", NEW s \in Stops, Arrival(state[s]) # Inf
               PROVE  Known(s, Arrival(state[s]), RidesOf(state[s])) \in Journeyed[2 * MaxRounds]
    BY DEF LabelsAreReal
  <2>1. Asked /\ state = After[MaxRounds]
    BY DEF LabelInv, Types, Asked
  <2> QED
    BY <2>1, ReferenceIsReal DEF Real
<1> QED
  BY <1>1, LabelInvariant, PTL

=============================================================================
