----------------------------- MODULE ThreadTest -----------------------------
(***************************************************************************)
(* platform_thread_start and platform_thread_join of                       *)
(* src/src/platform/linux/thread.c, used as src/src/tools/test_thread.c    *)
(* does: main starts the workers one after the other, each of them         *)
(* increments a shared counter under the futex mutex, main joins them and  *)
(* checks their results and the counter.                                   *)
(*                                                                         *)
(* The kernel has three parts in it: clone stores the tid of the new       *)
(* thread in clear_tid before the thread runs, the exit of a thread stores *)
(* 0 there, and then wakes who sleeps on it.                               *)
(***************************************************************************)
EXTENDS FutexMutex, FiniteSets

CONSTANTS WorkerIterations,  \* increments of every worker
          Faults             \* what may fail: "stack" (mmap), "clone"

Count == Cardinality(Threads)

ASSUME ThreadTestAssumption ==
    /\ IsFiniteSet(Threads) /\ Threads # {} /\ Threads = 1..Count
    /\ WorkerIterations \in Nat \ {0}
    /\ Faults \subseteq {"stack", "clone"}

VARIABLES
    place,          \* where each worker thread is
    iterationIndex, \* of each worker
    seen,           \* what a worker has read of the counter
    counter,
    clearTid,       \* thread->clear_tid: its tid, or 0
    mapped,         \* whether the stack of a thread is mapped
    stackSize,      \* thread->stack_size
    returned,       \* LinuxThreadStart.result, at the bottom of the stack
    mainPc, current, value

workerVars == <<place, iterationIndex, seen, counter>>
threadVars == <<clearTid, mapped, stackSize, returned>>
mainVars == <<mainPc, current, value>>
vars == <<mutexVars, workerVars, threadVars, mainVars>>

(***************************************************************************)
(* A worker: "none" not started, "loop" before or in the lock, "read"      *)
(* counter read, "written" counter written, "returning" result stored,     *)
(* "exiting" in the exit call, "cleared" its tid is 0, "gone".             *)
(* main: "start" mapping a stack, "clone", "load" reading clear_tid,       *)
(* "wait" about to sleep on it, "asleep", "collect" taking the result,     *)
(* "check" comparing the counter, "passed", "failed" (could not start a    *)
(* thread), "mismatch" (a result or the counter is wrong).                 *)
(***************************************************************************)
WorkerPlaces == {"none", "loop", "read", "written", "returning", "exiting", "cleared", "gone"}
MainPlaces == {"start", "clone", "load", "wait", "asleep", "collect", "check",
               "passed", "failed", "mismatch"}

PageSize == 4096
DefaultStackSize == 512 * 1024
RecordSize == 24

\* The stack a start asks for: rounded up to pages, never less than two.
StackSize(requested) ==
    LET size == IF requested = 0 THEN DefaultStackSize ELSE requested
        aligned(n) == ((n + PageSize - 1) \div PageSize) * PageSize
    IN  IF aligned(size) < RecordSize + PageSize
        THEN aligned(RecordSize + PageSize)
        ELSE aligned(size)

\* What threadtest_worker_main returns.
Result(t) == (t - 1) + WorkerIterations

Init ==
    /\ MutexInit
    /\ place = [t \in Threads |-> "none"]
    /\ iterationIndex = [t \in Threads |-> 0]
    /\ seen = [t \in Threads |-> 0]
    /\ counter = 0
    /\ clearTid = [t \in Threads |-> 0]
    /\ mapped = [t \in Threads |-> FALSE]
    /\ stackSize = [t \in Threads |-> 0]
    /\ returned = [t \in Threads |-> 0]
    /\ mainPc = "start"
    /\ current = 1
    /\ value = 0

-----------------------------------------------------------------------------
(***************************************************************************)
(* main.                                                                   *)
(***************************************************************************)
MainAt(pc) == mainPc = pc
MainGoes(pc) == mainPc' = pc

\* The stack and the start record at its bottom.
MapStack ==
    /\ MainAt("start")
    /\ current \in Threads
    /\ \/ /\ mapped' = [mapped EXCEPT ![current] = TRUE]
          /\ stackSize' = [stackSize EXCEPT ![current] = StackSize(0)]
          /\ returned' = [returned EXCEPT ![current] = 0]
          /\ clearTid' = [clearTid EXCEPT ![current] = 0]
          /\ MainGoes("clone")
       \/ /\ "stack" \in Faults
          /\ MainGoes("failed")
          /\ UNCHANGED threadVars
    /\ UNCHANGED <<mutexVars, workerVars, current, value>>

\* The tid is in clear_tid (CLONE_PARENT_SETTID) before the thread runs.
Clone ==
    /\ MainAt("clone")
    /\ \/ /\ clearTid' = [clearTid EXCEPT ![current] = current]
          /\ place' = [place EXCEPT ![current] = "loop"]
          /\ current' = current + 1
          /\ MainGoes("start")
          /\ UNCHANGED <<mapped, stackSize>>
       \/ /\ "clone" \in Faults
          /\ mapped' = [mapped EXCEPT ![current] = FALSE]
          /\ stackSize' = [stackSize EXCEPT ![current] = 0]
          /\ clearTid' = [clearTid EXCEPT ![current] = 0]
          /\ MainGoes("failed")
          /\ UNCHANGED <<place, current>>
    /\ UNCHANGED <<mutexVars, iterationIndex, seen, counter, returned, value>>

AllStarted ==
    /\ MainAt("start")
    /\ current = Count + 1
    /\ current' = 1
    /\ MainGoes("load")
    /\ UNCHANGED <<mutexVars, workerVars, threadVars, value>>

JoinLoad ==
    /\ MainAt("load")
    /\ value' = clearTid[current]
    /\ MainGoes(IF clearTid[current] = 0 THEN "collect" ELSE "wait")
    /\ UNCHANGED <<mutexVars, workerVars, threadVars, current>>

\* futex_wait(clear_tid, value), which the kernel may refuse ...
JoinWait ==
    /\ MainAt("wait")
    /\ MainGoes(IF clearTid[current] = value THEN "asleep" ELSE "load")
    /\ UNCHANGED <<mutexVars, workerVars, threadVars, current, value>>

JoinTrustsWakeup ==
    /\ MainAt("asleep")
    /\ MainGoes("collect")
    /\ UNCHANGED <<mutexVars, workerVars, threadVars, current, value>>

\* ... or end for a signal: clear_tid is read again.
JoinInterrupted ==
    /\ MainAt("asleep")
    /\ MainGoes("load")
    /\ UNCHANGED <<mutexVars, workerVars, threadVars, current, value>>

CollectKeepsStack ==
    /\ MainAt("collect")
    /\ stackSize' = [stackSize EXCEPT ![current] = 0]
    /\ IF returned[current] # Result(current)
       THEN MainGoes("mismatch") /\ UNCHANGED current
       ELSE MainGoes(IF current = Count THEN "check" ELSE "load") /\ current' = current + 1
    /\ UNCHANGED <<mutexVars, workerVars, clearTid, mapped, returned, value>>

\* The result is read from the stack, then the stack is unmapped.
Collect ==
    /\ MainAt("collect")
    /\ mapped' = [mapped EXCEPT ![current] = FALSE]
    /\ stackSize' = [stackSize EXCEPT ![current] = 0]
    /\ IF returned[current] # Result(current)
       THEN MainGoes("mismatch") /\ UNCHANGED current
       ELSE MainGoes(IF current = Count THEN "check" ELSE "load") /\ current' = current + 1
    /\ UNCHANGED <<mutexVars, workerVars, clearTid, returned, value>>

CheckCounter ==
    /\ MainAt("check")
    /\ MainGoes(IF counter = Count * WorkerIterations THEN "passed" ELSE "mismatch")
    /\ UNCHANGED <<mutexVars, workerVars, threadVars, current, value>>

\* The end of main ends its thread only; the workers keep running.
MainStep == MapStack \/ Clone \/ AllStarted \/ JoinLoad \/ JoinWait \/ Collect \/ CheckCounter

-----------------------------------------------------------------------------
(***************************************************************************)
(* A worker and the kernel's part of its exit.                             *)
(***************************************************************************)
At(t, p) == place[t] = p
Goes(t, p) == place' = [place EXCEPT ![t] = p]

WorkerLock(t) ==
    /\ At(t, "loop")
    /\ iterationIndex[t] < WorkerIterations
    /\ LockCas(t)
    /\ UNCHANGED <<workerVars, threadVars, mainVars>>

\* What the mutex does with the thread until it holds it, or after it gave it up.
WorkerInMutex(t) ==
    /\ LockStep(t) \/ UnlockStep(t)
    /\ UNCHANGED <<workerVars, threadVars, mainVars>>

WorkerInterrupted(t) ==
    /\ Interrupted(t)
    /\ UNCHANGED <<workerVars, threadVars, mainVars>>

\* *worker->counter += 1 is a read ...
WorkerRead(t) ==
    /\ At(t, "loop") /\ mpc[t] = "cs"
    /\ seen' = [seen EXCEPT ![t] = counter]
    /\ Goes(t, "read")
    /\ UNCHANGED <<mutexVars, iterationIndex, counter, threadVars, mainVars>>

\* ... and a write.
WorkerWrite(t) ==
    /\ At(t, "read")
    /\ counter' = seen[t] + 1
    /\ Goes(t, "written")
    /\ UNCHANGED <<mutexVars, iterationIndex, seen, threadVars, mainVars>>

WorkerUnlock(t) ==
    /\ At(t, "written")
    /\ UnlockSub(t)
    /\ iterationIndex' = [iterationIndex EXCEPT ![t] = @ + 1]
    /\ Goes(t, "loop")
    /\ UNCHANGED <<seen, counter, threadVars, mainVars>>

\* linux_thread_entry stores the result and returns, on its stack, to the stub.
WorkerReturn(t) ==
    /\ At(t, "loop") /\ mpc[t] = "out"
    /\ iterationIndex[t] = WorkerIterations
    /\ returned' = [returned EXCEPT ![t] = Result(t)]
    /\ Goes(t, "returning")
    /\ UNCHANGED <<mutexVars, iterationIndex, seen, counter, clearTid, mapped, stackSize, mainVars>>

WorkerExit(t) ==
    /\ At(t, "returning")
    /\ Goes(t, "exiting")
    /\ UNCHANGED <<mutexVars, iterationIndex, seen, counter, threadVars, mainVars>>

\* CLONE_CHILD_CLEARTID: the kernel stores 0 ...
KernelClears(t) ==
    /\ At(t, "exiting")
    /\ clearTid' = [clearTid EXCEPT ![t] = 0]
    /\ Goes(t, "cleared")
    /\ UNCHANGED <<mutexVars, iterationIndex, seen, counter, mapped, stackSize, returned, mainVars>>

\* ... and wakes who sleeps there.
KernelWakes(t) ==
    /\ At(t, "cleared")
    /\ Goes(t, "gone")
    /\ MainGoes(IF MainAt("asleep") /\ current = t THEN "load" ELSE mainPc)
    /\ UNCHANGED <<mutexVars, iterationIndex, seen, counter, threadVars, current, value>>

WorkerStep(t) ==
    \/ WorkerLock(t) \/ WorkerInMutex(t) \/ WorkerRead(t) \/ WorkerWrite(t) \/ WorkerUnlock(t)
    \/ WorkerReturn(t) \/ WorkerExit(t) \/ KernelClears(t) \/ KernelWakes(t)

AllEnded ==
    /\ mainPc \in {"passed", "failed", "mismatch"}
    /\ \A t \in Threads : place[t] \in {"none", "gone"}

Ended == AllEnded /\ UNCHANGED vars

Next ==
    \/ MainStep \/ JoinInterrupted
    \/ \E t \in Threads : WorkerStep(t) \/ WorkerInterrupted(t)
    \/ Ended

Spec == Init /\ [][Next]_vars

\* Every thread that can run does run; nobody counts on a signal.
FairSpec ==
    /\ Spec
    /\ WF_vars(MainStep)
    /\ \A t \in Threads : WF_vars(WorkerStep(t))

-----------------------------------------------------------------------------
(***************************************************************************)
(* A thread that runs user code runs on a mapped stack: join never unmaps  *)
(* it before the thread is inside its exit call for good, in spite of      *)
(* signals, refused waits and the kernel clearing the tid before it wakes. *)
(***************************************************************************)
RunsOnStack(t) == place[t] \in {"loop", "read", "written", "returning"}

StackOutlivesThread == \A t \in Threads : RunsOnStack(t) => mapped[t]

(***************************************************************************)
(* The join of a thread hands out its result, and after the last join the  *)
(* counter has every increment: the checks of test_thread.c never fail.    *)
(***************************************************************************)
TestPasses == mainPc # "mismatch"

(***************************************************************************)
(* Whether a stack or a thread could not be had or not, every thread that  *)
(* was started ends and main returns; no stack of a joined thread is left  *)
(* and none of a thread that could not be cloned.                          *)
(***************************************************************************)
EndsClean ==
    <>[](AllEnded /\ \A t \in Threads : mapped[t] => mainPc = "failed" /\ place[t] = "gone")

=============================================================================
