------------------------------- MODULE Futex --------------------------------
(***************************************************************************)
(* What the mutex and the semaphore of src/src/platform/linux/thread.c     *)
(* share: the threads, and the queue that the kernel keeps of those that   *)
(* called linux_futex_wait on a word.                                      *)
(***************************************************************************)
CONSTANT Threads   \* the threads that share a lock or a semaphore

\* The queue of a word, given where each thread is in the calls on it.
Asleep(at) == {t \in Threads : at[t] = "asleep"}
=============================================================================
