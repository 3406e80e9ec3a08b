---------------------------- MODULE AbstractLock ----------------------------
(***************************************************************************)
(* What platform_mutex_lock / platform_mutex_unlock promise to the code    *)
(* that calls them (src/src/shared/platform.h): at most one thread is      *)
(* between a lock and the matching unlock, and only that thread unlocks.   *)
(***************************************************************************)
CONSTANTS Threads,   \* the threads that share the mutex
          Nobody     \* the owner of a mutex nobody holds

VARIABLE owner

Init == owner = Nobody

Acquire(t) == owner = Nobody /\ owner' = t

Release(t) == owner = t /\ owner' = Nobody

Next == \E t \in Threads : Acquire(t) \/ Release(t)

Spec == Init /\ [][Next]_owner
=============================================================================
