\* Safety and liveness of the semaphore: three posts and one initial
\* permit among three threads.
SPECIFICATION FairSemSpec
CONSTANTS
    Threads = {t1, t2, t3}
    Initial = 1
    MaxPosts = 3
INVARIANTS
    PermitsConserved
    NoStrandedPermit
PROPERTY PermitsMeetWaiters
