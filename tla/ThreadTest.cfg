\* Start and join of three workers that increment a counter twice under the
\* futex mutex.
SPECIFICATION FairSpec
CONSTANTS
    Threads = {1, 2, 3}
    Nobody = Nobody
    WorkerIterations = 2
    Faults = {"stack", "clone"}
INVARIANTS
    MutualExclusion
    NoLostWakeup
    StackOutlivesThread
    TestPasses
PROPERTIES
    ImplementsLock
    EndsClean
