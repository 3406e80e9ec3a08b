\* The walking graphs of three tiles, built by two threads, when the stream, an
\* allocation or a thread may fail.
SPECIFICATION FairSpec
CONSTANTS
    TileCount = 3
    ThreadCount = 2
    Maps <- SmallMaps
    Faults = {"read", "memory", "thread"}
CHECK_DEADLOCK FALSE
INVARIANTS
    BuildsWalkingGraph
    PoolsKept
    OneBuilder
    RangesFilled
    PayloadReadsBack
PROPERTY Terminates
