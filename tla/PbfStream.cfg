\* The parallel stream: two workers, four slots, files of up to three
\* fileblocks, whether or not callbacks, threads, allocations or the file fail.
SPECIFICATION FairSpec
CONSTANTS
    WorkerCount = 2
    QueueMultiplier = 2
    MaxBlocks = 3
    Endings = {"decode", "blob", "parse"}
    Specials <- HeaderAndStop
    Files <- SmallFiles
    Faults = {"memory", "open", "thread", "init", "merge"}
CHECK_DEADLOCK FALSE
INVARIANTS
    StreamsEveryBlockOnce
    MergesAllOrNothing
    BuffersReleased
PROPERTY Terminates
