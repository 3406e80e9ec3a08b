\* The parallel summary: two workers, four slots, files of up to four
\* fileblocks, whether or not the threads start and the file opens. Memory does
\* not fail here: it would excuse every message about a Blob that does not
\* decode. Where it fails in the queue is checked with the stream.
SPECIFICATION FairSpec
CONSTANTS
    WorkerCount = 2
    QueueMultiplier = 2
    MaxBlocks = 4
    Endings = {"header", "blob", "parse"}
    Files <- SmallFiles
    Faults = {"open", "thread"}
CHECK_DEADLOCK FALSE
INVARIANTS
    PermitsBacked
    OneOwner
    AgreesWithSerial
    ErrorIsReal
PROPERTY Terminates
