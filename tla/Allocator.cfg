\* Two threads over three pages; the two largest sizes cannot be mapped.
SPECIFICATION FairSpec
CONSTANTS
    Threads = {1, 2}
    Requests = {0, 2000, 5000, 16344, 16368}
    Bases = {4096, 8192, 12288}
    Top = 16384
    Limit = 16384
    MaxLive = 2
INVARIANTS
    HeapSound
    AllFreeAllWhole
PROPERTIES
    ImplementsHeap
    LockReturns
