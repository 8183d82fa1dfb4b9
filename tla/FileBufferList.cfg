CONSTANTS
    File = {f}
    Page = {p1, p2, p3}
    NULL = NULL
    MaxOperations = 2
    TicketSize = 2
    PageSize = 1
    FileSize <- MCShortFileSize
    MaxRequests = 2
    Faults = {"timeout", "reorder"}
    Calls = {"readFileBufferList"}
    Offsets <- MCShortOffsets
    Lengths = {1, 3}
    Lookups = "none"
    Word = 65536
SPECIFICATION FairSpec
INVARIANTS
    BuffersAccounted
    RemainingMatchesKernel
    BuffersHoldTheirBlocks
PROPERTIES
    EveryBlockIsDelivered
