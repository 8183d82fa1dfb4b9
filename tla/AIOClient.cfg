CONSTANTS
    File = {f}
    Page = {p}
    NULL = NULL
    MaxOperations = 3
    TicketSize = 2
    PageSize = 1
    FileSize <- MCFileSize
    MaxRequests = 5
    MaxOffset = 1
    Faults = {"timeout", "reorder"}
SPECIFICATION FairSpec
INVARIANTS
    RequestsAccounted
    TicketMatchesKernel
PROPERTIES
    QueuedIsServed
