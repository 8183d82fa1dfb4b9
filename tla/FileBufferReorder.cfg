CONSTANTS
    File = {f}
    Page = {p1, p2}
    NULL = NULL
    MaxOperations = 2
    TicketSize = 2
    PageSize = 2
    FileSize <- MCFileSize
    MaxRequests = 2
    Faults = {"reorder"}
    Calls = {"readFileBufferList"}
    Offsets <- MCOffsets
    Lengths = {3}
    Lookups = "none"
    Word = 65536
SPECIFICATION Spec
INVARIANTS
    ContainsDataFindsIt
