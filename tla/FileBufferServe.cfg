CONSTANTS
    File = {f}
    Page = {p1, p2, p3}
    NULL = NULL
    MaxOperations = 2
    TicketSize = 2
    PageSize = 2
    FileSize <- MCFileSize
    MaxRequests = 2
    Faults = {}
    Calls = {"readFileBuffer", "readFileBufferList"}
    Offsets <- MCTailOffsets
    Lengths = {0, 2, 3}
    Lookups = "ascending"
    Word = 4
SYMMETRY Symmetry
SPECIFICATION Spec
INVARIANTS
    BuffersServeData
