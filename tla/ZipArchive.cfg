SPECIFICATION Spec
CONSTANTS
    Word = 65536
    LISTARRAY_DEFAULT_SIZE = 4
    SectorSize = 2
    PageSize = 4
    TicketBytes = 8
    EndSize = 1
    Timeouts = TRUE
    Inputs <- MCInputs
INVARIANTS
    NoFileIsWrong
    
CHECK_DEADLOCK FALSE
