SPECIFICATION MCSpec
CONSTANTS
    Good = 2
    BufLens = {1, 2}
    Tables <- MCTables
    None = None
    Index = 2
    MaxQueries = 2
    Capacity = 5
    BufLen = 4
    Outputs = {0, 2, 5, 8}
    Elements = {1, 2, 3}
    Batches <- MCBatches
    ListSizes = {1, 2, 4}
    Capacities = {3, 9}
    MaxListLength = 4
    Names = {1, 2, 3}
    Matching = {1, 2}
    Trees <- MCTrees
    Walks = {"find", "list", "list recursively"}
    DIRPATH_BUFFER_SIZE = 4
    MaxDepth = 3
    MaxChanges = 1
INVARIANTS
    FindsWhatTheDeviceHas
    OutputIsWhole
    KeepsItsElements
    FindsTheFiles
    PathIsRestored
    DevicesAreTheirOwn
    
    ReadsAndWritesAreWhole
PROPERTIES
    AnswersAreItsOwn
    QueryReturns
    BothComeToAnEnd
CHECK_DEADLOCK FALSE
