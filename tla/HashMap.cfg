CONSTANTS
    Key = {1, 2, 3, 4}
    Value = {"x", "y"}
    Batches <- MCBatches
    NULL = NULL
    HashCode <- MCHashCode
    Capacities = {0, 1}
    Multiple = 1
SPECIFICATION Spec
INVARIANTS
    EntriesPlaced
    ChainsStayShort
PROPERTIES
    ImplementsMap
