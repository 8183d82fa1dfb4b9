\* With three slots and two distinct values head and tail wrap, separately and
\* together, and the ring is filled and emptied at every position of its head.
CONSTANTS
    Value = {a, b}
    NULL = NULL
    Uninit = Uninit
    Capacity = 3
SPECIFICATION Spec
INVARIANTS
    RingInvariant
PROPERTIES
    ImplementsFifo
    ToArrayUnlessFullAndWrapped
