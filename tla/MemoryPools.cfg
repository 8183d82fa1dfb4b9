\* Slabs of two pages, and arrays that begin with room for two pointers, as eight
\* pages and eight pointers in the code.  A page is two bytes and a block asks for
\* none, a half of it, all of it, or more than a page has.
CONSTANTS
    NULL = NULL
    Uninit = Uninit
    DefaultSize = 2
    PagesPerSlab = 2
    PageBytes = 2
    Sizes = {0, 1, 2, 3}
    MaxSlabs = 2
SPECIFICATION Spec
CHECK_DEADLOCK FALSE
INVARIANTS
    MemoryAccounted
    SlabsFreedOnce
