----------------------------- MODULE MemoryPools -----------------------------
(***************************************************************************)
(* The three pools of memory/: the SlabPool allocates slabs, the PagePool  *)
(* cuts the slabs it acquires into pages, and the MemoryPool cuts the      *)
(* pages it acquires into blocks, which are never released.  A program     *)
(* acquires and releases at every level and at its end destroys the pools, *)
(* each before the one it took its memory from.                            *)
(*                                                                         *)
(* The code decides whether to populate a pool by a counter (numSlabsFree, *)
(* numPagesFree, numPageBytesFree) and takes the memory from a stack.      *)
(***************************************************************************)
EXTENDS Integers, Sequences, SequencesExt, FiniteSetsExt, StackArray

CONSTANTS
    PagesPerSlab,   \* 8 in the code
    PageBytes,      \* MEMORY_PAGE_SIZE, in the unit of Sizes
    Sizes,          \* the sizes of block the program asks for
    MaxSlabs        \* bound: how many slabs are ever allocated

ASSUME PoolsAssumption ==
    /\ PagesPerSlab \in Nat \ {0}
    /\ PageBytes \in Nat \ {0}
    /\ Sizes \subseteq Nat
    /\ MaxSlabs \in Nat \ {0}
    /\ NULL \notin 1 .. MaxSlabs

VARIABLES
    slabPool,      \* [slabStack, numSlabsAlloc, numSlabsFree, numSlabsInUse]
    pagePool,      \* [pageStack, slabList, numPagesAlloc, numPagesFree, numPagesInUse]
    memoryPool,    \* [pageStack, numPageBytesUsed, numPageBytesFree]
    slabsHeld,     \* the slabs the program acquired and did not release
    pagesHeld,     \* the pages
    blocks,        \* the blocks, in the order in which they were acquired
    freed,         \* the slabs given back to malloc, in order
    destroyed      \* the pools that were destroyed

vars == <<slabPool, pagePool, memoryPool, slabsHeld, pagesHeld, blocks, freed,
          destroyed>>

Slab == 1 .. MaxSlabs
Page == Slab \X (0 .. PagesPerSlab - 1)

\* An array nothing was allocated for.
NoArray == [values |-> NULL, size |-> 0, length |-> 0]

Init ==
    /\ slabPool = [slabStack |-> NoArray, numSlabsAlloc |-> 0,
                   numSlabsFree |-> 0, numSlabsInUse |-> 0]
    /\ pagePool = [pageStack |-> NoArray, slabList |-> NoArray,
                   numPagesAlloc |-> 0, numPagesFree |-> 0, numPagesInUse |-> 0]
    /\ memoryPool = [pageStack |-> NoArray, numPageBytesUsed |-> 0,
                     numPageBytesFree |-> 0]
    /\ slabsHeld = {} /\ pagesHeld = {} /\ blocks = << >>
    /\ freed = << >>
    /\ destroyed = {}

-------------------------------------------------------------------------------
(* Slabs.                                                                  *)

populateSlabPool(pool) ==
    [pool EXCEPT !.slabStack = push(@, pool.numSlabsAlloc + 1),
                 !.numSlabsAlloc = @ + 1,
                 !.numSlabsFree = @ + 1]

\* The pool once its stack exists and a slab is free.
SlabReady(pool) ==
    LET initialized == IF pool.numSlabsAlloc = 0
                       THEN [pool EXCEPT !.slabStack = initStackArray]
                       ELSE pool
    IN IF initialized.numSlabsFree = 0 THEN populateSlabPool(initialized)
                                       ELSE initialized

\* What acquireSlab returns, and what it leaves of the pool.
NextSlab(pool) == peek(SlabReady(pool).slabStack)

SlabAcquired(pool) ==
    [SlabReady(pool) EXCEPT !.slabStack = Popped(@),
                            !.numSlabsFree = @ - 1,
                            !.numSlabsInUse = @ + 1]

SlabReleased(pool, slab) ==
    [pool EXCEPT !.slabStack = push(@, slab),
                 !.numSlabsFree = @ + 1,
                 !.numSlabsInUse = @ - 1]

acquireSlab ==
    /\ "slab" \notin destroyed
    /\ NextSlab(slabPool) \in Slab
    /\ slabPool' = SlabAcquired(slabPool)
    /\ slabsHeld' = slabsHeld \union {NextSlab(slabPool)}
    /\ UNCHANGED <<pagePool, memoryPool, pagesHeld, blocks, freed, destroyed>>

releaseSlab(slab) ==
    /\ "slab" \notin destroyed
    /\ slab \in slabsHeld
    /\ slabPool' = SlabReleased(slabPool, slab)
    /\ slabsHeld' = slabsHeld \ {slab}
    /\ UNCHANGED <<pagePool, memoryPool, pagesHeld, blocks, freed, destroyed>>

-------------------------------------------------------------------------------
(* Pages.                                                                  *)

PagesOf(slab) == [k \in 1 .. PagesPerSlab |-> <<slab, k - 1>>]

populatePagePool(pool, slab) ==
    [pool EXCEPT !.slabList = add(@, slab),
                 !.pageStack = FoldLeft(push, @, PagesOf(slab)),
                 !.numPagesAlloc = @ + PagesPerSlab,
                 !.numPagesFree = @ + PagesPerSlab]

PageInitialized(pool) ==
    IF pool.pageStack.values = NULL
    THEN [pool EXCEPT !.pageStack = initStackArray, !.slabList = initListArray]
    ELSE pool

\* The two pools once a page is free: the page pool may take a slab.
PageReady(pages, slabs) ==
    IF pages.numPagesFree = 0
    THEN [pages |-> populatePagePool(PageInitialized(pages), NextSlab(slabs)),
          slabs |-> SlabAcquired(slabs)]
    ELSE [pages |-> PageInitialized(pages), slabs |-> slabs]

NextPage == peek(PageReady(pagePool, slabPool).pages.pageStack)

\* acquirePage, whoever calls it.
PageAcquired ==
    LET ready == PageReady(pagePool, slabPool) IN
    /\ NextPage \in Page
    /\ pagePool' = [ready.pages EXCEPT !.pageStack = Popped(@),
                                       !.numPagesFree = @ - 1,
                                       !.numPagesInUse = @ + 1]
    /\ slabPool' = ready.slabs

PageReleased(pool, page) ==
    [pool EXCEPT !.pageStack = push(@, page),
                 !.numPagesFree = @ + 1,
                 !.numPagesInUse = @ - 1]

acquirePage ==
    /\ "page" \notin destroyed
    /\ PageAcquired
    /\ pagesHeld' = pagesHeld \union {NextPage}
    /\ UNCHANGED <<memoryPool, slabsHeld, blocks, freed, destroyed>>

releasePage(page) ==
    /\ "page" \notin destroyed
    /\ page \in pagesHeld
    /\ pagePool' = PageReleased(pagePool, page)
    /\ pagesHeld' = pagesHeld \ {page}
    /\ UNCHANGED <<slabPool, memoryPool, slabsHeld, blocks, freed, destroyed>>

-------------------------------------------------------------------------------
(* Blocks.                                                                 *)

MemoryInitialized(pool) ==
    IF pool.pageStack.values = NULL
    THEN [pool EXCEPT !.pageStack = initStackArray]
    ELSE pool

\* A page with nothing used of it becomes the top of the stack; what was left
\* of the last one is given up.
PageAdded(pool, page) ==
    [pageStack |-> push(pool.pageStack, page),
     numPageBytesUsed |-> 0,
     numPageBytesFree |-> PageBytes]

\* The block is the next `size' bytes of the top page.
BlockTaken(pool, size) ==
    /\ memoryPool' = [pool EXCEPT !.numPageBytesUsed = @ + size,
                                  !.numPageBytesFree = @ - size]
    /\ blocks' = IF size = 0 THEN blocks
                 ELSE Append(blocks, [page |-> peek(pool.pageStack),
                                      offset |-> pool.numPageBytesUsed,
                                      size |-> size])

\* A size of more than a page is refused once the stack exists.
acquireMemory(size) ==
    /\ "memory" \notin destroyed
    /\ LET pool == MemoryInitialized(memoryPool) IN
       \/ /\ size > PageBytes
          /\ memoryPool' = pool
          /\ UNCHANGED <<slabPool, pagePool, blocks>>
       \/ /\ size <= PageBytes
          /\ pool.numPageBytesFree < size
          /\ PageAcquired
          /\ BlockTaken(PageAdded(pool, NextPage), size)
       \/ /\ size <= PageBytes
          /\ pool.numPageBytesFree >= size
          /\ BlockTaken(pool, size)
          /\ UNCHANGED <<slabPool, pagePool>>
    /\ UNCHANGED <<slabsHeld, pagesHeld, freed, destroyed>>

-------------------------------------------------------------------------------
(* The end of the program.                                                 *)

\* What cleanUpStackArray and cleanUpListArray leave of an array: the block of
\* an array that had one is freed, and its address kept.
Freed(array, length) ==
    IF array.values = NULL THEN array
    ELSE [array EXCEPT !.values = << >>, !.length = length]

\* The pages go back to the page pool, the top of the stack first.
destroyMemoryPool ==
    /\ destroyed = {}
    /\ pagePool' = FoldLeft(PageReleased, pagePool,
                            Reverse(Items(memoryPool.pageStack)))
    /\ memoryPool' = [memoryPool EXCEPT !.pageStack = Freed(@, 0)]
    /\ blocks' = << >>
    /\ destroyed' = {"memory"}
    /\ UNCHANGED <<slabPool, slabsHeld, pagesHeld, freed>>

\* Mutant of destroyPagePool: the slabs are not released.
destroyPagePoolOnly ==
    /\ destroyed = {"memory"}
    /\ pagesHeld = {}
    /\ pagePool' = [pagePool EXCEPT
                      !.pageStack = Freed(@, @.length),
                      !.slabList = Freed(@, @.length)]
    /\ destroyed' = {"memory", "page"}
    /\ UNCHANGED <<slabPool, memoryPool, slabsHeld, pagesHeld, blocks, freed>>

\* The program has no page left.  The slabs go back to the slab pool in the
\* order in which they were acquired; the stack keeps its length.
destroyPagePool ==
    /\ destroyed = {"memory"}
    /\ pagesHeld = {}
    /\ slabPool' = FoldLeft(SlabReleased, slabPool, Items(pagePool.slabList))
    /\ pagePool' = [pagePool EXCEPT
                      !.pageStack = Freed(@, @.length),
                      !.slabList = Freed(@, @.length)]
    /\ destroyed' = {"memory", "page"}
    /\ UNCHANGED <<memoryPool, slabsHeld, pagesHeld, blocks, freed>>

destroySlabPool ==
    /\ destroyed = {"memory", "page"}
    /\ freed' = freed \o Reverse(Items(slabPool.slabStack))
    /\ slabPool' = [slabPool EXCEPT !.slabStack = Freed(@, 0)]
    /\ destroyed' = {"memory", "page", "slab"}
    /\ UNCHANGED <<pagePool, memoryPool, slabsHeld, pagesHeld, blocks>>

Next ==
    \/ acquireSlab
    \/ \E slab \in Slab : releaseSlab(slab)
    \/ acquirePage
    \/ \E page \in Page : releasePage(page)
    \/ \E size \in Sizes : acquireMemory(size)
    \/ destroyMemoryPool
    \/ destroyPagePool
    \/ destroySlabPool

Spec == Init /\ [][Next]_vars

-------------------------------------------------------------------------------
(* Properties.                                                             *)

Fits(array) == array.length \in 0 .. array.size

\* Every variable holds values of its C type: no counter goes below zero and no
\* array is longer than its size.
TypeOK ==
    /\ Fits(slabPool.slabStack) /\ Fits(pagePool.pageStack)
    /\ Fits(pagePool.slabList) /\ Fits(memoryPool.pageStack)
    /\ slabPool.numSlabsAlloc \in Nat /\ slabPool.numSlabsFree \in Nat
    /\ slabPool.numSlabsInUse \in Nat
    /\ pagePool.numPagesAlloc \in Nat /\ pagePool.numPagesFree \in Nat
    /\ pagePool.numPagesInUse \in Nat
    /\ memoryPool.numPageBytesUsed \in 0 .. PageBytes
    /\ memoryPool.numPageBytesFree \in 0 .. PageBytes
    /\ slabsHeld \subseteq Slab /\ pagesHeld \subseteq Page
    /\ freed \in Seq(Slab)

\* The counters a pool looks at before it takes memory from its stack say what
\* the stack holds: a pool that believes in a free slab or page would hand out
\* the NULL of an empty stack (slabpool.c:80-90, pagepool.c:82-91), one that
\* does not would allocate for ever.
CountersMatchStacks ==
    /\ "slab" \notin destroyed =>
         /\ slabPool.numSlabsFree = slabPool.slabStack.length
         /\ slabPool.numSlabsAlloc = slabPool.numSlabsFree + slabPool.numSlabsInUse
    /\ "page" \notin destroyed =>
         /\ pagePool.numPagesFree = pagePool.pageStack.length
         /\ pagePool.numPagesAlloc = pagePool.numPagesFree + pagePool.numPagesInUse
         /\ pagePool.numPagesAlloc = PagesPerSlab * pagePool.slabList.length

MemoryPages == Items(memoryPool.pageStack)

\* Every slab is with one owner, and so is every page cut out of a slab: what a
\* caller acquires nobody else has, and what it releases is not lost, while the
\* arrays that remember it grow (stackarray.c:133-140, pagepool.c:104-118).
OwnedOnce ==
    "page" \notin destroyed =>
      LET slabs == Items(slabPool.slabStack) \o Items(pagePool.slabList)
          pages == Items(pagePool.pageStack) \o MemoryPages
      IN
      /\ IsInjective(slabs) /\ IsInjective(pages)
      /\ ToSet(slabs) \intersect slabsHeld = {}
      /\ ToSet(slabs) \union slabsHeld = 1 .. slabPool.numSlabsAlloc
      /\ ToSet(pages) \intersect pagesHeld = {}
      /\ ToSet(pages) \union pagesHeld =
           ToSet(Items(pagePool.slabList)) \X (0 .. PagesPerSlab - 1)

\* Blocks are inside pages of the memory pool and do not overlap, a block that
\* did not fit the rest of a page included (memorypool.c:94-110).
BlocksDisjoint ==
    \A i \in 1 .. Len(blocks) :
      /\ blocks[i].page \in ToSet(MemoryPages)
      /\ blocks[i].offset + blocks[i].size <= PageBytes
      /\ \A j \in 1 .. i - 1 :
           blocks[i].page = blocks[j].page =>
             blocks[j].offset + blocks[j].size <= blocks[i].offset

\* The pools and their callers agree on who has what: the counters, the owners
\* of slabs and pages, and the blocks inside the pages, over every growth of the
\* arrays (memorypool.c:72-114, pagepool.c:74-118, slabpool.c:71-113).
MemoryAccounted == TypeOK /\ CountersMatchStacks /\ OwnedOnce /\ BlocksDisjoint

\* When the pools are destroyed top down, every slab that was allocated and is
\* not with the program is given back to malloc, once
\* (memorypool.c:67, pagepool.c:69, slabpool.c:66).
SlabsFreedOnce ==
    /\ IsInjective(freed)
    /\ "slab" \in destroyed =>
         ToSet(freed) = (1 .. slabPool.numSlabsAlloc) \ slabsHeld
===============================================================================
