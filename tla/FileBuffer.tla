------------------------------ MODULE FileBuffer ------------------------------
(***************************************************************************)
(* Reading a file through io/filebuffer.c: readFileBuffer and              *)
(* readFileBufferList on top of AsyncIO, the FileBufferPool, the pages     *)
(* behind the buffers, and containsData with the walk along `next' that    *)
(* crc32 and write make over what it finds.                                *)
(*                                                                         *)
(* One thread makes the calls; the kernel completes requests at any time.  *)
(* A call that reads is therefore split where the kernel's progress        *)
(* matters: at each request it queues, at io_submit, at io_getevents.      *)
(* The page pool is its contract: acquirePage returns a page nobody holds. *)
(***************************************************************************)
EXTENDS AsyncIO, FileBufferList

CONSTANTS
    Calls,     \* which of the two reading functions the program calls
    Offsets,   \* [File -> the offsets it sets before a call]
    Lengths,   \* the lengths it asks for, in sectors
    Lookups    \* the order of its lookups in a list: "none", "ascending", "any"

ASSUME FileBufferAssumption ==
    /\ Calls \subseteq {"readFileBuffer", "readFileBufferList"}
    /\ Offsets \in [File -> SUBSET Nat]
    /\ Lengths \subseteq Nat
    /\ Lookups \in {"none", "ascending", "any"}

VARIABLES
    numRequestsRemaining,  \* [File -> AIOFile.numRequestsRemaining]
    bufferList,            \* [File -> its FileBufferList: [values, numBytes, fileOffset]]
    fileBufferPool,        \* [numAlloc, numFree, numInUse]: structs are interchangeable
    pagesHeld,             \* the pages acquired from the page pool
    call                   \* the reading call in progress, or Idle

fbVars == <<numRequestsRemaining, bufferList, fileBufferPool, pagesHeld, call>>
vars == <<aioVars, fbVars>>

\* The call in progress: the next step it makes, how many requests it has
\* queued of how many, what getEvents returned and the FileBuffer it fills.
NoBuffer == [buffer |-> NULL, fileOffset |-> 0, dataOffset |-> 0, numBytes |-> 0]
Idle == [fn |-> "none", file |-> NULL, step |-> "idle", queued |-> 0,
         blocks |-> 0, events |-> 0, fileBuffer |-> NoBuffer]

Init ==
    /\ AIOInit
    /\ numRequestsRemaining = [f \in File |-> 0]
    /\ bufferList = [f \in File |-> EmptyList]
    /\ fileBufferPool = [numAlloc |-> 0, numFree |-> 0, numInUse |-> 0]
    /\ pagesHeld = {}
    /\ call = Idle

-------------------------------------------------------------------------------
(* The FileBuffer pool and the list.                                       *)

\* The pool after n calls of acquireFileBuffer.
Acquired(pool, n) ==
    LET reused == Min({n, pool.numFree}) IN
    [numAlloc |-> pool.numAlloc + n - reused,
     numFree |-> pool.numFree - reused,
     numInUse |-> pool.numInUse + n]

\* The pool after n calls of releaseFileBuffer.
Returned(pool, n) ==
    [pool EXCEPT !.numFree = @ + n, !.numInUse = @ - n]

\* acquireFileBuffer clears every field but the page.
NewFileBuffer(page) ==
    [buffer |-> page, fileOffset |-> 0, dataOffset |-> 0, numBytes |-> 0]

PagesOf(list) == {list.values[i].buffer : i \in 1 .. Len(list.values)}

\* Mutant of resetFileBufferList: no freeBuffer is passed, the pages are kept.
resetFileBufferListOnly(f) ==
    /\ UNCHANGED pagesHeld
    /\ fileBufferPool' = Returned(fileBufferPool, Len(bufferList[f].values))
    /\ bufferList' = [bufferList EXCEPT ![f] = EmptyList]

\* resetFileBufferList with releasePage: every page and every FileBuffer goes
\* back to its pool.
resetFileBufferList(f) ==
    /\ pagesHeld' = pagesHeld \ PagesOf(bufferList[f])
    /\ fileBufferPool' = Returned(fileBufferPool, Len(bufferList[f].values))
    /\ bufferList' = [bufferList EXCEPT ![f] = EmptyList]

\* readFileBufferList builds one FileBuffer for each event, in the order in
\* which the requests completed.
BufferOfEvent(event) ==
    [NewFileBuffer(aioRequest[event.obj].buf) EXCEPT
       !.fileOffset = aioRequest[event.obj].offset,
       !.numBytes = event.res]

\* Mutant of BuffersOf: the requests are taken to complete in ticket order.
BuffersOfRequests(ticket, n) ==
    [i \in 1 .. n |-> BufferOfEvent([obj |-> ticket.requestList[i - 1],
                                    res |-> ticket.eventList[i - 1].res])]

BuffersOf(ticket, n) == [i \in 1 .. n |-> BufferOfEvent(ticket.eventList[i - 1])]

-------------------------------------------------------------------------------
(* readFileBufferList.                                                     *)

\* The pages a length takes, no more than one ticket holds.
numBlocks(length) ==
    (Min({length, TicketSize * PageSize}) + PageSize - 1) \div PageSize

\* The list is reset, then either the events of the last call's ticket are
\* asked for or a new ticket is begun.
ListBegin(f, o, length) ==
    /\ "readFileBufferList" \in Calls
    /\ call = Idle
    /\ resetFileBufferList(f)
    /\ offset' = [offset EXCEPT ![f] = o]
    /\ \/ /\ numRequestsRemaining[f] > 0
          /\ call' = [Idle EXCEPT !.fn = "readFileBufferList", !.file = f,
                                  !.step = "events"]
          /\ UNCHANGED aioTicket
       \/ /\ numRequestsRemaining[f] = 0
          /\ aioTicket' = [aioTicket EXCEPT ![f] = InitializedTicket(@)]
          /\ call' = [Idle EXCEPT
                        !.fn = "readFileBufferList", !.file = f,
                        !.step = "queue",
                        !.blocks = numBlocks(length)]
    /\ UNCHANGED <<requestQueue, aioRequestPool, aioRequest, inflight,
                   completed, memory, numRequestsRemaining>>

\* One round of the loop: a page, and a request to read into it.
ListQueue(page) ==
    /\ call.fn = "readFileBufferList" /\ call.step = "queue"
    /\ call.queued < call.blocks
    /\ page \in Page \ pagesHeld
    /\ pagesHeld' = pagesHeld \union {page}
    /\ read(call.file, page, PageSize)
    /\ call' = [call EXCEPT !.queued = @ + 1]
    /\ UNCHANGED <<aioTicket, inflight, completed, memory,
                   numRequestsRemaining, bufferList, fileBufferPool>>

\* What submit answers is not looked at.
ListSubmit ==
    /\ call.fn = "readFileBufferList" /\ call.step = "queue"
    /\ call.queued = call.blocks
    /\ numRequestsRemaining' =
         [numRequestsRemaining EXCEPT ![call.file] = call.blocks]
    /\ submit(call.file)
    /\ call' = [call EXCEPT !.step = "events"]
    /\ UNCHANGED <<aioRequestPool, aioRequest, offset, completed, memory,
                   bufferList, fileBufferPool, pagesHeld>>

\* Mutant of StillRemaining: the events of the whole ticket are subtracted.
StillRemainingOfTicket(f) ==
    Unsigned(numRequestsRemaining[f] - aioTicket[f].numEvents)

\* What getEvents returned is subtracted, an error's -1 included.
StillRemaining(f) == Unsigned(numRequestsRemaining[f] - call.events)

\* An error makes no buffer.
ListEnd ==
    /\ call.fn = "readFileBufferList" /\ call.step = "collect"
    /\ LET f == call.file
           buffers == BuffersOf(aioTicket[f], Max({0, call.events}))
       IN
       /\ numRequestsRemaining' =
            [numRequestsRemaining EXCEPT ![f] = StillRemaining(f)]
       /\ bufferList' =
            [bufferList EXCEPT ![f] = FoldLeft(addBuffer, @, buffers)]
       /\ fileBufferPool' = Acquired(fileBufferPool, Len(buffers))
       /\ cleanUpAIOTicket(f)
    /\ call' = Idle
    /\ UNCHANGED <<requestQueue, aioRequest, aioTicket, offset, inflight,
                   completed, memory, pagesHeld>>

-------------------------------------------------------------------------------
(* readFileBuffer.                                                         *)

\* Its caller reads with it while nothing is outstanding, and keeps what it
\* returns in an empty list (ziparchive.c:515-516).
\* A request longer than a page is refused before anything is acquired.
BufferBegin(f, o, length, page) ==
    /\ "readFileBuffer" \in Calls
    /\ call = Idle
    /\ numRequestsRemaining[f] = 0
    /\ bufferList[f].values = << >>
    /\ length <= PageSize
    /\ page \in Page \ pagesHeld
    /\ pagesHeld' = pagesHeld \union {page}
    /\ fileBufferPool' = Acquired(fileBufferPool, 1)
    /\ offset' = [offset EXCEPT ![f] = o]
    /\ aioTicket' = [aioTicket EXCEPT ![f] = InitializedTicket(@)]
    /\ call' = [Idle EXCEPT !.fn = "readFileBuffer", !.file = f,
                            !.step = "queue", !.blocks = 1,
                            !.fileBuffer = [NewFileBuffer(page) EXCEPT
                                              !.fileOffset = o]]
    /\ UNCHANGED <<requestQueue, aioRequestPool, aioRequest, inflight,
                   completed, memory, numRequestsRemaining, bufferList>>

BufferQueue ==
    /\ call.fn = "readFileBuffer" /\ call.step = "queue"
    /\ call.queued < call.blocks
    /\ read(call.file, call.fileBuffer.buffer, PageSize)
    /\ call' = [call EXCEPT !.queued = @ + 1]
    /\ UNCHANGED <<aioTicket, inflight, completed, memory,
                   numRequestsRemaining, bufferList, fileBufferPool, pagesHeld>>

BufferSubmit ==
    /\ call.fn = "readFileBuffer" /\ call.step = "queue"
    /\ call.queued = call.blocks
    /\ submit(call.file)
    /\ call' = [call EXCEPT !.step = "events"]
    /\ UNCHANGED <<aioRequestPool, aioRequest, offset, completed, memory,
                   numRequestsRemaining, bufferList, fileBufferPool, pagesHeld>>

\* The size is taken from the first entry of the event list, whatever getEvents
\* returned; the buffer is returned and added to the caller's list.
FilledBuffer ==
    [call.fileBuffer EXCEPT
       !.numBytes = aioTicket[call.file].eventList[0].res]

BufferEnd ==
    /\ call.fn = "readFileBuffer" /\ call.step = "collect"
    /\ bufferList' = [bufferList EXCEPT ![call.file] = addBuffer(@, FilledBuffer)]
    /\ cleanUpAIOTicket(call.file)
    /\ call' = Idle
    /\ UNCHANGED <<requestQueue, aioRequest, aioTicket, offset, inflight,
                   completed, memory, numRequestsRemaining, fileBufferPool,
                   pagesHeld>>

-------------------------------------------------------------------------------
\* Both functions wait for events once.
WaitForEvents ==
    /\ call.step = "events"
    /\ \E n \in -1 .. TicketSize :
         /\ getEvents(call.file, n)
         /\ call' = [call EXCEPT !.step = "collect", !.events = n]
    /\ UNCHANGED <<requestQueue, aioRequestPool, aioRequest, offset, inflight,
                   memory, numRequestsRemaining, bufferList, fileBufferPool,
                   pagesHeld>>

\* The caller drops what it has read (ziparchive.c:477, 566, 689).
Reset(f) ==
    /\ call = Idle
    /\ bufferList[f].values # << >>
    /\ resetFileBufferList(f)
    /\ UNCHANGED <<aioVars, numRequestsRemaining, call>>

-------------------------------------------------------------------------------
(* Looking data up in a list.                                              *)

\* A lookup by the program.  An ascending one is not before an earlier one.
LastLookup(list) ==
    Max({0} \union {list.values[i].fileOffset + list.values[i].dataOffset :
                      i \in {j \in 1 .. Len(list.values) :
                               list.values[j].dataOffset > 0}})

MayLookUp(list, position) ==
    Lookups = "ascending" => position >= LastLookup(list)

Lookup(f, position) ==
    /\ call = Idle
    /\ Lookups # "none"
    /\ MayLookUp(bufferList[f], position)
    /\ containsData(bufferList[f], position, 1)
    /\ bufferList' = [bufferList EXCEPT ![f] = Found(@, position)]
    /\ UNCHANGED <<aioVars, numRequestsRemaining, fileBufferPool, pagesHeld,
                   call>>

-------------------------------------------------------------------------------
Kernel == KernelNext /\ UNCHANGED fbVars

Program ==
    \/ \E f \in File :
         \/ \E o \in Offsets[f], length \in Lengths :
              ListBegin(f, o, length)
              \/ \E p \in Page : BufferBegin(f, o, length, p)
         \/ Reset(f)
         \/ \E position \in 0 .. FileSize[f] : Lookup(f, position)
    \/ \E p \in Page : ListQueue(p)
    \/ ListSubmit
    \/ ListEnd
    \/ BufferQueue
    \/ BufferSubmit
    \/ BufferEnd
    \/ WaitForEvents

Next == Program \/ Kernel

Spec == Init /\ [][Next]_vars

\* The program asks again while blocks are outstanding, its calls run to their
\* end, and the device answers every request it was given.
Fairness ==
    /\ \A f \in File :
         WF_vars(\E o \in Offsets[f], length \in Lengths :
                   ListBegin(f, o, length))
    /\ WF_vars(\E p \in Page : ListQueue(p))
    /\ WF_vars(ListSubmit) /\ WF_vars(WaitForEvents) /\ WF_vars(ListEnd)
    /\ WF_vars(Kernel)

FairSpec == Spec /\ Fairness

-------------------------------------------------------------------------------
(* What the walk of crc32 and write reads.                                 *)

\* The sector at a place, counted from 0, or NULL if nothing was read there.
Sector(place) ==
    IF place = PastTheLast THEN NULL
    ELSE LET block == memory[place[1].buffer]
         IN  IF place[2] < block.length THEN <<block.file, block.offset + place[2]>> ELSE NULL

-------------------------------------------------------------------------------
(* Properties.                                                             *)

Buffer == [buffer : Page \union {NULL}, fileOffset : Nat, dataOffset : Nat,
           numBytes : Nat]

BufferList == [values : Seq(Buffer), numBytes : Nat, fileOffset : Nat]
BufferPool == [numAlloc : Nat, numFree : Nat, numInUse : Nat]

TypeOK ==
    /\ AIOTypeOK
    /\ numRequestsRemaining \in [File -> 0 .. Word - 1]
    /\ bufferList \in [File -> BufferList]
    /\ fileBufferPool \in BufferPool
    /\ pagesHeld \subseteq Page
    /\ call.file \in File \union {NULL}
    /\ call.queued \in 0 .. TicketSize /\ call.blocks \in 0 .. TicketSize
    /\ call.events \in -1 .. TicketSize
    /\ call.fileBuffer \in Buffer

\* The pages of the requests queued or with the kernel, and of the buffers in
\* the lists.
PendingPages ==
    [i \in 1 .. Len(requestQueue \o InKernel) |->
       aioRequest[(requestQueue \o InKernel)[i]].buf]
ListedPages ==
    UNION {PagesOf(bufferList[f]) : f \in File}

\* Between calls every page the program holds is either in one buffer of one
\* list or the target of one request: none is leaked, and none that a caller
\* reads can still be written by the device (filebuffer.c:306-314, 361-364).  The
\* FileBuffers in use are those of the lists.
PagesAccounted ==
    call = Idle =>
      /\ IsInjective(PendingPages)
      /\ \A f \in File : IsInjective([i \in 1 .. Len(bufferList[f].values) |->
                                       bufferList[f].values[i].buffer])
      /\ ToSet(PendingPages) \intersect ListedPages = {}
      /\ ToSet(PendingPages) \union ListedPages = pagesHeld
      /\ fileBufferPool.numInUse =
           MapThenSumSet(LAMBDA f : Len(bufferList[f].values), File)

\* Nothing of a file's reads is lost or in two places, over partial answers,
\* timeouts and completions out of order (filebuffer.c:344-399): its requests,
\* its pages and its buffers.
BuffersAccounted == TypeOK /\ RequestInOnePlace /\ PagesAccounted

\* Between calls the file's count of outstanding requests is what the kernel
\* will still deliver for it, over any number of partial answers and timeouts
\* (filebuffer.c:367, 375).
RemainingMatchesKernel ==
    call = Idle =>
      \A f \in File :
        numRequestsRemaining[f] =
          Quantify(DOMAIN InKernel, LAMBDA i : aioRequest[InKernel[i]].fd = f)

\* A FileBuffer a caller holds says of its page what was read into it: which
\* part of the file, and how much (filebuffer.c:308, 326, 390-392).
BuffersHoldTheirBlocks ==
    call = Idle =>
      \A f \in File : \A i \in 1 .. Len(bufferList[f].values) :
        LET b == bufferList[f].values[i] IN
        memory[b.buffer] = [file |-> f, offset |-> b.fileOffset,
                            length |-> b.numBytes]

\* Wherever containsData says the list has the data, crc32 and write walk over
\* exactly that data (filebuffer.c:228-274, 401-415).
ListServesData ==
    call = Idle =>
      \A f \in File :
        \A position \in 0 .. FileSize[f], length \in 1 .. FileSize[f] :
          LET list == bufferList[f] IN
          (containsData(list, position, length) /\ MayLookUp(list, position)) =>
            LET walk == Walk(Found(list, position).values, StartIndex(list, position), length)
            IN  [k \in DOMAIN walk |-> Sector(walk[k])]
                  = [k \in 1 .. length |-> <<f, position + k - 1>>]

\* With reads of one buffer and of a list in turn, nothing is lost, a buffer
\* describes its page, and what the list says it has it serves
\* (filebuffer.c:228-332).
BuffersServeData == PagesAccounted /\ BuffersHoldTheirBlocks /\ ListServesData

\* Every page a block is read into reaches the caller, if it keeps asking, and a
\* caller that does gets all the events of what it asked for: none is lost over
\* partial answers and timeouts (filebuffer.c:344-350, 374-399).
EveryBlockIsDelivered ==
    /\ \A p \in Page : (p \in pagesHeld) ~> (p \in ListedPages)
    /\ \A f \in File : (numRequestsRemaining[f] > 0) ~> (numRequestsRemaining[f] = 0)

\* filebuffer.h:188: containsData returns "The FileBuffer that contains the beginning
\* of the data, or NULL otherwise".
ContainsDataFindsIt ==
    \A f \in File : \A position \in 0 .. FileSize[f], length \in 1 .. FileSize[f] :
      LET list == bufferList[f]
          found == list.values[StartIndex(list, position)]
      IN containsData(list, position, length) =>
           position \in found.fileOffset .. found.fileOffset + found.numBytes - 1
===============================================================================
