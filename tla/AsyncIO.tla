------------------------------- MODULE AsyncIO -------------------------------
(***************************************************************************)
(* Asynchronous I/O of io/async.c: one AIOContext with its request queue,  *)
(* the global AIORequestPool, the AIOTicket of every AIOFile that shares   *)
(* the context, and (external) the kernel behind io_submit and             *)
(* io_getevents, which runs concurrently with the program.                 *)
(*                                                                         *)
(* The operations of this module are actions without a next-state relation *)
(* of their own.  Each constrains the variables it may change and says     *)
(* nothing of the others: AIOClient and FileBuffer compose the operations  *)
(* with the kernel into specifications of a program that calls them, and   *)
(* name there what each step leaves unchanged.                             *)
(*                                                                         *)
(* The request queue is the bounded FIFO that QueueBounded is proved to    *)
(* implement.  Byte counts are in sectors, the unit of Direct I/O offsets. *)
(***************************************************************************)
EXTENDS Integers, Sequences, SequencesExt, FiniteSetsExt

CONSTANTS
    File,           \* the AIOFiles that share the context
    Page,           \* the buffers requests read into and write from
    NULL,           \* the null pointer
    MaxOperations,  \* AIOContext.maxOperations
    TicketSize,     \* the length of requestList and eventList: 8 in the code
    PageSize,       \* MEMORY_PAGE_SIZE, in sectors
    FileSize,       \* [File -> the size of the file, in sectors]
    MaxRequests,    \* bound: how many AIORequests are ever allocated
    Faults          \* which of FaultKinds may happen

\* "timeout": the 6 ms of io_getevents pass before a request completes;
\* "reorder": requests complete in another order than they were submitted in;
\* "submitError", "shortSubmit": io_submit takes none, or a part, of its list.
FaultKinds == {"timeout", "reorder", "submitError", "shortSubmit"}

ASSUME AIOAssumption ==
    /\ MaxOperations \in Nat \ {0}
    /\ TicketSize \in Nat \ {0}
    /\ PageSize \in Nat \ {0}
    /\ MaxRequests \in Nat \ {0}
    /\ FileSize \in [File -> Nat]
    /\ Faults \subseteq FaultKinds
    /\ NULL \notin Page

VARIABLES
    requestQueue,    \* AIOContext.requestQueue: addresses of AIORequests
    aioRequestPool,  \* [structStack, numAlloc, numInUse]
    aioRequest,      \* the fields of every AIORequest ever allocated
    aioTicket,       \* [File -> AIOTicket]
    offset,          \* [File -> AIOFile.offset]
    inflight,        \* kernel: the iocbs submitted and not yet completed
    completed,       \* kernel: the completion ring, the oldest event first
    memory           \* [Page -> what was last read into it]

aioVars == <<requestQueue, aioRequestPool, aioRequest, aioTicket, offset,
             inflight, completed, memory>>

\* Addresses of AIORequests, in the order in which they are allocated.
Request == 1 .. MaxRequests

Opcode == {"AIO_READ", "AIO_WRITE"}

SYSTEM_ERROR_CODE == -1

\* What io_getevents requires of its caller: at least one event.
MinEvents == 1

TicketIndex == 0 .. TicketSize - 1

NoEvent == [obj |-> NULL, res |-> 0]
NoRequest == [fd |-> NULL, opcode |-> "AIO_READ", buf |-> NULL, offset |-> 0,
              nbytes |-> 0]

\* A page nothing was read into.
Blank == [file |-> NULL, offset |-> 0, length |-> 0]

-------------------------------------------------------------------------------
(* The request pool.                                                       *)

\* The AIORequest the pool hands out next: the one released last, or a new one.
NextRequest ==
    IF aioRequestPool.structStack = << >>
    THEN aioRequestPool.numAlloc + 1
    ELSE Last(aioRequestPool.structStack)

acquireAIORequest ==
    /\ NextRequest \in Request
    /\ aioRequestPool' =
         IF aioRequestPool.structStack = << >>
         THEN [aioRequestPool EXCEPT !.numAlloc = @ + 1, !.numInUse = @ + 1]
         ELSE [aioRequestPool EXCEPT !.structStack = Front(@),
                                     !.numInUse = @ + 1]

\* The pool after releaseAIORequest of every request of a list, in order.
Released(pool, requests) ==
    [pool EXCEPT !.structStack = @ \o requests,
                 !.numInUse = @ - Len(requests)]

-------------------------------------------------------------------------------
(* The operations on a file.                                               *)

\* A context, its files and the pool before any request.
AIOInit ==
    /\ requestQueue = << >>
    /\ aioRequestPool = [structStack |-> << >>, numAlloc |-> 0, numInUse |-> 0]
    /\ aioRequest = [r \in Request |-> NoRequest]
    /\ aioTicket = [f \in File |-> [requestList |-> [i \in TicketIndex |-> NULL],
                                    eventList |-> [i \in TicketIndex |-> NoEvent],
                                    numRequests |-> 0,
                                    numEvents |-> 0]]
    /\ offset = [f \in File |-> 0]
    /\ inflight = << >>
    /\ completed = << >>
    /\ memory = [p \in Page |-> Blank]

\* Mutant of InitializedTicket: the events of the last use stay counted.
InitializedTicketRequests(ticket) == [ticket EXCEPT !.numRequests = 0]

\* The ticket's arrays keep what they hold.
InitializedTicket(ticket) ==
    [ticket EXCEPT !.numRequests = 0, !.numEvents = 0]

\* A request is queued at the file's offset, which moves past it.  A full
\* queue answers NULL before anything is acquired.
queueRequest(f, opcode, buf, size) ==
    \/ /\ Len(requestQueue) = MaxOperations
       /\ UNCHANGED <<requestQueue, aioRequestPool, aioRequest, offset>>
    \/ /\ Len(requestQueue) < MaxOperations
       /\ acquireAIORequest
       /\ aioRequest' = [aioRequest EXCEPT ![NextRequest] =
                           [fd |-> f, opcode |-> opcode, buf |-> buf,
                            offset |-> offset[f], nbytes |-> size]]
       /\ offset' = [offset EXCEPT ![f] = @ + size]
       /\ requestQueue' = Append(requestQueue, NextRequest)

read(f, buf, size) == queueRequest(f, "AIO_READ", buf, size)

write(f, buf, size) == queueRequest(f, "AIO_WRITE", buf, size)

\* How many requests of a list of n io_submit takes.
Accepted(n) ==
    {n} \union (IF "submitError" \in Faults THEN {0} ELSE {})
        \union (IF "shortSubmit" \in Faults THEN 1 .. n - 1 ELSE {})

\* The kernel's copy of an AIORequest.
Iocb(r) == [obj |-> r, req |-> aioRequest[r]]

\* Mutant of submit: io_submit is told one request less than the list has.
submitAllButLast(f) ==
    \/ /\ requestQueue = << >>
       /\ UNCHANGED <<requestQueue, aioTicket, inflight>>
    \/ /\ requestQueue # << >>
       /\ LET n == Min({Len(requestQueue), TicketSize}) IN
          /\ requestQueue' = SubSeq(requestQueue, n + 1, Len(requestQueue))
          /\ aioTicket' =
               [aioTicket EXCEPT
                  ![f].requestList = [i \in TicketIndex |->
                                        IF i < n THEN requestQueue[i + 1]
                                                 ELSE @[i]],
                  ![f].numRequests = n]
          /\ inflight' = inflight \o [i \in 1 .. n - 1 |-> Iocb(requestQueue[i])]

\* As many requests as fit the ticket leave the context's queue, whichever
\* file queued them, and are handed to the kernel.  What io_submit answers
\* changes nothing but the value submit returns.
submit(f) ==
    \/ /\ requestQueue = << >>
       /\ UNCHANGED <<requestQueue, aioTicket, inflight>>
    \/ /\ requestQueue # << >>
       /\ LET n == Min({Len(requestQueue), TicketSize}) IN
          /\ requestQueue' = SubSeq(requestQueue, n + 1, Len(requestQueue))
          /\ aioTicket' =
               [aioTicket EXCEPT
                  ![f].requestList = [i \in TicketIndex |->
                                        IF i < n THEN requestQueue[i + 1]
                                                 ELSE @[i]],
                  ![f].numRequests = n]
          /\ \E k \in Accepted(n) :
               inflight' = inflight \o [i \in 1 .. k |-> Iocb(requestQueue[i])]

\* Mutant of getEvents: the events of a ticket are not added up.
getEventsOverwritten(f, n) ==
    /\ completed # << >>
    /\ n = Min({Len(completed), aioTicket[f].numRequests})
    /\ aioTicket' =
         [aioTicket EXCEPT
            ![f].eventList = [i \in TicketIndex |->
                                IF i < n THEN completed[i + 1] ELSE @[i]],
            ![f].numEvents = n]
    /\ completed' = SubSeq(completed, n + 1, Len(completed))

\* io_getevents refuses a list shorter than the one event it must deliver,
\* returns events while there are any, and otherwise waits for its timeout.
\* n is what getEvents returns.
getEvents(f, n) ==
    \/ /\ aioTicket[f].numRequests < MinEvents
       /\ n = SYSTEM_ERROR_CODE
       /\ UNCHANGED <<aioTicket, completed>>
    \/ /\ aioTicket[f].numRequests >= MinEvents
       /\ completed = << >>
       /\ "timeout" \in Faults \/ inflight = << >>
       /\ n = 0
       /\ UNCHANGED <<aioTicket, completed>>
    \/ /\ aioTicket[f].numRequests >= MinEvents
       /\ completed # << >>
       /\ n = Min({Len(completed), aioTicket[f].numRequests})
       /\ aioTicket' =
            [aioTicket EXCEPT
               ![f].eventList = [i \in TicketIndex |->
                                   IF i < n THEN completed[i + 1] ELSE @[i]],
               ![f].numEvents = @ + n]
       /\ completed' = SubSeq(completed, n + 1, Len(completed))

\* The requests of the ticket, in the order of its list.
TicketRequests(ticket) ==
    [i \in 1 .. ticket.numRequests |-> ticket.requestList[i - 1]]

\* Mutant of cleanUpAIOTicket: the last event is never taken to have arrived.
cleanUpAIOTicketLate(f) ==
    aioRequestPool' =
      IF aioTicket[f].numEvents > aioTicket[f].numRequests
      THEN Released(aioRequestPool, TicketRequests(aioTicket[f]))
      ELSE aioRequestPool

\* The requests go back to the pool once as many events as requests arrived.
\* The ticket itself is left as it is.
cleanUpAIOTicket(f) ==
    aioRequestPool' =
      IF aioTicket[f].numEvents = aioTicket[f].numRequests
      THEN Released(aioRequestPool, TicketRequests(aioTicket[f]))
      ELSE aioRequestPool

-------------------------------------------------------------------------------
(* External: the kernel.                                                   *)

\* What a read or write at an offset transfers: less than asked for at the end
\* of the file, nothing past it.
Transferred(req) ==
    IF req.opcode = "AIO_WRITE" THEN req.nbytes
    ELSE Max({0, Min({req.nbytes, FileSize[req.fd] - req.offset})})

\* A request in flight completes: its buffer holds the data, and its event is
\* the last of the completion ring.
Complete(i) ==
    /\ i = 1 \/ "reorder" \in Faults
    /\ LET iocb == inflight[i] IN
       /\ inflight' = RemoveAt(inflight, i)
       /\ completed' = Append(completed, [obj |-> iocb.obj,
                                          res |-> Transferred(iocb.req)])
       /\ memory' = IF iocb.req.opcode = "AIO_READ"
                    THEN [memory EXCEPT ![iocb.req.buf] =
                            [file |-> iocb.req.fd,
                             offset |-> iocb.req.offset,
                             length |-> Transferred(iocb.req)]]
                    ELSE memory
    /\ UNCHANGED <<requestQueue, aioRequestPool, aioRequest, aioTicket, offset>>

KernelNext == \E i \in 1 .. Len(inflight) : Complete(i)

-------------------------------------------------------------------------------
(* Where the requests are.                                                 *)

RequestRecord ==
    [fd : File \union {NULL}, opcode : Opcode, buf : Page \union {NULL},
     offset : Nat, nbytes : Nat]

AIORequestPool ==
    [structStack : Seq(Request), numAlloc : 0 .. MaxRequests, numInUse : 0 .. MaxRequests]

AIOTicket ==
    [requestList : [TicketIndex -> Request \union {NULL}],
     eventList : [TicketIndex -> [obj : Request \union {NULL}, res : Nat]],
     numRequests : 0 .. TicketSize, numEvents : Nat]

AIOTypeOK ==
    /\ requestQueue \in Seq(Request) /\ Len(requestQueue) <= MaxOperations
    /\ aioRequestPool \in AIORequestPool
    /\ aioRequest \in [Request -> RequestRecord]
    /\ aioTicket \in [File -> AIOTicket]
    /\ offset \in [File -> Nat]
    /\ inflight \in Seq([obj : Request, req : RequestRecord])
    /\ completed \in Seq([obj : Request, res : Nat])

\* The addresses of the requests the kernel still owes an event or has one for.
InKernel == [i \in 1 .. Len(inflight) |-> inflight[i].obj] \o
            [i \in 1 .. Len(completed) |-> completed[i].obj]

\* An AIORequest is in one place at a time: free in the pool, queued in the
\* context, or with the kernel.  Handing one out that the kernel still has
\* (async.c:90, 220-226) would send a later event to the wrong buffer.
RequestInOnePlace ==
    IsInjective(aioRequestPool.structStack \o requestQueue \o InKernel)

\* The pool counts what it handed out: what is in use and what is free make up
\* what was allocated (async.c:85-96, 101-107).
PoolCounts ==
    aioRequestPool.numInUse + Len(aioRequestPool.structStack)
      = aioRequestPool.numAlloc
===============================================================================
