-------------------------- MODULE FileBuffer_proofs --------------------------
(***************************************************************************)
(* Proofs, for every size of the queue, of a ticket and of a page, any     *)
(* file, any number of calls, and over timeouts and completions out of     *)
(* order, that a program that reads lists of buffers loses no request, no  *)
(* page and no buffer, that the count of what is outstanding is right, and *)
(* that every buffer says of its page what was read into it.               *)
(*                                                                         *)
(* Such a program drives its ticket in the order of AIOClient, whose       *)
(* invariant is carried over with the phase that the call in progress and  *)
(* the count of outstanding requests determine.                            *)
(***************************************************************************)
EXTENDS FileBuffer, SequenceTheorems, FiniteSetTheorems, TLAPS

\* Nothing in the code keeps the files of a context apart.
OneFile == \E f : File = {f}

\* io_submit takes its whole list.
AllTaken == Faults \cap {"submitError", "shortSubmit"} = {}

\* The program reads lists of one block or more: for a list of none the -1 of an
\* io_getevents without requests is subtracted as if it were a count
\* (filebuffer.c:375), and readFileBuffer does not count what it has outstanding.
ReadsLists == Calls = {"readFileBufferList"} /\ 0 \notin Lengths

\* The queue takes the requests of a ticket, which fit an unsigned counter.
TicketFits == TicketSize <= MaxOperations /\ TicketSize < Word

\* Where the ticket is in the order of AIOClient.
TicketPhase ==
    [f \in File |-> IF call.step = "queue" THEN "queueing"
                    ELSE IF numRequestsRemaining[f] > 0 THEN "submitted"
                    ELSE "idle"]

Client == INSTANCE AIOClient_proofs WITH phase <- TicketPhase, MaxOffset <- 0

\* The events a call has received and made no buffers of.
Received ==
    IF call.step = "collect"
    THEN [i \in 1 .. call.events |-> aioTicket[call.file].eventList[i - 1]]
    ELSE << >>

\* The request is queued, with the kernel, or answered by an event received.
Owing(r) ==
    \/ \E i \in 1 .. Len(requestQueue) : requestQueue[i] = r
    \/ \E i \in 1 .. Len(inflight) : inflight[i].obj = r
    \/ \E i \in 1 .. Len(completed) : completed[i].obj = r
    \/ \E i \in 1 .. Len(Received) : Received[i].obj = r

\* A call has all its fields.
CallRecord ==
    call = [fn |-> call.fn, file |-> call.file, step |-> call.step,
            queued |-> call.queued, blocks |-> call.blocks,
            events |-> call.events, fileBuffer |-> call.fileBuffer]

\* A call is at one of its steps, has queued what the queue holds, and has
\* no list until it ends.
CallKnows ==
    /\ CallRecord
    /\ call.step \in {"idle", "queue", "events", "collect"}
    /\ call.step = "idle" => call = Idle
    /\ call.step # "idle" =>
         /\ call.fn = "readFileBufferList" /\ call.file \in File
         /\ \A f \in File : bufferList[f].values = << >>
    /\ call.blocks \in 0 .. TicketSize /\ call.queued \in 0 .. call.blocks
    /\ call.events \in 0 .. TicketSize
    /\ call.fileBuffer = NoBuffer
    /\ call.step = "queue" => call.blocks > 0
    /\ Len(requestQueue) = IF call.step = "queue" THEN call.queued ELSE 0

\* What is counted as outstanding is with the kernel or was received.
RemainingCounts ==
    /\ numRequestsRemaining \in [File -> 0 .. TicketSize]
    /\ \A f \in File :
         /\ numRequestsRemaining[f] = Len(inflight) + Len(completed) + Len(Received)
         /\ call.step = "queue" => numRequestsRemaining[f] = 0
         /\ call.step \in {"events", "collect"} => numRequestsRemaining[f] > 0

\* An event that was received is for one request, which the kernel no longer has.
ReceivedOnce ==
    /\ Received \in Seq([obj : Request, res : Nat])
    /\ \A i, j \in 1 .. Len(Received) : Received[i].obj = Received[j].obj => i = j
    /\ \A i \in 1 .. Len(Received) :
         /\ \A j \in 1 .. Len(inflight) : inflight[j].obj # Received[i].obj
         /\ \A j \in 1 .. Len(completed) : completed[j].obj # Received[i].obj

\* A page that is held is the target of one request or in one buffer.
PagesOwned ==
    /\ pagesHeld \subseteq Page
    /\ \A r \in Request : Owing(r) => aioRequest[r].buf \in pagesHeld
    /\ \A r, s \in Request :
         Owing(r) /\ Owing(s) /\ aioRequest[r].buf = aioRequest[s].buf => r = s
    /\ \A f \in File : \A i \in 1 .. Len(bufferList[f].values) :
         /\ bufferList[f].values[i].buffer \in pagesHeld
         /\ \A r \in Request : Owing(r) => aioRequest[r].buf # bufferList[f].values[i].buffer
         /\ \A j \in 1 .. Len(bufferList[f].values) :
              bufferList[f].values[i].buffer = bufferList[f].values[j].buffer => i = j
    /\ \A p \in pagesHeld :
         \/ \E r \in Request : Owing(r) /\ aioRequest[r].buf = p
         \/ \E f \in File : \E i \in 1 .. Len(bufferList[f].values) :
              bufferList[f].values[i].buffer = p

\* The page has this part of the file.
Holds(page, f, o, n) == memory[page] = [file |-> f, offset |-> o, length |-> n]

\* The page of an answered request holds what its event says.
Answered(f, event) ==
    Holds(aioRequest[event.obj].buf, f, aioRequest[event.obj].offset, event.res)

\* What is owed are reads of the file; what was read is what is said of it.
BlocksKnown ==
    /\ memory = [p \in Page |-> memory[p]]
    /\ \A i \in 1 .. Len(inflight) : inflight[i].req = aioRequest[inflight[i].obj]
    /\ \A f \in File :
         /\ \A r \in Request : Owing(r) => aioRequest[r].fd = f /\ aioRequest[r].opcode = "AIO_READ"
         /\ \A i \in 1 .. Len(completed) : Answered(f, completed[i])
         /\ \A i \in 1 .. Len(Received) : Answered(f, Received[i])
         /\ \A i \in 1 .. Len(bufferList[f].values) :
              LET b == bufferList[f].values[i] IN Holds(b.buffer, f, b.fileOffset, b.numBytes)

\* The lists are lists, and the pool counts their buffers.
ListsKnown ==
    /\ bufferList \in [File -> BufferList]
    /\ fileBufferPool \in BufferPool
    /\ \A f \in File :
         /\ fileBufferPool.numInUse = Len(bufferList[f].values)
         /\ bufferList[f].values # << >> =>
              bufferList[f].fileOffset = bufferList[f].values[1].fileOffset

\* The inductive invariant.
IInv ==
    /\ Client!IInv
    /\ CallKnows /\ RemainingCounts /\ ReceivedOnce
    /\ PagesOwned /\ BlocksKnown /\ ListsKnown

-------------------------------------------------------------------------------
(* Ticket steps that are those of AIOClient.                               *)

\* The phase of the file is one.
LEMMA PhaseOf ==
  ASSUME NEW f, File = {f}
  PROVE  /\ TicketPhase[f] = IF call.step = "queue" THEN "queueing"
                             ELSE IF numRequestsRemaining[f] > 0 THEN "submitted"
                             ELSE "idle"
         /\ TicketPhase = [g \in File |-> TicketPhase[f]]
         /\ TicketPhase' = [g \in File |-> TicketPhase'[f]]
BY DEF TicketPhase

\* Steps that leave requests alone.
LEMMA ClientStutters ==
  ASSUME NEW f, File = {f}, Client!IInv, UNCHANGED aioVars,
         TicketPhase'[f] = TicketPhase[f]
  PROVE  Client!IInv'
<1>1. TicketPhase' = TicketPhase
  BY PhaseOf
<1>2. UNCHANGED Client!vars
  BY <1>1 DEF Client!vars, Client!aioVars, aioVars
<1> QED
  BY <1>2, Client!StutterInv, AIOAssumption DEF FaultKinds, Client!FaultKinds

\* The program sets the offset of its file.
LEMMA ClientOffset ==
  ASSUME NEW f, File = {f}, Client!IInv, offset' \in [File -> Nat],
         UNCHANGED <<requestQueue, aioRequestPool, aioRequest, aioTicket, inflight,
                     completed>>,
         TicketPhase'[f] = TicketPhase[f]
  PROVE  Client!IInv'
<1>1. TicketPhase' = TicketPhase
  BY PhaseOf
<1> QED
  BY <1>1, Client!OffsetSet, AIOAssumption DEF FaultKinds, Client!FaultKinds

\* It begins a ticket.
LEMMA ClientBegin ==
  ASSUME NEW f, File = {f}, Client!IInv, offset' \in [File -> Nat],
         aioTicket' = [aioTicket EXCEPT ![f] = InitializedTicket(@)],
         UNCHANGED <<requestQueue, aioRequestPool, aioRequest, inflight, completed>>,
         TicketPhase[f] = "idle", TicketPhase'[f] = "queueing"
  PROVE  Client!IInv'
<1>1. TicketPhase' = [TicketPhase EXCEPT ![f] = "queueing"]
  BY PhaseOf
<1>2. aioTicket' = [aioTicket EXCEPT ![f] = Client!InitializedTicket(@)]
  BY DEF InitializedTicket, Client!InitializedTicket
<1> QED
  BY <1>1, <1>2, Client!TicketBegun, AIOAssumption DEF FaultKinds, Client!FaultKinds

\* It queues a read.
LEMMA ClientQueue ==
  ASSUME NEW f, File = {f}, Client!IInv, NEW p \in Page, read(f, p, PageSize),
         UNCHANGED <<aioTicket, inflight, completed, memory>>,
         TicketPhase[f] = "queueing", TicketPhase'[f] = TicketPhase[f]
  PROVE  Client!IInv'
<1>1. TicketPhase' = TicketPhase
  BY PhaseOf
<1>2. Client!read(f, p, PageSize)
  BY DEF read, queueRequest, acquireAIORequest, NextRequest, Request, Last, Front,
         Client!read, Client!queueRequest, Client!acquireAIORequest,
         Client!NextRequest, Client!Request, Client!Last, Client!Front
<1> QED
  BY <1>1, <1>2, Client!RequestQueued, AIOAssumption DEF FaultKinds, Client!FaultKinds

\* It submits.
LEMMA ClientSubmit ==
  ASSUME NEW f, File = {f}, Client!IInv, submit(f), requestQueue # << >>,
         UNCHANGED <<aioRequestPool, aioRequest, offset, completed, memory>>,
         TicketPhase[f] = "queueing", TicketPhase'[f] = "submitted"
  PROVE  Client!IInv'
<1>1. TicketPhase' = [TicketPhase EXCEPT ![f] = "submitted"]
  BY PhaseOf
<1>2. Client!submit(f)
  BY DEF submit, Iocb, Accepted, TicketIndex, Min,
         Client!submit, Client!Iocb, Client!Accepted, Client!TicketIndex, Client!Min
<1>3. Client!Submit(f)
  BY <1>1, <1>2 DEF Client!Submit
<1> QED
  BY <1>3, Client!SubmitInv, AIOAssumption DEF FaultKinds, Client!FaultKinds

\* It asks for events.
LEMMA ClientGetEvents ==
  ASSUME NEW f, File = {f}, Client!IInv,
         NEW n \in -1 .. TicketSize, getEvents(f, n),
         aioTicket[f].numEvents < aioTicket[f].numRequests,
         UNCHANGED <<requestQueue, aioRequestPool, aioRequest, offset, inflight, memory>>,
         TicketPhase[f] = "submitted", TicketPhase'[f] = TicketPhase[f]
  PROVE  Client!IInv'
<1>1. TicketPhase' = TicketPhase
  BY PhaseOf
<1>2. Client!getEvents(f, n)
  BY DEF getEvents, MinEvents, SYSTEM_ERROR_CODE, TicketIndex, Min,
         Client!getEvents, Client!MinEvents, Client!SYSTEM_ERROR_CODE,
         Client!TicketIndex, Client!Min
<1>3. Client!GetEvents(f)
  BY <1>1, <1>2 DEF Client!GetEvents
<1> QED
  BY <1>3, Client!GetEventsInv, AIOAssumption DEF FaultKinds, Client!FaultKinds

\* It cleans its ticket up.
LEMMA ClientCleanUp ==
  ASSUME NEW f, File = {f}, Client!IInv, cleanUpAIOTicket(f),
         aioTicket[f].numEvents >= aioTicket[f].numRequests,
         UNCHANGED <<requestQueue, aioRequest, aioTicket, offset, inflight, completed,
                     memory>>,
         TicketPhase[f] = "submitted", TicketPhase'[f] = "idle"
  PROVE  Client!IInv'
<1>1. TicketPhase' = [TicketPhase EXCEPT ![f] = "idle"]
  BY PhaseOf
<1>2. Client!cleanUpAIOTicket(f)
  BY DEF cleanUpAIOTicket, Released, TicketRequests,
         Client!cleanUpAIOTicket, Client!Released, Client!TicketRequests
<1>3. Client!CleanUp(f)
  BY <1>1, <1>2 DEF Client!CleanUp
<1> QED
  BY <1>3, Client!CleanUpInv, AIOAssumption DEF FaultKinds, Client!FaultKinds

\* The kernel does for this program what it does for that one.
LEMMA ClientKernel ==
  ASSUME NEW f, File = {f}, Client!IInv, KernelNext,
         TicketPhase'[f] = TicketPhase[f]
  PROVE  Client!IInv'
<1>1. TicketPhase' = TicketPhase
  BY PhaseOf
<1>2. Client!Kernel
  BY <1>1 DEF KernelNext, Complete, Client!Kernel, Client!KernelNext, Client!Complete,
              Transferred, Client!Transferred, RemoveAt, Client!RemoveAt,
              Min, Client!Min, Max, Client!Max
<1> QED
  BY <1>2, Client!KernelInv, AIOAssumption DEF FaultKinds, Client!FaultKinds

\* What the invariant of AIOClient says of the requests.
LEMMA Known ==
  ASSUME NEW f, File = {f}, AllTaken, Client!IInv
  PROVE  /\ AIOTypeOK
         /\ \A i, j \in 1 .. Len(requestQueue) : requestQueue[i] = requestQueue[j] => i = j
         /\ \A i, j \in 1 .. Len(inflight) : inflight[i].obj = inflight[j].obj => i = j
         /\ \A i, j \in 1 .. Len(completed) :
              completed[i].obj = completed[j].obj => i = j
         /\ \A i \in 1 .. Len(inflight), j \in 1 .. Len(completed) :
              inflight[i].obj # completed[j].obj
         /\ TicketPhase[f] = "submitted" =>
              aioTicket[f].numEvents + Len(inflight) + Len(completed)
                = aioTicket[f].numRequests
         /\ \A i \in 1 .. Len(requestQueue) : requestQueue[i] # NextRequest
<1>1. AIOTypeOK
  BY DEF Client!IInv, Client!TypeOK, Client!AIOTypeOK, Client!Request, Client!AIORequestPool,
         Client!RequestRecord, Client!Opcode, Client!AIOTicket, Client!TicketIndex,
         AIOTypeOK, Request, AIORequestPool, RequestRecord, Opcode, AIOTicket, TicketIndex
<1>2. /\ \A i, j \in 1 .. Len(requestQueue) : requestQueue[i] = requestQueue[j] => i = j
      /\ \A i \in 1 .. Len(aioRequestPool.structStack), j \in 1 .. Len(requestQueue) :
           aioRequestPool.structStack[i] # requestQueue[j]
  BY DEF Client!IInv, Client!OwnedOnce, Client!Distinct, Client!Apart
<1>3. /\ \A i, j \in 1 .. Len(inflight) : inflight[i].obj = inflight[j].obj => i = j
      /\ \A i, j \in 1 .. Len(completed) :
           completed[i].obj = completed[j].obj => i = j
      /\ \A i \in 1 .. Len(inflight), j \in 1 .. Len(completed) :
           inflight[i].obj # completed[j].obj
  BY DEF Client!IInv, Client!KernelOnce
<1>4. TicketPhase[f] = "submitted" =>
        aioTicket[f].numEvents + Len(inflight) + Len(completed) = aioTicket[f].numRequests
  BY DEF Client!IInv, Client!TicketCounts, AllTaken, Client!AllTaken
<1>5. /\ aioRequestPool.structStack \in Seq(1 .. aioRequestPool.numAlloc)
      /\ requestQueue \in Seq(1 .. aioRequestPool.numAlloc)
  BY DEF Client!IInv, Client!AddressesKnown
<1>6. ASSUME NEW i \in 1 .. Len(requestQueue)
      PROVE  requestQueue[i] # NextRequest
  <2>1. CASE aioRequestPool.structStack = << >>
    <3>1. requestQueue[i] \in 1 .. aioRequestPool.numAlloc
      BY <1>5, ElementOfSeq
    <3>2. aioRequestPool.numAlloc \in Nat
      BY <1>1, AIOAssumption DEF AIOTypeOK, AIORequestPool
    <3> QED
      BY <2>1, <3>1, <3>2 DEF NextRequest
  <2>2. CASE aioRequestPool.structStack # << >>
    <3>1. Len(aioRequestPool.structStack) \in 1 .. Len(aioRequestPool.structStack)
      BY <1>5, <2>2, LenProperties, EmptySeq
    <3> QED
      BY <1>2, <2>2, <3>1 DEF NextRequest, Last
  <2> QED
    BY <2>1, <2>2
<1> QED
  BY <1>1, <1>2, <1>3, <1>4, <1>6

-------------------------------------------------------------------------------
(* Operators.                                                              *)

\* The smaller of two numbers.
LEMMA MinOf ==
  ASSUME NEW a \in Int, NEW b \in Int
  PROVE  Min({a, b}) = IF a <= b THEN a ELSE b
BY Client!MinOfTwo, AIOAssumption DEF Min, Client!Min, FaultKinds, Client!FaultKinds

\* Multiplication by a positive number.
LEMMA Times ==
  ASSUME NEW p \in Nat, p > 0, NEW a \in Int, NEW b \in Int, a <= b
  PROVE  p * a \in Int /\ p * b \in Int /\ p * a <= p * b
OBVIOUS

\* A division, rounded down.
LEMMA Divided ==
  ASSUME NEW n \in Nat, NEW p \in Nat, p > 0
  PROVE  /\ n \div p \in Int
         /\ p * (n \div p) \in Int /\ p * (n \div p) <= n /\ n < p * (n \div p) + p
OBVIOUS

\* A list that is not empty is read in a ticket's blocks or fewer.
LEMMA BlocksOfList ==
  ASSUME NEW length \in Nat, length # 0
  PROVE  numBlocks(length) \in 1 .. TicketSize
<1> DEFINE most == TicketSize * PageSize
           m == Min({length, most})
           q == (m + PageSize - 1) \div PageSize
<1>1. TicketSize \in Nat /\ TicketSize > 0 /\ PageSize \in Nat /\ PageSize > 0
  BY AIOAssumption
<1>2. most \in Nat /\ most > 0 /\ most = PageSize * TicketSize
  BY <1>1
<1>3. m \in Nat /\ m > 0 /\ m <= most
  <2>1. length \in Int /\ most \in Int
    BY <1>2
  <2> HIDE DEF most
  <2> QED
    BY <1>2, <2>1, MinOf
<1> HIDE DEF m, most
<1>4. m + PageSize - 1 \in Nat
  BY <1>1, <1>3
<1>5. /\ q \in Int /\ PageSize * q \in Int
      /\ PageSize * q <= m + PageSize - 1 /\ m + PageSize - 1 < PageSize * q + PageSize
  BY <1>1, <1>4, Divided
<1>6. numBlocks(length) = q
  BY DEF numBlocks, m, most
<1> HIDE DEF q
<1>7. q >= 1
  <2> SUFFICES ASSUME q <= 0 PROVE FALSE
    BY <1>5
  <2>1. PageSize * q <= PageSize * 0
    BY <1>1, <1>5, Times
  <2> QED
    BY <1>1, <1>3, <1>5, <2>1
<1>8. q <= TicketSize
  <2> SUFFICES ASSUME q >= TicketSize + 1 PROVE FALSE
    BY <1>1, <1>5
  <2>1. PageSize * (TicketSize + 1) <= PageSize * q
    BY <1>1, <1>5, Times
  <2>2. PageSize * (TicketSize + 1) = most + PageSize
    BY <1>1, <1>2
  <2> QED
    BY <1>1, <1>2, <1>3, <1>5, <2>1, <2>2
<1> QED
  BY <1>1, <1>5, <1>6, <1>7, <1>8

-------------------------------------------------------------------------------
(* The invariant, one operation after the other.                           *)

\* Nothing is read yet.
LEMMA InitInv ==
  ASSUME NEW f, File = {f}, Init
  PROVE  IInv
<1> USE AIOAssumption DEF Init, AIOInit
<1>1. call = Idle /\ call.step = "idle" /\ Received = << >>
  BY DEF Idle, Received
<1>2. Client!IInv
  <2>1. TicketPhase = [g \in File |-> "idle"]
    BY <1>1 DEF TicketPhase
  <2>2. Client!Init
    BY <2>1 DEF Client!Init, Client!AIOInit, NoRequest, Client!NoRequest, NoEvent,
                Client!NoEvent, Blank, Client!Blank, Request, Client!Request,
                TicketIndex, Client!TicketIndex
  <2> QED
    BY <2>2, Client!InitInv DEF FaultKinds, Client!FaultKinds
<1>3. \A r : ~ Owing(r)
  BY <1>1 DEF Owing
<1>4. /\ bufferList = [g \in File |-> EmptyList] /\ bufferList[f] = EmptyList
      /\ bufferList[f].values = << >>
  BY DEF EmptyList
<1>5. CallKnows
  BY <1>1, <1>4 DEF CallKnows, CallRecord, Idle, NoBuffer
<1>6. RemainingCounts /\ ReceivedOnce
  BY <1>1 DEF RemainingCounts, ReceivedOnce
<1>7. PagesOwned
  BY <1>3, <1>4 DEF PagesOwned
<1>8. BlocksKnown
  BY <1>1, <1>3, <1>4 DEF BlocksKnown
<1>9. ListsKnown
  <2>1. EmptyList \in BufferList
    BY DEF EmptyList, BufferList
  <2> QED
    BY <1>4, <2>1 DEF ListsKnown, BufferPool
<1> QED
  BY <1>2, <1>5, <1>6, <1>7, <1>8, <1>9 DEF IInv

\* Nothing about the requests changed.
Still ==
    UNCHANGED <<requestQueue, aioRequest, inflight, completed, memory, Received>>

\* Then the same requests are owed, and what is known of them is still known.
LEMMA StillOwing ==
  ASSUME Still
  PROVE  \A r : Owing(r)' <=> Owing(r)
BY DEF Still, Owing

\* The pool after all its buffers came back.
LEMMA PoolReturned ==
  ASSUME NEW pool \in BufferPool, NEW n \in Nat, n = pool.numInUse
  PROVE  Returned(pool, n) \in BufferPool /\ Returned(pool, n).numInUse = 0
<1> DEFINE freed == [pool EXCEPT !.numFree = @ + n]
<1>1. /\ freed \in BufferPool /\ freed.numInUse = n
      /\ Returned(pool, n) = [freed EXCEPT !.numInUse = @ - n]
  BY DEF BufferPool, Returned
<1> HIDE DEF freed
<1> QED
  BY <1>1 DEF BufferPool

\* A list is dropped and its pages go back: those of the requests stay.
LEMMA ListDropped ==
  ASSUME NEW f, File = {f}, IInv, resetFileBufferList(f), Still
  PROVE  /\ (ReceivedOnce /\ PagesOwned /\ BlocksKnown /\ ListsKnown)'
         /\ bufferList'[f].values = << >>
<1>1. /\ pagesHeld' = pagesHeld \ PagesOf(bufferList[f])
      /\ fileBufferPool' = Returned(fileBufferPool, Len(bufferList[f].values))
      /\ bufferList' = [bufferList EXCEPT ![f] = EmptyList]
  BY DEF resetFileBufferList
<1>2. \A r : Owing(r)' <=> Owing(r)
  BY StillOwing
<1>3. /\ bufferList \in [File -> BufferList] /\ fileBufferPool \in BufferPool
      /\ fileBufferPool.numInUse = Len(bufferList[f].values)
      /\ bufferList[f].values \in Seq(Buffer)
  BY DEF IInv, ListsKnown, BufferList
<1>4. bufferList'[f].values = << >>
  BY <1>1, <1>3 DEF EmptyList
<1>5. ReceivedOnce'
  BY DEF IInv, ReceivedOnce, Still
<1>6. PagesOwned'
  <2>1. PagesOf(bufferList[f])
          = {bufferList[f].values[i].buffer : i \in 1 .. Len(bufferList[f].values)}
    BY DEF PagesOf
  <2>2. \A r \in Request : Owing(r) => aioRequest[r].buf \in pagesHeld'
    BY <1>1, <2>1 DEF IInv, PagesOwned
  <2>3. \A p \in pagesHeld' : \E r \in Request : Owing(r) /\ aioRequest[r].buf = p
    BY <1>1, <2>1 DEF IInv, PagesOwned
  <2>4. pagesHeld' \subseteq Page
    BY <1>1 DEF IInv, PagesOwned
  <2>5. \A r, s \in Request :
          Owing(r) /\ Owing(s) /\ aioRequest[r].buf = aioRequest[s].buf => r = s
    BY DEF IInv, PagesOwned
  <2>6. aioRequest' = aioRequest
    BY DEF Still
  <2> QED
    BY <1>2, <1>4, <2>2, <2>3, <2>4, <2>5, <2>6 DEF PagesOwned
<1>7. BlocksKnown'
  <2>1. UNCHANGED <<aioRequest, inflight, completed, memory, Received>>
    BY DEF Still
  <2>2. /\ memory = [p \in Page |-> memory[p]]
        /\ \A i \in 1 .. Len(inflight) : inflight[i].req = aioRequest[inflight[i].obj]
        /\ \A r \in Request :
             Owing(r) => aioRequest[r].fd = f /\ aioRequest[r].opcode = "AIO_READ"
        /\ \A i \in 1 .. Len(completed) : Answered(f, completed[i])
        /\ \A i \in 1 .. Len(Received) : Answered(f, Received[i])
    BY DEF IInv, BlocksKnown
  <2> QED
    BY <1>2, <1>4, <2>1, <2>2 DEF BlocksKnown, Answered, Holds
<1>8. ListsKnown'
  <2>1. EmptyList \in BufferList
    BY DEF EmptyList, BufferList
  <2>2. fileBufferPool' \in BufferPool /\ fileBufferPool'.numInUse = 0
    <3>1. Len(bufferList[f].values) \in Nat
      BY <1>3, LenProperties
    <3> QED
      BY <1>1, <1>3, <3>1, PoolReturned
  <2>3. bufferList' \in [File -> BufferList]
    BY <1>1, <1>3, <2>1
  <2> QED
    BY <1>4, <2>2, <2>3 DEF ListsKnown
<1> QED
  BY <1>4, <1>5, <1>6, <1>7, <1>8

\* A step that changes nothing.
LEMMA StutterInv ==
  ASSUME NEW f, File = {f}, IInv, UNCHANGED vars
  PROVE  IInv'
<1>1. UNCHANGED aioVars /\ UNCHANGED fbVars
  BY DEF vars
<1>2. TicketPhase' = TicketPhase /\ Received' = Received
  BY <1>1 DEF TicketPhase, Received, fbVars, aioVars
<1>3. Still
  BY <1>1, <1>2 DEF aioVars, Still
<1>4. Client!IInv'
  BY <1>1, <1>2, ClientStutters DEF IInv
<1>5. \A r : Owing(r)' <=> Owing(r)
  BY <1>3, StillOwing
<1>6. (CallKnows /\ RemainingCounts /\ ReceivedOnce)'
  BY <1>1, <1>2
     DEF IInv, CallKnows, CallRecord, RemainingCounts, ReceivedOnce, aioVars, fbVars
<1>7. PagesOwned'
  BY <1>1, <1>5 DEF IInv, PagesOwned, aioVars, fbVars
<1>8. BlocksKnown'
  BY <1>1, <1>2, <1>5 DEF IInv, BlocksKnown, Answered, Holds, aioVars, fbVars
<1>9. ListsKnown'
  BY <1>1 DEF IInv, ListsKnown, fbVars
<1> QED
  BY <1>4, <1>6, <1>7, <1>8, <1>9 DEF IInv

\* A call begins with an empty list: it asks for more events of its ticket, or
\* begins a ticket when nothing is outstanding.
LEMMA ListBeginInv ==
  ASSUME NEW f, File = {f}, AllTaken, ReadsLists, IInv,
         NEW o \in Offsets[f], NEW length \in Lengths, ListBegin(f, o, length)
  PROVE  IInv'
<1>1. /\ call = Idle /\ resetFileBufferList(f)
      /\ offset' = [offset EXCEPT ![f] = o]
      /\ UNCHANGED <<requestQueue, aioRequestPool, aioRequest, inflight,
                     completed, memory, numRequestsRemaining>>
  BY DEF ListBegin
<1>2. call.step = "idle" /\ Received = << >>
  BY <1>1 DEF Idle, Received
<1>3. offset' \in [File -> Nat]
  <2>1. offset \in [File -> Nat] /\ o \in Nat
    BY Known, FileBufferAssumption DEF IInv, AIOTypeOK
  <2> QED
    BY <1>1, <2>1
<1>4. /\ numRequestsRemaining \in [File -> 0 .. TicketSize]
      /\ numRequestsRemaining[f] = Len(inflight) + Len(completed) + Len(Received)
      /\ Len(requestQueue) = 0
  BY <1>2 DEF IInv, RemainingCounts, CallKnows
<1>5. CASE /\ numRequestsRemaining[f] > 0
           /\ call' = [Idle EXCEPT !.fn = "readFileBufferList", !.file = f,
                                   !.step = "events"]
           /\ UNCHANGED aioTicket
  <2>1. /\ call'.fn = "readFileBufferList" /\ call'.file = f /\ call'.step = "events"
        /\ call'.queued = 0 /\ call'.blocks = 0 /\ call'.events = 0
        /\ call'.fileBuffer = NoBuffer /\ CallRecord'
    BY <1>5 DEF Idle, CallRecord
  <2>2. Received' = << >> /\ TicketPhase'[f] = TicketPhase[f]
    BY <1>1, <1>2, <1>5, <2>1, PhaseOf DEF Received, TicketPhase
  <2>3. Client!IInv'
    BY <1>1, <1>3, <1>5, <2>2, ClientOffset DEF IInv
  <2>4. Still
    BY <1>1, <1>2, <2>2 DEF Still
  <2>5. /\ (ReceivedOnce /\ PagesOwned /\ BlocksKnown /\ ListsKnown)'
        /\ bufferList'[f].values = << >>
    BY <1>1, <2>4, ListDropped
  <2>6. CallKnows'
    BY <1>1, <1>4, <2>1, <2>5, AIOAssumption DEF CallKnows
  <2>7. RemainingCounts'
    BY <1>1, <1>2, <1>4, <1>5, <2>1, <2>2 DEF RemainingCounts
  <2> QED
    BY <2>3, <2>5, <2>6, <2>7 DEF IInv
<1>6. CASE /\ numRequestsRemaining[f] = 0
           /\ aioTicket' = [aioTicket EXCEPT ![f] = InitializedTicket(@)]
           /\ call' = [Idle EXCEPT !.fn = "readFileBufferList", !.file = f,
                                   !.step = "queue", !.blocks = numBlocks(length)]
  <2>0. numBlocks(length) \in 1 .. TicketSize
    BY BlocksOfList, FileBufferAssumption DEF ReadsLists
  <2>1. /\ call'.fn = "readFileBufferList" /\ call'.file = f /\ call'.step = "queue"
        /\ call'.queued = 0 /\ call'.blocks = numBlocks(length) /\ call'.events = 0
        /\ call'.fileBuffer = NoBuffer /\ CallRecord'
    BY <1>6 DEF Idle, CallRecord
  <2>2. Received' = << >> /\ TicketPhase[f] = "idle" /\ TicketPhase'[f] = "queueing"
    BY <1>1, <1>2, <1>6, <2>1, PhaseOf DEF Received, TicketPhase
  <2>3. Client!IInv'
    BY <1>1, <1>3, <1>6, <2>2, ClientBegin DEF IInv
  <2>4. Still
    BY <1>1, <1>2, <2>2 DEF Still
  <2>5. /\ (ReceivedOnce /\ PagesOwned /\ BlocksKnown /\ ListsKnown)'
        /\ bufferList'[f].values = << >>
    BY <1>1, <2>4, ListDropped
  <2>6. CallKnows'
    BY <1>1, <1>4, <2>0, <2>1, <2>5, AIOAssumption DEF CallKnows
  <2>7. RemainingCounts'
    BY <1>1, <1>2, <1>4, <1>6, <2>1, <2>2 DEF RemainingCounts
  <2> QED
    BY <2>3, <2>5, <2>6, <2>7 DEF IInv
<1> QED
  BY <1>5, <1>6 DEF ListBegin

\* The program drops its list between calls.
LEMMA ResetInv ==
  ASSUME NEW f, File = {f}, IInv, Reset(f)
  PROVE  IInv'
<1>1. /\ call = Idle /\ resetFileBufferList(f)
      /\ UNCHANGED <<aioVars, numRequestsRemaining, call>>
  BY DEF Reset
<1>2. TicketPhase' = TicketPhase /\ Received' = Received
  BY <1>1 DEF TicketPhase, Received, aioVars
<1>3. Still
  BY <1>1, <1>2 DEF aioVars, Still
<1>4. Client!IInv'
  BY <1>1, <1>2, ClientStutters DEF IInv
<1>5. /\ (ReceivedOnce /\ PagesOwned /\ BlocksKnown /\ ListsKnown)'
      /\ bufferList'[f].values = << >>
  BY <1>1, <1>3, ListDropped
<1>6. (CallKnows /\ RemainingCounts)'
  BY <1>1, <1>2, <1>5 DEF IInv, CallKnows, CallRecord, RemainingCounts, aioVars
<1> QED
  BY <1>4, <1>5, <1>6 DEF IInv

\* While a call queues its requests, the kernel has none.
LEMMA OnlyQueued ==
  ASSUME NEW f, File = {f}, AllTaken, IInv, call.step = "queue"
  PROVE  /\ inflight = << >> /\ completed = << >> /\ Received = << >>
         /\ requestQueue \in Seq(Request) /\ Len(requestQueue) = call.queued
         /\ \A r : Owing(r) <=> \E i \in 1 .. Len(requestQueue) : requestQueue[i] = r
         /\ numRequestsRemaining[f] = 0 /\ TicketPhase[f] = "queueing"
<1>1. /\ requestQueue \in Seq(Request)
      /\ inflight \in Seq([obj : Request, req : RequestRecord])
      /\ completed \in Seq([obj : Request, res : Nat])
  BY Known DEF IInv, AIOTypeOK
<1>2. Received = << >>
  BY DEF Received
<1>3. /\ numRequestsRemaining[f] = 0
      /\ numRequestsRemaining[f] = Len(inflight) + Len(completed) + Len(Received)
  BY DEF IInv, RemainingCounts
<1>4. Len(inflight) \in Nat /\ Len(completed) \in Nat /\ Len(Received) = 0
  BY <1>1, <1>2, LenProperties
<1>5. inflight = << >> /\ completed = << >>
  BY <1>1, <1>3, <1>4, EmptySeq
<1>6. \A r : Owing(r) <=> \E i \in 1 .. Len(requestQueue) : requestQueue[i] = r
  BY <1>2, <1>5 DEF Owing
<1>7. Len(requestQueue) = call.queued
  BY DEF IInv, CallKnows
<1>8. TicketPhase[f] = "queueing"
  BY PhaseOf
<1> QED
  BY <1>1, <1>2, <1>3, <1>5, <1>6, <1>7, <1>8

\* The queue has room: the request is the pool's next, which nobody owes, and
\* its page one that nobody held.
LEMMA ListQueueInv ==
  ASSUME NEW f, File = {f}, AllTaken, TicketFits, IInv,
         NEW page \in Page, ListQueue(page)
  PROVE  IInv'
<1> DEFINE r == NextRequest
           request == [fd |-> f, opcode |-> "AIO_READ", buf |-> page,
                       offset |-> offset[f], nbytes |-> PageSize]
<1>1. /\ call.step = "queue" /\ call.queued < call.blocks
      /\ page \in Page \ pagesHeld /\ pagesHeld' = pagesHeld \union {page}
      /\ read(call.file, page, PageSize)
      /\ call' = [call EXCEPT !.queued = @ + 1]
      /\ UNCHANGED <<aioTicket, inflight, completed, memory,
                     numRequestsRemaining, bufferList, fileBufferPool>>
  BY DEF ListQueue
<1>2. /\ inflight = << >> /\ completed = << >> /\ Received = << >>
      /\ requestQueue \in Seq(Request) /\ Len(requestQueue) = call.queued
      /\ \A x : Owing(x) <=> \E i \in 1 .. Len(requestQueue) : requestQueue[i] = x
      /\ numRequestsRemaining[f] = 0 /\ TicketPhase[f] = "queueing"
  BY <1>1, OnlyQueued
<1>3. /\ call.fn = "readFileBufferList" /\ call.file = f
      /\ bufferList[f].values = << >>
      /\ call.blocks \in 0 .. TicketSize /\ call.queued \in 0 .. call.blocks
      /\ call.events \in 0 .. TicketSize
      /\ call.fileBuffer = NoBuffer
  BY <1>1 DEF IInv, CallKnows
<1>4. /\ r \in Request
      /\ aioRequest' = [aioRequest EXCEPT ![r] = request]
      /\ requestQueue' = Append(requestQueue, r)
  <2>1. Len(requestQueue) < MaxOperations
    BY <1>1, <1>2, <1>3, AIOAssumption DEF TicketFits
  <2>2. Len(requestQueue) # MaxOperations
    BY <2>1, AIOAssumption
  <2> QED
    BY <1>1, <1>3, <2>1, <2>2 DEF read, queueRequest, acquireAIORequest
<1>5. \A i \in 1 .. Len(requestQueue) : requestQueue[i] # r
  BY Known DEF IInv
<1>6. aioRequest \in [Request -> RequestRecord]
  BY Known DEF IInv, AIOTypeOK
<1> HIDE DEF r
<1>7. /\ requestQueue' \in Seq(Request)
      /\ Len(requestQueue') = Len(requestQueue) + 1
      /\ \A i \in 1 .. Len(requestQueue) : requestQueue'[i] = requestQueue[i]
      /\ requestQueue'[Len(requestQueue) + 1] = r
      /\ Len(requestQueue) \in Nat
  BY <1>2, <1>4, AppendProperties, LenProperties
<1>8. /\ call'.step = call.step /\ call'.fn = call.fn /\ call'.file = call.file
      /\ call'.queued = call.queued + 1 /\ call'.blocks = call.blocks
      /\ call'.events = call.events /\ call'.fileBuffer = call.fileBuffer /\ CallRecord'
  <2>1. CallRecord
    BY DEF IInv, CallKnows
  <2> QED
    BY <1>1, <2>1 DEF CallRecord
<1>9. /\ Received' = << >> /\ TicketPhase'[f] = TicketPhase[f]
  BY <1>1, <1>2, <1>8, PhaseOf DEF Received, TicketPhase
<1>10. \A x : Owing(x)' <=> Owing(x) \/ x = r
  <2>1. \A x : Owing(x)' <=> \E i \in 1 .. Len(requestQueue') : requestQueue'[i] = x
    BY <1>1, <1>2, <1>9 DEF Owing
  <2>2. \A i \in 1 .. Len(requestQueue') :
          i \in 1 .. Len(requestQueue) \/ i = Len(requestQueue) + 1
    BY <1>7
  <2>3. /\ \A i \in 1 .. Len(requestQueue) : i \in 1 .. Len(requestQueue')
        /\ Len(requestQueue) + 1 \in 1 .. Len(requestQueue')
    BY <1>7
  <2> QED
    BY <1>2, <1>7, <2>1, <2>2, <2>3
<1>11. /\ ~ Owing(r) /\ aioRequest'[r] = request
       /\ \A x \in Request : Owing(x) => aioRequest'[x] = aioRequest[x]
  BY <1>2, <1>4, <1>5, <1>6
<1>12. Client!IInv'
  <2>1. read(f, page, PageSize)
    BY <1>1, <1>3
  <2> QED
    BY <1>1, <1>2, <1>9, <2>1, ClientQueue DEF IInv
<1>13. CallKnows'
  BY <1>1, <1>2, <1>3, <1>7, <1>8, AIOAssumption DEF CallKnows
<1>14. RemainingCounts' /\ ReceivedOnce'
  BY <1>1, <1>2, <1>8, <1>9 DEF IInv, RemainingCounts, ReceivedOnce
<1>15. PagesOwned'
  <2>1. /\ pagesHeld \subseteq Page
        /\ \A x \in Request : Owing(x) => aioRequest[x].buf \in pagesHeld
        /\ \A x, y \in Request :
             Owing(x) /\ Owing(y) /\ aioRequest[x].buf = aioRequest[y].buf => x = y
        /\ \A p \in pagesHeld : \E x \in Request : Owing(x) /\ aioRequest[x].buf = p
    BY <1>3 DEF IInv, PagesOwned
  <2>2. request.buf = page
    OBVIOUS
  <2>3. bufferList'[f].values = << >>
    BY <1>1, <1>3
  <2> HIDE DEF request
  <2>4. pagesHeld' \subseteq Page
    BY <1>1, <2>1
  <2>5. \A x \in Request : Owing(x)' => aioRequest'[x].buf \in pagesHeld'
    BY <1>1, <1>10, <1>11, <2>1, <2>2
  <2>6. \A x, y \in Request :
          Owing(x)' /\ Owing(y)' /\ aioRequest'[x].buf = aioRequest'[y].buf => x = y
    BY <1>1, <1>10, <1>11, <2>1, <2>2
  <2>7. \A p \in pagesHeld' : \E x \in Request : Owing(x)' /\ aioRequest'[x].buf = p
    BY <1>1, <1>4, <1>10, <1>11, <2>1, <2>2
  <2> QED
    BY <2>3, <2>4, <2>5, <2>6, <2>7 DEF PagesOwned
<1>16. BlocksKnown'
  <2>1. /\ memory = [p \in Page |-> memory[p]]
        /\ \A x \in Request :
             Owing(x) => aioRequest[x].fd = f /\ aioRequest[x].opcode = "AIO_READ"
    BY DEF IInv, BlocksKnown
  <2>2. request.fd = f /\ request.opcode = "AIO_READ"
    OBVIOUS
  <2>3. bufferList'[f].values = << >> /\ inflight' = << >> /\ completed' = << >>
    BY <1>1, <1>2, <1>3
  <2> HIDE DEF request
  <2>4. \A x \in Request :
          Owing(x)' => aioRequest'[x].fd = f /\ aioRequest'[x].opcode = "AIO_READ"
    BY <1>10, <1>11, <2>1, <2>2
  <2> QED
    BY <1>1, <1>9, <2>1, <2>3, <2>4 DEF BlocksKnown
<1>17. ListsKnown'
  BY <1>1 DEF IInv, ListsKnown
<1> QED
  BY <1>12, <1>13, <1>14, <1>15, <1>16, <1>17 DEF IInv

\* The queue is empty afterwards, and the kernel has what it held.
LEMMA ListSubmitInv ==
  ASSUME NEW f, File = {f}, AllTaken, TicketFits, IInv, ListSubmit
  PROVE  IInv'
<1> DEFINE n == Len(requestQueue)
<1>1. /\ call.step = "queue" /\ call.queued = call.blocks
      /\ numRequestsRemaining' = [numRequestsRemaining EXCEPT ![call.file] = call.blocks]
      /\ submit(call.file)
      /\ call' = [call EXCEPT !.step = "events"]
      /\ UNCHANGED <<aioRequestPool, aioRequest, offset, completed, memory,
                     bufferList, fileBufferPool, pagesHeld>>
  BY DEF ListSubmit
<1>2. /\ inflight = << >> /\ completed = << >> /\ Received = << >>
      /\ requestQueue \in Seq(Request) /\ n = call.queued
      /\ \A x : Owing(x) <=> \E i \in 1 .. n : requestQueue[i] = x
      /\ numRequestsRemaining[f] = 0 /\ TicketPhase[f] = "queueing"
  BY <1>1, OnlyQueued
<1>3. /\ call.fn = "readFileBufferList" /\ call.file = f
      /\ bufferList[f].values = << >>
      /\ call.blocks \in 0 .. TicketSize /\ call.blocks > 0
      /\ call.events \in 0 .. TicketSize
      /\ call.fileBuffer = NoBuffer /\ CallRecord
  BY <1>1 DEF IInv, CallKnows
<1>4. n \in Nat /\ n > 0 /\ n = call.blocks /\ n <= TicketSize
  BY <1>1, <1>2, <1>3, AIOAssumption
<1>5. Min({Len(requestQueue), TicketSize}) = n
  <2>1. Len(requestQueue) \in Int /\ TicketSize \in Int
    BY <1>4, AIOAssumption
  <2> QED
    BY <1>4, <2>1, MinOf
<1>6. Accepted(n) = {n}
  BY DEF Accepted, AllTaken
<1>7. requestQueue # << >>
  BY <1>2, <1>4, EmptySeq
<1>8. /\ requestQueue' = SubSeq(requestQueue, n + 1, Len(requestQueue))
      /\ inflight' = inflight \o [i \in 1 .. n |-> Iocb(requestQueue[i])]
  <2> DEFINE m == Min({Len(requestQueue), TicketSize})
  <2>1. /\ requestQueue' = SubSeq(requestQueue, m + 1, Len(requestQueue))
        /\ \E k \in Accepted(m) :
             inflight' = inflight \o [i \in 1 .. k |-> Iocb(requestQueue[i])]
    BY <1>1, <1>7, Zenon DEF submit
  <2>2. m = n
    BY <1>5
  <2> HIDE DEF m, n
  <2> QED
    BY <1>6, <2>1, <2>2
<1>9. requestQueue' = << >>
  <2>1. SubSeq(requestQueue, Len(requestQueue) + 1, Len(requestQueue)) = << >>
    BY <1>2, <1>4
  <2> QED
    BY <1>8, <2>1
<1> HIDE DEF n
<1>10. /\ inflight' = [i \in 1 .. n |-> Iocb(requestQueue[i])]
       /\ Len(inflight') = n
       /\ \A i \in 1 .. n : inflight'[i].obj = requestQueue[i]
       /\ \A i \in 1 .. n : inflight'[i].req = aioRequest[requestQueue[i]]
  <2> DEFINE taken == [i \in 1 .. n |-> Iocb(requestQueue[i])]
  <2>1. Len(taken) = n /\ << >> \o taken = taken
    BY <1>4
  <2>2. /\ \A i \in 1 .. n : taken[i].obj = requestQueue[i]
        /\ \A i \in 1 .. n : taken[i].req = aioRequest[requestQueue[i]]
    BY DEF Iocb
  <2>3. inflight' = << >> \o taken
    BY <1>2, <1>8
  <2> HIDE DEF taken
  <2>4. inflight' = taken
    BY <2>1, <2>3
  <2> QED
    BY <2>1, <2>2, <2>4 DEF taken
<1>11. /\ call'.step = "events" /\ call'.fn = call.fn /\ call'.file = call.file
       /\ call'.queued = call.queued /\ call'.blocks = call.blocks
       /\ call'.events = call.events /\ call'.fileBuffer = call.fileBuffer /\ CallRecord'
  BY <1>1, <1>3 DEF CallRecord
<1>12. /\ numRequestsRemaining' \in [File -> 0 .. TicketSize]
       /\ numRequestsRemaining'[f] = n
  <2>1. numRequestsRemaining \in [File -> 0 .. TicketSize]
    BY DEF IInv, RemainingCounts
  <2> QED
    BY <1>1, <1>3, <1>4, <2>1
<1>13. Received' = << >> /\ TicketPhase'[f] = "submitted"
  BY <1>4, <1>11, <1>12, PhaseOf DEF Received, TicketPhase
<1>14. \A x : Owing(x)' <=> Owing(x)
  <2>1. \A x : Owing(x)' <=> \E i \in 1 .. Len(inflight') : inflight'[i].obj = x
    BY <1>1, <1>2, <1>9, <1>13 DEF Owing
  <2>2. /\ Len(inflight') = n
        /\ \A i \in 1 .. n : inflight'[i].obj = requestQueue[i]
    BY <1>10
  <2>3. \A x : Owing(x)' <=> \E i \in 1 .. n : requestQueue[i] = x
    BY <2>1, <2>2, Zenon
  <2> QED
    BY <1>2, <2>3, Zenon
<1>15. Client!IInv'
  <2>1. submit(f)
    BY <1>1, <1>3
  <2> QED
    BY <1>1, <1>2, <1>7, <1>13, <2>1, ClientSubmit DEF IInv
<1>16. CallKnows'
  <2>1. call.queued \in 0 .. call.blocks
    BY DEF IInv, CallKnows
  <2>2. Len(requestQueue') = 0 /\ bufferList'[f].values = << >>
    BY <1>1, <1>3, <1>9
  <2> QED
    BY <1>1, <1>3, <1>11, <2>1, <2>2 DEF CallKnows
<1>17. RemainingCounts' /\ ReceivedOnce'
  <2>1. Len(completed') = 0 /\ Len(Received') = 0
    BY <1>1, <1>2, <1>13
  <2>2. ReceivedOnce'
    BY <1>13, EmptySeq DEF ReceivedOnce
  <2> QED
    BY <1>4, <1>10, <1>11, <1>12, <2>1, <2>2 DEF RemainingCounts
<1>18. PagesOwned'
  BY <1>1, <1>14 DEF IInv, PagesOwned
<1>19. BlocksKnown'
  <2>1. /\ memory = [p \in Page |-> memory[p]]
        /\ \A x \in Request :
             Owing(x) => aioRequest[x].fd = f /\ aioRequest[x].opcode = "AIO_READ"
    BY DEF IInv, BlocksKnown
  <2>2. \A i \in 1 .. Len(inflight') : inflight'[i].req = aioRequest'[inflight'[i].obj]
    <3> SUFFICES ASSUME NEW i \in 1 .. n
                 PROVE  inflight'[i].req = aioRequest[inflight'[i].obj]
      BY <1>1, <1>10
    <3> QED
      BY <1>10
  <2>3. bufferList'[f].values = << >> /\ completed' = << >>
    BY <1>1, <1>2, <1>3
  <2> QED
    BY <1>1, <1>13, <1>14, <2>1, <2>2, <2>3 DEF BlocksKnown
<1>20. ListsKnown'
  BY <1>1 DEF IInv, ListsKnown
<1> QED
  BY <1>15, <1>16, <1>17, <1>18, <1>19, <1>20 DEF IInv

\* The larger of zero and a number that is not below it.
LEMMA MaxOf ==
  ASSUME NEW a \in Nat
  PROVE  Max({0, a}) = a
BY Client!MaxOfTwo, AIOAssumption DEF Max, Client!Max, FaultKinds, Client!FaultKinds

\* All the events there are become the first of the ticket's list: the list is as
\* long as the ticket has requests.
LEMMA WaitForEventsInv ==
  ASSUME NEW f, File = {f}, AllTaken, IInv, WaitForEvents
  PROVE  IInv'
<1>1. /\ call.step = "events"
      /\ UNCHANGED <<requestQueue, aioRequestPool, aioRequest, offset, inflight,
                     memory, numRequestsRemaining, bufferList, fileBufferPool,
                     pagesHeld>>
  BY DEF WaitForEvents
<1>2. PICK n \in -1 .. TicketSize :
        getEvents(call.file, n) /\ call' = [call EXCEPT !.step = "collect", !.events = n]
  BY DEF WaitForEvents
<1>3. /\ call.fn = "readFileBufferList" /\ call.file = f /\ CallRecord
      /\ bufferList[f].values = << >>
      /\ call.blocks \in 0 .. TicketSize /\ call.queued \in 0 .. call.blocks
      /\ call.fileBuffer = NoBuffer /\ Len(requestQueue) = 0
  BY <1>1 DEF IInv, CallKnows
<1>4. /\ numRequestsRemaining \in [File -> 0 .. TicketSize]
      /\ numRequestsRemaining[f] = Len(inflight) + Len(completed) + Len(Received)
      /\ numRequestsRemaining[f] > 0
  BY <1>1 DEF IInv, RemainingCounts
<1>5. Received = << >> /\ TicketPhase[f] = "submitted"
  BY <1>1, <1>4, PhaseOf DEF Received
<1>6. /\ inflight \in Seq([obj : Request, req : RequestRecord])
      /\ completed \in Seq([obj : Request, res : Nat])
      /\ aioTicket \in [File -> AIOTicket]
      /\ aioTicket[f].numEvents + Len(inflight) + Len(completed)
           = aioTicket[f].numRequests
  BY <1>5, Known DEF IInv, AIOTypeOK
<1>7. /\ Len(inflight) \in Nat /\ Len(completed) \in Nat
      /\ aioTicket[f].numEvents \in Nat /\ aioTicket[f].numRequests \in Nat
      /\ aioTicket[f].numRequests <= TicketSize
  BY <1>6, LenProperties, AIOAssumption DEF AIOTicket
<1>8. numRequestsRemaining[f] = Len(inflight) + Len(completed)
  BY <1>4, <1>5, <1>7
<1>9. /\ aioTicket[f].numEvents < aioTicket[f].numRequests
      /\ aioTicket[f].numRequests >= 1 /\ Len(completed) <= aioTicket[f].numRequests
  BY <1>4, <1>6, <1>7, <1>8
<1>10. call' = [fn |-> call.fn, file |-> call.file, step |-> "collect",
                queued |-> call.queued, blocks |-> call.blocks, events |-> n,
                fileBuffer |-> call.fileBuffer]
  BY <1>2, <1>3 DEF CallRecord
<1>11. /\ n = Len(completed) /\ completed' = << >>
       /\ \A i \in 1 .. n : aioTicket'[f].eventList[i - 1] = completed[i]
  <2>1. getEvents(f, n)
    BY <1>2, <1>3
  <2>0. ~ (aioTicket[f].numRequests < MinEvents)
    BY <1>7, <1>9 DEF MinEvents
  <2>2. CASE completed = << >>
    <3>1. n = 0 /\ UNCHANGED completed
      BY <2>0, <2>1, <2>2, Zenon DEF getEvents
    <3> QED
      BY <2>2, <3>1
  <2>3. CASE completed # << >>
    <3> DEFINE list == [i \in TicketIndex |->
                          IF i < n THEN completed[i + 1] ELSE aioTicket[f].eventList[i]]
               ticket == [aioTicket[f] EXCEPT !.eventList = list, !.numEvents = @ + n]
    <3>1. /\ n = Min({Len(completed), aioTicket[f].numRequests})
          /\ aioTicket' = [aioTicket EXCEPT ![f] = ticket]
          /\ completed' = SubSeq(completed, n + 1, Len(completed))
      BY <2>0, <2>1, <2>3, Zenon DEF getEvents
    <3>2. n = Len(completed)
      <4>1. Len(completed) \in Int /\ aioTicket[f].numRequests \in Int
        BY <1>7
      <4> QED
        BY <1>9, <3>1, <4>1, MinOf
    <3>3. completed' = << >>
      <4>1. SubSeq(completed, Len(completed) + 1, Len(completed)) = << >>
        BY <1>6, <1>7
      <4> QED
        BY <3>1, <3>2, <4>1
    <3>4. \A i \in 1 .. n : list[i - 1] = completed[i]
      <4> SUFFICES ASSUME NEW i \in 1 .. n
                   PROVE  list[i - 1] = completed[i]
        OBVIOUS
      <4>1. i - 1 \in TicketIndex /\ i - 1 < n /\ (i - 1) + 1 = i
        BY <1>7, <1>9, <3>2, AIOAssumption DEF TicketIndex
      <4> QED
        BY <4>1
    <3> HIDE DEF list
    <3>5. ticket.eventList = list
      BY <1>6 DEF AIOTicket
    <3> HIDE DEF ticket
    <3>6. aioTicket'[f].eventList = list
      BY <1>6, <3>1, <3>5
    <3> QED
      BY <3>2, <3>3, <3>4, <3>6
  <2> QED
    BY <2>2, <2>3
<1>12. Received' = completed
  <2>1. Received' = [i \in 1 .. n |-> aioTicket'[f].eventList[i - 1]]
    BY <1>3, <1>10 DEF Received
  <2>2. completed = [i \in 1 .. n |-> completed[i]]
    BY <1>6, <1>11
  <2>3. [i \in 1 .. n |-> aioTicket'[f].eventList[i - 1]] = [i \in 1 .. n |-> completed[i]]
    BY <1>11
  <2> QED
    BY <2>1, <2>2, <2>3
<1>13. TicketPhase'[f] = TicketPhase[f]
  BY <1>1, <1>4, <1>5, <1>10 DEF TicketPhase
<1>14. \A r : Owing(r)' <=> Owing(r)
  BY <1>1, <1>5, <1>11, <1>12 DEF Owing
<1>15. Client!IInv'
  <2>1. getEvents(f, n)
    BY <1>2, <1>3
  <2> QED
    BY <1>1, <1>5, <1>9, <1>13, <2>1, ClientGetEvents DEF IInv
<1>16. CallKnows'
  <2>1. n \in 0 .. TicketSize
    BY <1>7, <1>9, <1>11, AIOAssumption
  <2> QED
    BY <1>1, <1>3, <1>10, <2>1 DEF CallKnows, CallRecord
<1>17. RemainingCounts'
  <2>1. numRequestsRemaining'[f] = Len(inflight') + Len(completed') + Len(Received')
    BY <1>1, <1>7, <1>8, <1>11, <1>12
  <2> QED
    BY <1>1, <1>4, <1>10, <2>1 DEF RemainingCounts
<1>18. ReceivedOnce'
  <2>1. /\ \A i, j \in 1 .. Len(completed) :
             completed[i].obj = completed[j].obj => i = j
        /\ \A i \in 1 .. Len(inflight), j \in 1 .. Len(completed) :
             inflight[i].obj # completed[j].obj
    BY Known DEF IInv
  <2> QED
    BY <1>1, <1>6, <1>11, <1>12, <2>1 DEF ReceivedOnce
<1>19. PagesOwned'
  BY <1>1, <1>14 DEF IInv, PagesOwned
<1>20. BlocksKnown'
  <2>1. /\ memory = [p \in Page |-> memory[p]]
        /\ \A i \in 1 .. Len(inflight) : inflight[i].req = aioRequest[inflight[i].obj]
        /\ \A r \in Request :
             Owing(r) => aioRequest[r].fd = f /\ aioRequest[r].opcode = "AIO_READ"
        /\ \A i \in 1 .. Len(completed) : Answered(f, completed[i])
    BY DEF IInv, BlocksKnown
  <2>2. \A i \in 1 .. Len(Received') : Answered(f, Received[i])'
    BY <1>1, <1>12, <2>1 DEF Answered, Holds
  <2>3. bufferList'[f].values = << >> /\ completed' = << >>
    BY <1>1, <1>3, <1>11
  <2>4. \A r \in Request :
          Owing(r)' => aioRequest'[r].fd = f /\ aioRequest'[r].opcode = "AIO_READ"
    BY <1>1, <1>14, <2>1
  <2> QED
    BY <1>1, <2>1, <2>2, <2>3, <2>4 DEF BlocksKnown
<1>21. ListsKnown'
  BY <1>1 DEF IInv, ListsKnown
<1> QED
  BY <1>15, <1>16, <1>17, <1>18, <1>19, <1>20, <1>21 DEF IInv

\* What a list that was empty is after these buffers were added to it.
Added(start, list, s) ==
    start \in BufferList /\ start.values = << >> =>
      /\ list \in BufferList
      /\ list.values = s
      /\ s # << >> => list.fileOffset = s[1].fileOffset

Adds == INSTANCE Folding WITH op <- addBuffer, Inv <- Added

\* One buffer more.
LEMMA OneAdded ==
  ASSUME NEW start, NEW list, NEW s \in Seq(Buffer), NEW b \in Buffer,
         Added(start, list, s)
  PROVE  Added(start, addBuffer(list, b), Append(s, b))
<1> SUFFICES ASSUME start \in BufferList, start.values = << >>
             PROVE  /\ addBuffer(list, b) \in BufferList
                    /\ addBuffer(list, b).values = Append(s, b)
                    /\ addBuffer(list, b).fileOffset = Append(s, b)[1].fileOffset
  BY DEF Added
<1>1. /\ list \in BufferList /\ list.values = s
      /\ s # << >> => list.fileOffset = s[1].fileOffset
  BY DEF Added
<1>2. /\ Append(s, b) \in Seq(Buffer)
      /\ s = << >> => Append(s, b)[1] = b
      /\ s # << >> => Append(s, b)[1] = s[1]
  <2>1. /\ Append(s, b) \in Seq(Buffer) /\ Len(s) \in Nat
        /\ \A i \in 1 .. Len(s) : Append(s, b)[i] = s[i]
        /\ Append(s, b)[Len(s) + 1] = b
    BY AppendProperties, LenProperties
  <2>2. /\ s = << >> => Len(s) + 1 = 1
        /\ s # << >> => 1 \in 1 .. Len(s)
    BY <2>1, EmptySeq
  <2> QED
    BY <2>1, <2>2
<1>3. /\ list.numBytes \in Nat /\ b.numBytes \in Nat /\ b.fileOffset \in Nat
      /\ list.fileOffset \in Nat
  BY <1>1 DEF BufferList, Buffer
<1> DEFINE bytes == list.numBytes + b.numBytes
           from == IF s = << >> THEN b.fileOffset ELSE list.fileOffset
           longer == Append(s, b)
<1>4. addBuffer(list, b) = [values |-> longer, numBytes |-> bytes, fileOffset |-> from]
  BY <1>1 DEF addBuffer
<1>5. bytes \in Nat /\ from \in Nat /\ longer \in Seq(Buffer) /\ longer[1].fileOffset = from
  BY <1>1, <1>2, <1>3
<1>6. longer = Append(s, b)
  OBVIOUS
<1> HIDE DEF bytes, from, longer
<1> QED
  BY <1>4, <1>5, <1>6 DEF BufferList

\* All of them.
LEMMA AllAdded ==
  ASSUME NEW list \in BufferList, list.values = << >>, NEW s \in Seq(Buffer)
  PROVE  /\ FoldLeft(addBuffer, list, s) \in BufferList
         /\ FoldLeft(addBuffer, list, s).values = s
         /\ s # << >> => FoldLeft(addBuffer, list, s).fileOffset = s[1].fileOffset
<1>1. Added(list, list, << >>)
  BY DEF Added
<1>2. \A a, t, e : (t \in Seq(Buffer) /\ e \in Buffer /\ Added(list, a, t))
                      => Added(list, addBuffer(a, e), Append(t, e))
  BY OneAdded
<1>3. \A t \in Seq(Buffer) : Added(list, Adds!Folded(list, t), t)
  BY <1>1, <1>2, Adds!FoldLeftInduction
<1>4. Adds!Folded(list, s) = FoldLeft(addBuffer, list, s)
  BY DEF Adds!Folded, Adds!FoldLeft, FoldLeft, Adds!MapThenFoldSet, MapThenFoldSet,
         Adds!Max, Max
<1> QED
  BY <1>3, <1>4 DEF Added

\* The pool after n buffers were taken when none was in use.
LEMMA PoolAcquired ==
  ASSUME NEW pool \in BufferPool, NEW n \in Nat, pool.numInUse = 0
  PROVE  Acquired(pool, n) \in BufferPool /\ Acquired(pool, n).numInUse = n
<1> DEFINE reused == Min({n, pool.numFree})
<1>1. pool.numFree \in Nat /\ pool.numAlloc \in Nat
  BY DEF BufferPool
<1>2. reused = IF n <= pool.numFree THEN n ELSE pool.numFree
  <2>1. n \in Int /\ pool.numFree \in Int
    BY <1>1
  <2> QED
    BY <2>1, MinOf
<1>3. Acquired(pool, n) = [numAlloc |-> pool.numAlloc + n - reused,
                           numFree |-> pool.numFree - reused, numInUse |-> 0 + n]
  BY DEF Acquired
<1> HIDE DEF reused
<1>4. pool.numAlloc + n - reused \in Nat /\ pool.numFree - reused \in Nat /\ 0 + n = n
  BY <1>1, <1>2
<1> QED
  BY <1>3, <1>4 DEF BufferPool

\* The buffer of an event says where its page was read from.
LEMMA BufferOf ==
  ASSUME NEW event \in [obj : Request, res : Nat],
         aioRequest \in [Request -> RequestRecord]
  PROVE  /\ BufferOfEvent(event) \in Buffer
         /\ BufferOfEvent(event).buffer = aioRequest[event.obj].buf
         /\ BufferOfEvent(event).fileOffset = aioRequest[event.obj].offset
         /\ BufferOfEvent(event).numBytes = event.res
<1> DEFINE page == aioRequest[event.obj].buf
           place == aioRequest[event.obj].offset
<1>1. page \in Page \union {NULL} /\ place \in Nat /\ event.res \in Nat
  BY DEF RequestRecord
<1>2. BufferOfEvent(event) = [buffer |-> page, fileOffset |-> place, dataOffset |-> 0,
                              numBytes |-> event.res]
  <2> DEFINE new == NewFileBuffer(page)
             placed == [new EXCEPT !.fileOffset = place]
  <2>1. new = [buffer |-> page, fileOffset |-> 0, dataOffset |-> 0, numBytes |-> 0]
    BY DEF NewFileBuffer
  <2>2. BufferOfEvent(event) = [placed EXCEPT !.numBytes = event.res]
    BY DEF BufferOfEvent
  <2> HIDE DEF new, page, place
  <2>3. placed = [buffer |-> page, fileOffset |-> place, dataOffset |-> 0, numBytes |-> 0]
    BY <2>1
  <2> HIDE DEF placed
  <2> QED
    BY <2>2, <2>3
<1> HIDE DEF page, place
<1>3. /\ BufferOfEvent(event) \in Buffer
      /\ BufferOfEvent(event).buffer = page
      /\ BufferOfEvent(event).fileOffset = place
      /\ BufferOfEvent(event).numBytes = event.res
  BY <1>1, <1>2 DEF Buffer
<1> QED
  BY <1>3 DEF page, place

\* Each event that was received becomes a buffer of the list, the pages stay where
\* they are, and the ticket is cleaned up with its last event.
LEMMA ListEndInv ==
  ASSUME NEW f, File = {f}, AllTaken, TicketFits, IInv, ListEnd
  PROVE  IInv'
<1> DEFINE n == call.events
           buffers == BuffersOf(aioTicket[f], n)
<1>1. /\ call.step = "collect" /\ call' = Idle
      /\ UNCHANGED <<requestQueue, aioRequest, aioTicket, offset, inflight,
                     completed, memory, pagesHeld>>
  BY DEF ListEnd
<1>2. /\ call.file = f /\ bufferList[f].values = << >>
      /\ n \in 0 .. TicketSize /\ Len(requestQueue) = 0
  BY <1>1 DEF IInv, CallKnows
<1>3. n \in Nat /\ Max({0, n}) = n
  BY <1>2, MaxOf, AIOAssumption
<1>4. /\ numRequestsRemaining' = [numRequestsRemaining EXCEPT ![f] = StillRemaining(f)]
      /\ bufferList' = [bufferList EXCEPT ![f] = FoldLeft(addBuffer, @, buffers)]
      /\ fileBufferPool' = Acquired(fileBufferPool, Len(buffers))
      /\ cleanUpAIOTicket(f)
  <2> HIDE DEF n
  <2>1. BuffersOf(aioTicket[f], Max({0, call.events})) = BuffersOf(aioTicket[f], n)
    BY <1>3 DEF n
  <2> QED
    BY <1>2, <2>1 DEF ListEnd
<1>5. /\ Received = [i \in 1 .. n |-> aioTicket[f].eventList[i - 1]]
      /\ Received \in Seq([obj : Request, res : Nat])
      /\ \A i, j \in 1 .. Len(Received) : Received[i].obj = Received[j].obj => i = j
      /\ \A i \in 1 .. Len(Received) :
           /\ \A j \in 1 .. Len(inflight) : inflight[j].obj # Received[i].obj
           /\ \A j \in 1 .. Len(completed) : completed[j].obj # Received[i].obj
  BY <1>1, <1>2 DEF IInv, ReceivedOnce, Received
<1>6. /\ Len(Received) = n /\ \A i \in 1 .. n : Received[i] \in [obj : Request, res : Nat]
  <2> HIDE DEF n
  <2>1. Len([i \in 1 .. n |-> aioTicket[f].eventList[i - 1]]) = n
    BY <1>3
  <2>2. Len(Received) = n
    BY <1>5, <2>1
  <2> QED
    BY <1>5, <2>2, ElementOfSeq
<1>7. Len(buffers) = n /\ \A i \in 1 .. n : buffers[i] = BufferOfEvent(Received[i])
  BY <1>3, <1>5 DEF BuffersOf
<1>8. /\ aioRequest \in [Request -> RequestRecord] /\ requestQueue \in Seq(Request)
      /\ inflight \in Seq([obj : Request, req : RequestRecord])
      /\ completed \in Seq([obj : Request, res : Nat])
      /\ aioTicket \in [File -> AIOTicket]
  BY Known DEF IInv, AIOTypeOK
<1>9. \A i \in 1 .. n :
        /\ buffers[i] \in Buffer
        /\ buffers[i].buffer = aioRequest[Received[i].obj].buf
        /\ buffers[i].fileOffset = aioRequest[Received[i].obj].offset
        /\ buffers[i].numBytes = Received[i].res
  BY <1>6, <1>7, <1>8, BufferOf
<1>10. buffers \in Seq(Buffer)
  <2>1. buffers = [i \in 1 .. n |-> buffers[i]]
    BY DEF BuffersOf
  <2> HIDE DEF buffers, n
  <2>2. buffers \in [1 .. n -> Buffer]
    BY <1>9, <2>1
  <2> QED
    BY <1>3, <2>2, SeqDef
<1> HIDE DEF buffers
<1>11. /\ bufferList' \in [File -> BufferList]
       /\ bufferList'[f].values = buffers
       /\ buffers # << >> => bufferList'[f].fileOffset = buffers[1].fileOffset
  <2>1. bufferList \in [File -> BufferList]
    BY DEF IInv, ListsKnown
  <2>2. /\ FoldLeft(addBuffer, bufferList[f], buffers) \in BufferList
        /\ FoldLeft(addBuffer, bufferList[f], buffers).values = buffers
        /\ buffers # << >> => FoldLeft(addBuffer, bufferList[f], buffers).fileOffset
                                = buffers[1].fileOffset
    BY <1>2, <1>10, <2>1, AllAdded
  <2> QED
    BY <1>4, <2>1, <2>2
<1>12. Received' = << >> /\ call'.step = "idle"
  BY <1>1 DEF Received, Idle
<1>13. /\ numRequestsRemaining \in [File -> 0 .. TicketSize]
       /\ numRequestsRemaining[f] = Len(inflight) + Len(completed) + n
       /\ numRequestsRemaining[f] > 0 /\ TicketPhase[f] = "submitted"
       /\ Len(inflight) \in Nat /\ Len(completed) \in Nat
  <2>1. /\ numRequestsRemaining \in [File -> 0 .. TicketSize]
        /\ numRequestsRemaining[f] = Len(inflight) + Len(completed) + Len(Received)
        /\ numRequestsRemaining[f] > 0
    BY <1>1 DEF IInv, RemainingCounts
  <2> QED
    BY <1>1, <1>6, <1>8, <2>1, LenProperties DEF TicketPhase
<1>14. /\ numRequestsRemaining' \in [File -> 0 .. TicketSize]
       /\ numRequestsRemaining'[f] = Len(inflight) + Len(completed)
  <2> DEFINE left == Len(inflight) + Len(completed)
  <2>1. left \in Nat /\ left <= TicketSize /\ left < Word /\ Word \in Nat /\ Word > 0
    BY <1>3, <1>13, AIOAssumption, FileBufferListAssumption DEF TicketFits
  <2>2. numRequestsRemaining[f] - call.events = left
    BY <1>3, <1>13
  <2> HIDE DEF left
  <2>3. left % Word = left
    BY <2>1
  <2>4. StillRemaining(f) = left
    BY <2>2, <2>3 DEF StillRemaining, Unsigned
  <2>5. left \in 0 .. TicketSize
    BY <2>1, AIOAssumption
  <2> QED
    BY <1>4, <1>13, <2>4, <2>5 DEF left
<1>15. \A r : Owing(r) <=> Owing(r)' \/ \E i \in 1 .. n : Received[i].obj = r
  BY <1>1, <1>6, <1>12 DEF Owing
<1>16. \A i \in 1 .. n : \A r : r = Received[i].obj => Owing(r) /\ ~ Owing(r)'
  <2>1. \A r : Owing(r)' <=> \/ \E i \in 1 .. Len(inflight) : inflight[i].obj = r
                             \/ \E i \in 1 .. Len(completed) : completed[i].obj = r
    BY <1>1, <1>2, <1>12 DEF Owing
  <2> HIDE DEF n
  <2>2. ASSUME NEW i \in 1 .. n, NEW r, r = Received[i].obj
        PROVE  Owing(r) /\ ~ Owing(r)'
    <3>1. i \in 1 .. Len(Received)
      BY <1>6
    <3>2. /\ \A j \in 1 .. Len(inflight) : inflight[j].obj # Received[i].obj
          /\ \A j \in 1 .. Len(completed) : completed[j].obj # Received[i].obj
      BY <1>5, <3>1
    <3>3. Owing(r)
      BY <2>2, <3>1 DEF Owing
    <3> QED
      BY <2>1, <2>2, <3>2, <3>3
  <2> QED
    BY <2>2
<1>17. Client!IInv'
  <2>1. /\ aioTicket[f].numEvents + Len(inflight) + Len(completed)
             = aioTicket[f].numRequests
        /\ aioTicket[f].numEvents \in Nat /\ aioTicket[f].numRequests \in Nat
    BY <1>8, <1>13, Known, AIOAssumption DEF IInv, AIOTicket
  <2>2. CASE numRequestsRemaining'[f] > 0
    <3>1. aioTicket[f].numEvents # aioTicket[f].numRequests
      BY <1>13, <1>14, <2>1, <2>2
    <3>2. UNCHANGED aioVars
      BY <1>1, <1>4, <3>1 DEF cleanUpAIOTicket, aioVars
    <3>3. TicketPhase'[f] = TicketPhase[f]
      BY <1>12, <1>13, <2>2 DEF TicketPhase
    <3> QED
      BY <3>2, <3>3, ClientStutters DEF IInv
  <2>3. CASE ~ (numRequestsRemaining'[f] > 0)
    <3>1. aioTicket[f].numEvents >= aioTicket[f].numRequests
      BY <1>13, <1>14, <2>1, <2>3
    <3>2. TicketPhase'[f] = "idle"
      BY <1>12, <2>3 DEF TicketPhase
    <3> QED
      BY <1>1, <1>4, <1>13, <3>1, <3>2, ClientCleanUp DEF IInv
  <2> QED
    BY <2>2, <2>3
<1>18. CallKnows'
  BY <1>1, <1>2, <1>12, AIOAssumption DEF CallKnows, CallRecord, Idle
<1>19. RemainingCounts' /\ ReceivedOnce'
  <2>1. Len(<< >>) = 0
    OBVIOUS
  <2>2. numRequestsRemaining'[f] = Len(inflight') + Len(completed') + Len(Received')
    BY <1>1, <1>12, <1>13, <1>14, <2>1
  <2>3. ReceivedOnce'
    BY <1>12, EmptySeq DEF ReceivedOnce
  <2> QED
    BY <1>12, <1>14, <2>2, <2>3 DEF RemainingCounts
<1>20. PagesOwned'
  <2>1. /\ pagesHeld \subseteq Page
        /\ \A r \in Request : Owing(r) => aioRequest[r].buf \in pagesHeld
        /\ \A r, s \in Request :
             Owing(r) /\ Owing(s) /\ aioRequest[r].buf = aioRequest[s].buf => r = s
        /\ \A p \in pagesHeld : \E r \in Request : Owing(r) /\ aioRequest[r].buf = p
    BY <1>2 DEF IInv, PagesOwned
  <2>2. \A i \in 1 .. n : Received[i].obj \in Request /\ Owing(Received[i].obj)
    BY <1>6, <1>16
  <2>3. \A i \in 1 .. n : buffers[i].buffer \in pagesHeld
    BY <1>9, <2>1, <2>2
  <2>4. \A i \in 1 .. n : \A r \in Request : Owing(r)' => aioRequest[r].buf # buffers[i].buffer
    <3> SUFFICES ASSUME NEW i \in 1 .. n, NEW r \in Request, Owing(r)'
                 PROVE  aioRequest[r].buf # buffers[i].buffer
      OBVIOUS
    <3>1. PICK s \in Request : s = Received[i].obj
      BY <2>2
    <3>2. Owing(s) /\ ~ Owing(s)'
      BY <1>16, <3>1
    <3>3. buffers[i].buffer = aioRequest[s].buf
      BY <1>9, <3>1
    <3>4. Owing(r) /\ r # s
      BY <1>15, <3>2
    <3> QED
      BY <2>1, <3>2, <3>3, <3>4
  <2>5. \A i, j \in 1 .. n : buffers[i].buffer = buffers[j].buffer => i = j
    <3> SUFFICES ASSUME NEW i \in 1 .. n, NEW j \in 1 .. n,
                        buffers[i].buffer = buffers[j].buffer
                 PROVE  i = j
      OBVIOUS
    <3>1. /\ buffers[i].buffer = aioRequest[Received[i].obj].buf
          /\ buffers[j].buffer = aioRequest[Received[j].obj].buf
      BY <1>9
    <3>2. Received[i].obj = Received[j].obj
      <4> DEFINE r == Received[i].obj
                 s == Received[j].obj
      <4>1. r \in Request /\ s \in Request /\ Owing(r) /\ Owing(s)
        BY <2>2
      <4>2. aioRequest[r].buf = aioRequest[s].buf
        BY <3>1
      <4> HIDE DEF r, s
      <4>3. r = s
        BY <2>1, <4>1, <4>2
      <4> QED
        BY <4>3 DEF r, s
    <3>3. i \in 1 .. Len(Received) /\ j \in 1 .. Len(Received)
      BY <1>6
    <3> QED
      BY <1>5, <3>2, <3>3
  <2>6. \A p \in pagesHeld : \/ \E r \in Request : Owing(r)' /\ aioRequest[r].buf = p
                             \/ \E i \in 1 .. n : buffers[i].buffer = p
    BY <1>9, <1>15, <2>1
  <2>7. \A r \in Request : Owing(r)' => Owing(r)
    BY <1>15
  <2> QED
    BY <1>1, <1>7, <1>11, <2>1, <2>3, <2>4, <2>5, <2>6, <2>7 DEF PagesOwned
<1>21. BlocksKnown'
  <2>1. /\ memory = [p \in Page |-> memory[p]]
        /\ \A i \in 1 .. Len(inflight) : inflight[i].req = aioRequest[inflight[i].obj]
        /\ \A r \in Request :
             Owing(r) => aioRequest[r].fd = f /\ aioRequest[r].opcode = "AIO_READ"
        /\ \A i \in 1 .. Len(completed) : Answered(f, completed[i])
        /\ \A i \in 1 .. Len(Received) : Answered(f, Received[i])
    BY DEF IInv, BlocksKnown
  <2>2. \A i \in 1 .. n :
          Holds(buffers[i].buffer, f, buffers[i].fileOffset, buffers[i].numBytes)
    BY <1>6, <1>9, <2>1 DEF Answered
  <2>3. \A i \in 1 .. Len(completed') : Answered(f, completed[i])'
    BY <1>1, <2>1 DEF Answered, Holds
  <2>4. \A i \in 1 .. Len(bufferList'[f].values) :
          LET b == bufferList'[f].values[i]
          IN  memory'[b.buffer] = [file |-> f, offset |-> b.fileOffset, length |-> b.numBytes]
    BY <1>1, <1>7, <1>11, <2>2 DEF Holds
  <2>5. \A r \in Request :
          Owing(r)' => aioRequest'[r].fd = f /\ aioRequest'[r].opcode = "AIO_READ"
    BY <1>1, <1>15, <2>1
  <2> QED
    BY <1>1, <1>12, <2>1, <2>3, <2>4, <2>5 DEF BlocksKnown, Holds
<1>22. ListsKnown'
  <2>1. fileBufferPool \in BufferPool /\ fileBufferPool.numInUse = 0
    BY <1>2 DEF IInv, ListsKnown
  <2>2. fileBufferPool' \in BufferPool /\ fileBufferPool'.numInUse = n
    BY <1>3, <1>4, <1>7, <2>1, PoolAcquired
  <2> QED
    BY <1>7, <1>11, <2>2 DEF ListsKnown
<1> QED
  BY <1>17, <1>18, <1>19, <1>20, <1>21, <1>22 DEF IInv


-------------------------------------------------------------------------------
(* Looking data up.                                                        *)

\* A list that has data from the position on begins at or before it: the buffer
\* the search stops at does.
LEMMA StartIs ==
  ASSUME NEW list \in BufferList, NEW position \in Nat, list.values # << >>,
         list.values[1].fileOffset <= position
  PROVE  /\ StartIndex(list, position) \in 1 .. Len(list.values)
         /\ list.values[StartIndex(list, position)].fileOffset <= position
<1> DEFINE n == Len(list.values)
           after == {i \in 2 .. n : list.values[i].fileOffset > position}
<1>1. list.values \in Seq(Buffer) /\ n \in Nat /\ n >= 1
  BY LenProperties, EmptySeq DEF BufferList
<1>2. ASSUME NEW i \in 1 .. n
      PROVE  list.values[i].fileOffset \in Nat
  <2>1. list.values[i] \in Buffer
    BY <1>1, ElementOfSeq
  <2> QED
    BY <2>1 DEF Buffer
<1>3. StartIndex(list, position) = IF after = {} THEN n ELSE Min(after) - 1
  BY DEF StartIndex
<1>4. CASE after = {}
  <2>1. n \in 1 .. n /\ (n = 1 \/ n \in 2 .. n)
    <3> HIDE DEF n
    <3> QED
      BY <1>1
  <2>2. list.values[n].fileOffset <= position
    BY <1>2, <1>4, <2>1
  <2> QED
    BY <1>3, <1>4, <2>1, <2>2
<1>5. CASE after # {}
  <2> DEFINE m == Min(after)
  <2>1. after \in SUBSET Nat
    OBVIOUS
  <2>2. \E i \in after : \A j \in after : i <= j
    BY <1>5, <2>1, Adds!LeastExists
  <2>3. m \in after /\ \A j \in after : m <= j
    BY <2>2 DEF Min
  <2> HIDE DEF m
  <2>4. m - 1 \in 1 .. n /\ (m - 1 = 1 \/ m - 1 \in 2 .. n) /\ m - 1 \notin after
    BY <1>1, <2>1, <2>3
  <2>5. list.values[m - 1].fileOffset <= position
    BY <1>2, <2>4
  <2> QED
    BY <1>3, <1>5, <2>4, <2>5 DEF m
<1> QED
  BY <1>4, <1>5

\* Nothing but a place within a buffer changes.
LEMMA FoundIs ==
  ASSUME NEW list \in BufferList, NEW position \in Nat, list.values # << >>,
         list.values[1].fileOffset <= position
  PROVE  /\ Found(list, position) \in BufferList
         /\ Found(list, position).fileOffset = list.fileOffset
         /\ Len(Found(list, position).values) = Len(list.values)
         /\ \A i \in 1 .. Len(list.values) :
              /\ Found(list, position).values[i].buffer = list.values[i].buffer
              /\ Found(list, position).values[i].fileOffset = list.values[i].fileOffset
              /\ Found(list, position).values[i].numBytes = list.values[i].numBytes
<1> DEFINE n == Len(list.values)
           c == StartIndex(list, position)
           place == position - list.values[c].fileOffset
           there == [list.values[c] EXCEPT !.dataOffset = place]
           values == [list.values EXCEPT ![c] = there]
<1>1. list.values \in Seq(Buffer) /\ n \in Nat
  BY LenProperties DEF BufferList
<1>2. c \in 1 .. n /\ list.values[c].fileOffset <= position
  BY StartIs
<1>3. Found(list, position) = [list EXCEPT !.values = values]
  BY DEF Found
<1>4. list.values[c] \in Buffer
  BY <1>1, <1>2, ElementOfSeq
<1> HIDE DEF c
<1>5. place \in Nat
  BY <1>2, <1>4 DEF Buffer
<1> HIDE DEF place
<1>6. /\ there \in Buffer
      /\ there.buffer = list.values[c].buffer
      /\ there.fileOffset = list.values[c].fileOffset
      /\ there.numBytes = list.values[c].numBytes
  BY <1>4, <1>5 DEF Buffer
<1> HIDE DEF there
<1>7. /\ values \in Seq(Buffer) /\ Len(values) = n
      /\ \A i \in 1 .. n : values[i] = IF i = c THEN there ELSE list.values[i]
  BY <1>1, <1>2, <1>6, ExceptSeq
<1> HIDE DEF values
<1>8. /\ Found(list, position) \in BufferList
      /\ Found(list, position).fileOffset = list.fileOffset
      /\ Found(list, position).values = values
  BY <1>3, <1>7 DEF BufferList
<1> QED
  BY <1>6, <1>7, <1>8

\* The pages of the buffers are where they were.
LEMMA LookupInv ==
  ASSUME NEW f, File = {f}, IInv, NEW position \in Nat, Lookup(f, position)
  PROVE  IInv'
<1> DEFINE n == Len(bufferList[f].values)
<1>1. /\ call = Idle /\ containsData(bufferList[f], position, 1)
      /\ bufferList' = [bufferList EXCEPT ![f] = Found(@, position)]
      /\ UNCHANGED <<aioVars, numRequestsRemaining, fileBufferPool, pagesHeld, call>>
  BY DEF Lookup
<1>2. TicketPhase' = TicketPhase /\ Received' = Received
  BY <1>1 DEF TicketPhase, Received, aioVars
<1>3. Still
  BY <1>1, <1>2 DEF aioVars, Still
<1>4. Client!IInv'
  BY <1>1, <1>2, ClientStutters DEF IInv
<1>5. \A r : Owing(r)' <=> Owing(r)
  BY <1>3, StillOwing
<1>6. /\ bufferList \in [File -> BufferList] /\ bufferList[f] \in BufferList
      /\ fileBufferPool \in BufferPool /\ fileBufferPool.numInUse = n
      /\ bufferList[f].values # << >>
      /\ bufferList[f].fileOffset = bufferList[f].values[1].fileOffset
      /\ bufferList[f].fileOffset <= position
  BY <1>1 DEF IInv, ListsKnown, containsData
<1>7. /\ bufferList' \in [File -> BufferList]
      /\ bufferList'[f].fileOffset = bufferList[f].fileOffset
      /\ Len(bufferList'[f].values) = n
      /\ \A i \in 1 .. n :
           /\ bufferList'[f].values[i].buffer = bufferList[f].values[i].buffer
           /\ bufferList'[f].values[i].fileOffset = bufferList[f].values[i].fileOffset
           /\ bufferList'[f].values[i].numBytes = bufferList[f].values[i].numBytes
  <2> DEFINE found == Found(bufferList[f], position)
  <2>1. /\ found \in BufferList /\ found.fileOffset = bufferList[f].fileOffset
        /\ Len(found.values) = n
        /\ \A i \in 1 .. n :
             /\ found.values[i].buffer = bufferList[f].values[i].buffer
             /\ found.values[i].fileOffset = bufferList[f].values[i].fileOffset
             /\ found.values[i].numBytes = bufferList[f].values[i].numBytes
    BY <1>6, FoundIs
  <2>2. bufferList'[f] = found
    BY <1>1, <1>6
  <2>3. bufferList' \in [File -> BufferList]
    BY <1>1, <1>6, <2>1
  <2> HIDE DEF found
  <2> QED
    BY <2>1, <2>2, <2>3
<1>8. n \in Nat /\ n >= 1
  <2>1. bufferList[f].values \in Seq(Buffer)
    BY <1>6 DEF BufferList
  <2> QED
    BY <1>6, <2>1, LenProperties, EmptySeq
<1>9. (RemainingCounts /\ ReceivedOnce)'
  BY <1>1, <1>2 DEF IInv, RemainingCounts, ReceivedOnce, aioVars
<1>10. CallKnows'
  <2>1. call.step = "idle" /\ UNCHANGED <<call, requestQueue>>
    BY <1>1 DEF Idle, aioVars
  <2> QED
    BY <2>1 DEF IInv, CallKnows, CallRecord
<1>11. PagesOwned'
  <2>1. UNCHANGED <<pagesHeld, aioRequest>>
    BY <1>1 DEF aioVars
  <2>2. PagesOwned
    BY DEF IInv
  <2> QED
    BY <1>5, <1>7, <2>1, <2>2 DEF PagesOwned
<1>12. BlocksKnown'
  <2>1. UNCHANGED <<aioRequest, inflight, completed, memory>>
    BY <1>1 DEF aioVars
  <2>2. /\ memory = [p \in Page |-> memory[p]]
        /\ \A i \in 1 .. Len(inflight) : inflight[i].req = aioRequest[inflight[i].obj]
        /\ \A r \in Request :
             Owing(r) => aioRequest[r].fd = f /\ aioRequest[r].opcode = "AIO_READ"
        /\ \A i \in 1 .. Len(completed) : Answered(f, completed[i])
        /\ \A i \in 1 .. Len(Received) : Answered(f, Received[i])
        /\ \A i \in 1 .. n :
             Holds(bufferList[f].values[i].buffer, f, bufferList[f].values[i].fileOffset,
                   bufferList[f].values[i].numBytes)
    BY DEF IInv, BlocksKnown
  <2>3. \A i \in 1 .. n :
          memory'[bufferList'[f].values[i].buffer]
            = [file |-> f, offset |-> bufferList'[f].values[i].fileOffset,
               length |-> bufferList'[f].values[i].numBytes]
    BY <1>7, <2>1, <2>2 DEF Holds
  <2> QED
    BY <1>2, <1>5, <1>7, <2>1, <2>2, <2>3 DEF BlocksKnown, Answered, Holds
<1>13. ListsKnown'
  <2>1. 1 \in 1 .. n
    BY <1>8
  <2> QED
    BY <1>1, <1>6, <1>7, <2>1 DEF ListsKnown
<1> QED
  BY <1>4, <1>9, <1>10, <1>11, <1>12, <1>13 DEF IInv

-------------------------------------------------------------------------------
(* The kernel.                                                             *)

\* A completion writes one page: that of a request which is owed still, and of no
\* other, and no caller has it.
LEMMA KernelInv ==
  ASSUME NEW f, File = {f}, AllTaken, IInv, Kernel
  PROVE  IInv'
<1>1. PICK c \in 1 .. Len(inflight) : Complete(c)
  BY DEF Kernel, KernelNext
<1> DEFINE r == inflight[c].obj
           event == [obj |-> r, res |-> Transferred(inflight[c].req)]
           page == aioRequest[r].buf
           from(i) == IF i < c THEN i ELSE i + 1
<1>2. /\ inflight' = RemoveAt(inflight, c)
      /\ completed' = Append(completed, event)
      /\ memory' = IF inflight[c].req.opcode = "AIO_READ"
                   THEN [memory EXCEPT ![inflight[c].req.buf] =
                           [file |-> inflight[c].req.fd, offset |-> inflight[c].req.offset,
                            length |-> event.res]]
                   ELSE memory
      /\ UNCHANGED <<requestQueue, aioRequestPool, aioRequest, aioTicket, offset>>
      /\ UNCHANGED fbVars
  BY <1>1 DEF Complete, Kernel
<1>3. /\ inflight \in Seq([obj : Request, req : RequestRecord])
      /\ completed \in Seq([obj : Request, res : Nat])
      /\ aioRequest \in [Request -> RequestRecord]
      /\ Len(inflight) \in Nat /\ Len(completed) \in Nat
      /\ \A i, j \in 1 .. Len(inflight) : inflight[i].obj = inflight[j].obj => i = j
      /\ \A i \in 1 .. Len(inflight), j \in 1 .. Len(completed) :
           inflight[i].obj # completed[j].obj
  BY Known, LenProperties DEF IInv, AIOTypeOK
<1>4. /\ inflight[c] \in [obj : Request, req : RequestRecord]
      /\ r \in Request /\ Owing(r)
      /\ inflight[c].req = aioRequest[r]
      /\ aioRequest[r].fd = f /\ aioRequest[r].opcode = "AIO_READ"
      /\ page \in pagesHeld /\ page \in Page
  <2>1. inflight[c] \in [obj : Request, req : RequestRecord]
    BY <1>3, ElementOfSeq
  <2>2. r \in Request /\ Owing(r)
    BY <2>1 DEF Owing
  <2>3. inflight[c].req = aioRequest[r]
    BY DEF IInv, BlocksKnown
  <2> HIDE DEF r
  <2>4. aioRequest[r].fd = f /\ aioRequest[r].opcode = "AIO_READ"
    BY <2>2 DEF IInv, BlocksKnown
  <2>5. page \in pagesHeld /\ page \in Page
    BY <2>2 DEF IInv, PagesOwned
  <2> QED
    BY <2>1, <2>2, <2>3, <2>4, <2>5
<1>5. event \in [obj : Request, res : Nat] /\ event.obj = r
  <2>1. Client!Transferred(inflight[c].req) \in Nat
    BY <1>4, Client!TransferredIsNat, AIOAssumption
       DEF RequestRecord, Opcode, Client!RequestRecord, Client!Opcode, FaultKinds,
           Client!FaultKinds
  <2>2. Client!Transferred(inflight[c].req) = Transferred(inflight[c].req)
    BY DEF Transferred, Client!Transferred, Max, Client!Max, Min, Client!Min
  <2> QED
    BY <1>4, <2>1, <2>2
<1>6. memory' = [memory EXCEPT ![page] = [file |-> f, offset |-> aioRequest[r].offset,
                                          length |-> event.res]]
  BY <1>2, <1>4
<1> HIDE DEF r, event, page
<1>7. /\ completed' \in Seq([obj : Request, res : Nat])
      /\ Len(completed') = Len(completed) + 1
      /\ \A i \in 1 .. Len(completed) : completed'[i] = completed[i]
      /\ completed'[Len(completed) + 1] = event
  BY <1>2, <1>3, <1>5, AppendProperties
<1>8. /\ Len(inflight') = Len(inflight) - 1
      /\ \A i \in 1 .. Len(inflight) - 1 :
           inflight'[i] = IF i < c THEN inflight[i] ELSE inflight[i + 1]
  <2>1. /\ Len(Client!RemoveAt(inflight, c)) = Len(inflight) - 1
        /\ \A i \in 1 .. Len(inflight) - 1 :
             Client!RemoveAt(inflight, c)[i] = IF i < c THEN inflight[i] ELSE inflight[i + 1]
    BY <1>3, Client!RemoveAtIs, AIOAssumption DEF FaultKinds, Client!FaultKinds
  <2>2. inflight' = Client!RemoveAt(inflight, c)
    BY <1>2 DEF RemoveAt, Client!RemoveAt
  <2> QED
    BY <2>1, <2>2
<1>9. /\ \A i \in 1 .. Len(inflight') :
           from(i) \in 1 .. Len(inflight) /\ inflight'[i] = inflight[from(i)]
      /\ \A i \in 1 .. Len(inflight) :
           i = c \/ \E j \in 1 .. Len(inflight') : from(j) = i
  <2>1. \A i \in 1 .. Len(inflight') :
          from(i) \in 1 .. Len(inflight) /\ inflight'[i] = inflight[from(i)]
    BY <1>3, <1>8
  <2>2. ASSUME NEW i \in 1 .. Len(inflight), i # c
        PROVE  \E j \in 1 .. Len(inflight') : from(j) = i
    <3>1. CASE i < c
      <4>1. i \in 1 .. Len(inflight') /\ from(i) = i
        BY <1>3, <1>8, <3>1
      <4> QED
        BY <4>1
    <3>2. CASE ~ (i < c)
      <4>1. i - 1 \in 1 .. Len(inflight') /\ from(i - 1) = i
        BY <1>3, <1>8, <2>2, <3>2
      <4> QED
        BY <4>1
    <3> QED
      BY <3>1, <3>2
  <2> QED
    BY <2>1, <2>2
<1> HIDE DEF from
<1>10. \A i \in 1 .. Len(completed') :
         \/ i \in 1 .. Len(completed) /\ completed'[i] = completed[i]
         \/ i = Len(completed) + 1 /\ completed'[i] = event
  BY <1>3, <1>7
<1>11. /\ Received' = Received /\ TicketPhase' = TicketPhase
       /\ UNCHANGED <<call, numRequestsRemaining, bufferList, fileBufferPool, pagesHeld>>
  BY <1>2 DEF Received, TicketPhase, fbVars
<1>12. \A x : Owing(x)' <=> Owing(x)
  <2> TAKE x
  <2>1. Owing(x)' => Owing(x)
    <3>1. (\E i \in 1 .. Len(inflight') : inflight'[i].obj = x) => Owing(x)
      BY <1>9 DEF Owing
    <3>2. (\E i \in 1 .. Len(completed') : completed'[i].obj = x) => Owing(x)
      BY <1>4, <1>5, <1>10 DEF Owing
    <3> QED
      BY <1>2, <1>11, <3>1, <3>2 DEF Owing
  <2>2. Owing(x) => Owing(x)'
    <3>1. ASSUME NEW i \in 1 .. Len(inflight), inflight[i].obj = x
          PROVE  \/ \E j \in 1 .. Len(inflight') : inflight'[j].obj = x
                 \/ \E j \in 1 .. Len(completed') : completed'[j].obj = x
      <4>1. CASE i = c
        <5>1. Len(completed) + 1 \in 1 .. Len(completed') /\ event.obj = x
          BY <1>3, <1>5, <1>7, <3>1, <4>1 DEF r
        <5> QED
          BY <1>7, <5>1
      <4>2. CASE i # c
        BY <1>9, <3>1, <4>2
      <4> QED
        BY <4>1, <4>2
    <3>2. \A i \in 1 .. Len(completed) :
            i \in 1 .. Len(completed') /\ completed'[i].obj = completed[i].obj
      BY <1>3, <1>7
    <3> QED
      BY <1>2, <1>11, <3>1, <3>2 DEF Owing
  <2> QED
    BY <2>1, <2>2
<1>13. Client!IInv'
  BY <1>1, <1>11, ClientKernel DEF IInv, KernelNext
<1>14. CallKnows'
  BY <1>2, <1>11 DEF IInv, CallKnows, CallRecord
<1>15. RemainingCounts'
  <2>1. Len(inflight') + Len(completed') = Len(inflight) + Len(completed)
    BY <1>3, <1>7, <1>8
  <2> QED
    BY <1>11, <2>1 DEF IInv, RemainingCounts
<1>16. ReceivedOnce'
  <2>1. /\ Received \in Seq([obj : Request, res : Nat])
        /\ \A i, j \in 1 .. Len(Received) : Received[i].obj = Received[j].obj => i = j
    BY DEF IInv, ReceivedOnce
  <2>2. ASSUME NEW i \in 1 .. Len(Received)
        PROVE  /\ \A j \in 1 .. Len(inflight') : inflight'[j].obj # Received[i].obj
               /\ \A j \in 1 .. Len(completed') : completed'[j].obj # Received[i].obj
    <3>1. /\ \A j \in 1 .. Len(inflight) : inflight[j].obj # Received[i].obj
          /\ \A j \in 1 .. Len(completed) : completed[j].obj # Received[i].obj
      BY DEF IInv, ReceivedOnce
    <3>2. event.obj # Received[i].obj
      BY <1>5, <3>1 DEF r
    <3> QED
      BY <1>9, <1>10, <3>1, <3>2
  <2> QED
    BY <1>11, <2>1, <2>2 DEF ReceivedOnce
<1>17. PagesOwned'
  BY <1>2, <1>11, <1>12 DEF IInv, PagesOwned
<1>18. /\ memory = [p \in Page |-> memory[p]]
       /\ memory' = [p \in Page |-> memory'[p]]
       /\ memory'[page] = [file |-> f, offset |-> aioRequest[r].offset,
                           length |-> event.res]
       /\ \A p \in Page : p # page => memory'[p] = memory[p]
  <2>1. memory = [p \in Page |-> memory[p]]
    BY DEF IInv, BlocksKnown
  <2> QED
    BY <1>4, <1>6, <2>1
<1>19. \A e : Owing(e.obj) /\ e.obj \in Request /\ e.obj # r /\ Answered(f, e)
                => memory'[aioRequest[e.obj].buf]
                     = [file |-> f, offset |-> aioRequest[e.obj].offset, length |-> e.res]
  <2> SUFFICES ASSUME NEW e, NEW s, s = e.obj, Owing(s), s \in Request, s # r,
                      Answered(f, e)
               PROVE  memory'[aioRequest[s].buf]
                        = [file |-> f, offset |-> aioRequest[s].offset, length |-> e.res]
    OBVIOUS
  <2>1. aioRequest[s].buf \in Page /\ aioRequest[s].buf # page
    BY <1>4 DEF IInv, PagesOwned, page
  <2> QED
    BY <1>18, <2>1 DEF Answered, Holds
<1>20. BlocksKnown'
  <2>1. /\ \A i \in 1 .. Len(inflight) : inflight[i].req = aioRequest[inflight[i].obj]
        /\ \A x \in Request :
             Owing(x) => aioRequest[x].fd = f /\ aioRequest[x].opcode = "AIO_READ"
        /\ \A i \in 1 .. Len(completed) : Answered(f, completed[i])
        /\ \A i \in 1 .. Len(Received) : Answered(f, Received[i])
        /\ \A i \in 1 .. Len(bufferList[f].values) :
             LET b == bufferList[f].values[i]
             IN  Holds(b.buffer, f, b.fileOffset, b.numBytes)
    BY DEF IInv, BlocksKnown
  <2>2. \A i \in 1 .. Len(inflight') : inflight'[i].req = aioRequest'[inflight'[i].obj]
    BY <1>2, <1>9, <2>1
  <2>3. \A i \in 1 .. Len(completed) :
          /\ completed[i].obj \in Request /\ Owing(completed[i].obj)
          /\ completed[i].obj # r
    <3> SUFFICES ASSUME NEW i \in 1 .. Len(completed)
                 PROVE  /\ completed[i].obj \in Request /\ Owing(completed[i].obj)
                        /\ completed[i].obj # r
      OBVIOUS
    <3>1. completed[i] \in [obj : Request, res : Nat]
      BY <1>3, ElementOfSeq
    <3> QED
      BY <1>3, <3>1 DEF Owing, r
  <2>4. \A i \in 1 .. Len(Received) :
          /\ Received[i].obj \in Request /\ Owing(Received[i].obj)
          /\ Received[i].obj # r
    <3> SUFFICES ASSUME NEW i \in 1 .. Len(Received)
                 PROVE  /\ Received[i].obj \in Request /\ Owing(Received[i].obj)
                        /\ Received[i].obj # r
      OBVIOUS
    <3>1. Received[i] \in [obj : Request, res : Nat]
      BY ElementOfSeq DEF IInv, ReceivedOnce
    <3>2. Received[i].obj # r
      BY DEF IInv, ReceivedOnce, r
    <3> QED
      BY <3>1, <3>2 DEF Owing
  <2>5. \A i \in 1 .. Len(completed') : Answered(f, completed[i])'
    <3> SUFFICES ASSUME NEW i \in 1 .. Len(completed')
                 PROVE  memory'[aioRequest[completed'[i].obj].buf]
                          = [file |-> f, offset |-> aioRequest[completed'[i].obj].offset,
                             length |-> completed'[i].res]
      BY <1>2 DEF Answered, Holds
    <3>1. CASE completed'[i] = event
      BY <1>5, <1>18, <3>1 DEF page
    <3>2. CASE i \in 1 .. Len(completed) /\ completed'[i] = completed[i]
      BY <1>19, <2>1, <2>3, <3>2
    <3> QED
      BY <1>10, <3>1, <3>2
  <2>6. \A i \in 1 .. Len(Received') : Answered(f, Received[i])'
    BY <1>2, <1>11, <1>19, <2>1, <2>4 DEF Answered, Holds
  <2>7. ASSUME NEW i \in 1 .. Len(bufferList[f].values)
        PROVE  LET b == bufferList[f].values[i]
               IN  memory'[b.buffer]
                     = [file |-> f, offset |-> b.fileOffset, length |-> b.numBytes]
    <3> DEFINE b == bufferList[f].values[i]
    <3>1. b.buffer \in Page /\ b.buffer # page
      BY <1>4 DEF IInv, PagesOwned, page
    <3>2. Holds(b.buffer, f, b.fileOffset, b.numBytes)
      BY <2>1
    <3> QED
      BY <1>18, <3>1, <3>2 DEF Holds
  <2>8. \A x \in Request :
          Owing(x)' => aioRequest'[x].fd = f /\ aioRequest'[x].opcode = "AIO_READ"
    BY <1>2, <1>12, <2>1
  <2>9. \A i \in 1 .. Len(bufferList'[f].values) :
          LET b == bufferList'[f].values[i]
          IN  memory'[b.buffer] = [file |-> f, offset |-> b.fileOffset, length |-> b.numBytes]
    BY <1>11, <2>7
  <2> QED
    BY <1>18, <2>2, <2>5, <2>6, <2>8, <2>9 DEF BlocksKnown, Holds
<1>21. ListsKnown'
  BY <1>11 DEF IInv, ListsKnown
<1> QED
  BY <1>13, <1>14, <1>15, <1>16, <1>17, <1>20, <1>21 DEF IInv

-------------------------------------------------------------------------------
(* All steps.                                                              *)

\* A program that reads lists never is in a call of readFileBuffer.
LEMMA OnlyLists ==
  ASSUME ReadsLists, IInv
  PROVE  /\ \A f \in File : \A o, length, p : ~ BufferBegin(f, o, length, p)
         /\ ~ BufferQueue /\ ~ BufferSubmit /\ ~ BufferEnd
<1>1. call.step # "idle" => call.fn = "readFileBufferList"
  BY DEF IInv, CallKnows
<1> QED
  BY <1>1 DEF ReadsLists, BufferBegin, BufferQueue, BufferSubmit, BufferEnd

\* Every step preserves the inductive invariant.
LEMMA NextInv ==
  ASSUME NEW f, File = {f}, AllTaken, ReadsLists, TicketFits, IInv, [Next]_vars
  PROVE  IInv'
<1>1. ASSUME NEW g \in File, NEW o \in Offsets[g], NEW length \in Lengths,
             ListBegin(g, o, length)
      PROVE  IInv'
  BY <1>1, ListBeginInv
<1>2. CASE \E g \in File : Reset(g)
  BY <1>2, ResetInv
<1>3. ASSUME NEW g \in File, NEW position \in 0 .. FileSize[g], Lookup(g, position)
      PROVE  IInv'
  <2>1. position \in Nat /\ g = f
    BY AIOAssumption
  <2> QED
    BY <1>3, <2>1, LookupInv
<1>4. CASE \E p \in Page : ListQueue(p)
  BY <1>4, ListQueueInv
<1>5. CASE ListSubmit
  BY <1>5, ListSubmitInv
<1>6. CASE ListEnd
  BY <1>6, ListEndInv
<1>7. CASE WaitForEvents
  BY <1>7, WaitForEventsInv
<1>8. CASE Kernel
  BY <1>8, KernelInv
<1>9. CASE UNCHANGED vars
  BY <1>9, StutterInv
<1> QED
  BY <1>1, <1>2, <1>3, <1>4, <1>5, <1>6, <1>7, <1>8, <1>9, OnlyLists DEF Next, Program

-------------------------------------------------------------------------------
(* What the invariant says between calls.                                  *)

\* What the kernel has is in flight or was answered, once.
LEMMA KernelHas ==
  ASSUME IInv
  PROVE  /\ InKernel \in Seq(Request)
         /\ Len(InKernel) = Len(inflight) + Len(completed)
         /\ \A i, j \in 1 .. Len(InKernel) : InKernel[i] = InKernel[j] => i = j
         /\ \A i \in 1 .. Len(InKernel) :
              \/ \E j \in 1 .. Len(inflight) : InKernel[i] = inflight[j].obj
              \/ \E j \in 1 .. Len(completed) : InKernel[i] = completed[j].obj
         /\ \A j \in 1 .. Len(inflight) :
              \E i \in 1 .. Len(InKernel) : InKernel[i] = inflight[j].obj
         /\ \A j \in 1 .. Len(completed) :
              \E i \in 1 .. Len(InKernel) : InKernel[i] = completed[j].obj
<1>1. InKernel = Client!InKernel
  BY DEF InKernel, Client!InKernel
<1>2. Request = Client!Request
  BY DEF Request, Client!Request
<1>3. Client!IInv
  BY DEF IInv
<1> QED
  BY <1>1, <1>2, <1>3, Client!InKernelIs, AIOAssumption
     DEF Client!Distinct, FaultKinds, Client!FaultKinds

\* Between calls it is all that is owed, and it is the file's.
LEMMA KernelOwesAll ==
  ASSUME NEW f, File = {f}, AllTaken, IInv, call = Idle
  PROVE  /\ requestQueue = << >>
         /\ \A r : Owing(r) <=> \E i \in 1 .. Len(InKernel) : InKernel[i] = r
         /\ \A i \in 1 .. Len(InKernel) :
              InKernel[i] \in Request /\ aioRequest[InKernel[i]].fd = f
         /\ numRequestsRemaining[f] = Len(InKernel)
<1>1. call.step = "idle" /\ Received = << >> /\ Len(Received) = 0
  BY DEF Idle, Received
<1>2. requestQueue \in Seq(Request) /\ Len(requestQueue) = 0
  BY <1>1, Known DEF IInv, CallKnows, AIOTypeOK
<1>3. requestQueue = << >>
  BY <1>2, EmptySeq
<1>4. ASSUME NEW r
      PROVE  Owing(r) <=> \E i \in 1 .. Len(InKernel) : InKernel[i] = r
  <2>1. Owing(r) <=> \/ \E i \in 1 .. Len(inflight) : inflight[i].obj = r
                     \/ \E i \in 1 .. Len(completed) : completed[i].obj = r
    BY <1>1, <1>2 DEF Owing
  <2>2. ASSUME NEW i \in 1 .. Len(InKernel), InKernel[i] = r
        PROVE  \/ \E j \in 1 .. Len(inflight) : inflight[j].obj = r
               \/ \E j \in 1 .. Len(completed) : completed[j].obj = r
    BY <2>2, KernelHas
  <2>3. /\ (\E j \in 1 .. Len(inflight) : inflight[j].obj = r)
             => \E i \in 1 .. Len(InKernel) : InKernel[i] = r
        /\ (\E j \in 1 .. Len(completed) : completed[j].obj = r)
             => \E i \in 1 .. Len(InKernel) : InKernel[i] = r
    BY KernelHas
  <2> QED
    BY <2>1, <2>2, <2>3
<1>5. \A i \in 1 .. Len(InKernel) : InKernel[i] \in Request
  BY KernelHas, ElementOfSeq
<1>6. \A i \in 1 .. Len(InKernel) : aioRequest[InKernel[i]].fd = f
  BY <1>4, <1>5 DEF IInv, BlocksKnown
<1>7. numRequestsRemaining[f] = Len(InKernel)
  <2>1. numRequestsRemaining[f] = Len(inflight) + Len(completed) + Len(Received)
    BY DEF IInv, RemainingCounts
  <2>2. Len(inflight) \in Nat /\ Len(completed) \in Nat
    BY Known, LenProperties DEF IInv, AIOTypeOK
  <2> QED
    BY <1>1, <2>1, <2>2, KernelHas
<1> QED
  BY <1>3, <1>4, <1>5, <1>6, <1>7

\* A sum over one file.
LEMMA SumOverOne ==
  ASSUME NEW f, File = {f}, NEW n \in Nat, n = Len(bufferList[f].values)
  PROVE  MapThenSumSet(LAMBDA g : Len(bufferList[g].values), File) = n
<1> DEFINE sum == [s \in SUBSET {f} |-> IF s = {} THEN 0 ELSE n]
           Sums(g) == [s \in SUBSET {f} |->
                         IF s = {} THEN 0
                         ELSE Len(bufferList[CHOOSE x \in s : TRUE].values)
                                + g[s \ {CHOOSE x \in s : TRUE}]]
<1>1. ASSUME NEW g, g = Sums(g)
      PROVE  g[{f}] = n
  <2>1. g[{}] = 0 /\ (CHOOSE x \in {f} : TRUE) = f /\ {f} \ {f} = {}
    BY <1>1
  <2>2. g[{f}] = Len(bufferList[CHOOSE x \in {f} : TRUE].values)
                   + g[{f} \ {CHOOSE x \in {f} : TRUE}]
    BY <1>1
  <2> QED
    BY <1>1, <2>1, <2>2
<1>2. sum = Sums(sum)
  <2>1. \A s \in SUBSET {f} : s = {} \/ s = {f}
    OBVIOUS
  <2>2. (CHOOSE x \in {f} : TRUE) = f /\ {f} \ {f} = {} /\ sum[{}] = 0 /\ n + 0 = n
    OBVIOUS
  <2>3. \A s \in SUBSET {f} : sum[s] = Sums(sum)[s]
    BY <2>1, <2>2
  <2> QED
    BY <2>3
<1>3. MapThenSumSet(LAMBDA g : Len(bufferList[g].values), {f})
        = (CHOOSE g : g = Sums(g))[{f}]
  BY DEF MapThenSumSet, MapThenFoldSet
<1> QED
  BY <1>1, <1>2, <1>3

\* Every variable has its type.
LEMMA Typed ==
  ASSUME NEW f, File = {f}, AllTaken, TicketFits, IInv
  PROVE  TypeOK
<1>1. AIOTypeOK
  BY Known DEF IInv
<1>2. numRequestsRemaining \in [File -> 0 .. Word - 1]
  <2>1. 0 .. TicketSize \subseteq 0 .. Word - 1
    BY AIOAssumption, FileBufferListAssumption DEF TicketFits
  <2> QED
    BY <2>1 DEF IInv, RemainingCounts
<1>3. /\ bufferList \in [File -> BufferList] /\ fileBufferPool \in BufferPool
      /\ pagesHeld \subseteq Page
  BY DEF IInv, ListsKnown, PagesOwned
<1>4. call.file \in File \union {NULL}
  BY DEF IInv, CallKnows, Idle
<1>5. /\ call.queued \in 0 .. TicketSize /\ call.blocks \in 0 .. TicketSize
      /\ call.events \in -1 .. TicketSize
  BY AIOAssumption DEF IInv, CallKnows
<1>6. call.fileBuffer \in Buffer
  BY DEF IInv, CallKnows, NoBuffer, Buffer
<1> QED
  BY <1>1, <1>2, <1>3, <1>4, <1>5, <1>6 DEF TypeOK

\* Between calls every page has its place.
LEMMA PagesHaveTheirPlace ==
  ASSUME NEW f, File = {f}, AllTaken, IInv
  PROVE  PagesAccounted
<1> SUFFICES ASSUME call = Idle
             PROVE  /\ IsInjective(PendingPages)
                    /\ IsInjective([i \in 1 .. Len(bufferList[f].values) |->
                                      bufferList[f].values[i].buffer])
                    /\ ToSet(PendingPages) \intersect ListedPages = {}
                    /\ ToSet(PendingPages) \union ListedPages = pagesHeld
                    /\ fileBufferPool.numInUse
                         = MapThenSumSet(LAMBDA g : Len(bufferList[g].values), File)
  BY DEF PagesAccounted
<1> DEFINE n == Len(InKernel)
           m == Len(bufferList[f].values)
           buf(i) == aioRequest[InKernel[i]].buf
           listed(i) == bufferList[f].values[i].buffer
<1>1. /\ \A r : Owing(r) <=> \E i \in 1 .. n : InKernel[i] = r
      /\ \A i \in 1 .. n : InKernel[i] \in Request
  BY KernelOwesAll
<1>2. PendingPages = [i \in 1 .. n |-> buf(i)]
  <2>1. requestQueue \o InKernel = InKernel
    <3>1. requestQueue = << >> /\ InKernel \in Seq(Request)
      BY KernelOwesAll, KernelHas
    <3>2. << >> \o InKernel = InKernel
      BY <3>1, ConcatEmptySeq
    <3> QED
      BY <3>1, <3>2
  <2> QED
    BY <2>1 DEF PendingPages
<1>3. ToSet(PendingPages) = {buf(i) : i \in 1 .. n}
  <2>1. DOMAIN PendingPages = 1 .. n
    BY <1>2
  <2> QED
    BY <1>2, <2>1 DEF ToSet
<1>4. ListedPages = {listed(i) : i \in 1 .. m}
  BY DEF ListedPages, PagesOf
<1>5. IsInjective(PendingPages)
  <2> SUFFICES ASSUME NEW i \in 1 .. n, NEW j \in 1 .. n, buf(i) = buf(j)
               PROVE  i = j
    BY <1>2 DEF IsInjective
  <2>1. InKernel[i] = InKernel[j]
    BY <1>1 DEF IInv, PagesOwned
  <2> QED
    BY <2>1, KernelHas
<1>6. IsInjective([i \in 1 .. m |-> listed(i)])
  BY DEF IsInjective, IInv, PagesOwned
<1>7. ToSet(PendingPages) \intersect ListedPages = {}
  <2>1. \A i \in 1 .. n, j \in 1 .. m : buf(i) # listed(j)
    BY <1>1 DEF IInv, PagesOwned
  <2> QED
    BY <1>3, <1>4, <2>1
<1>8. ToSet(PendingPages) \union ListedPages = pagesHeld
  <2>1. \A i \in 1 .. n : buf(i) \in pagesHeld
    BY <1>1 DEF IInv, PagesOwned
  <2>2. \A j \in 1 .. m : listed(j) \in pagesHeld
    BY DEF IInv, PagesOwned
  <2>3. \A p \in pagesHeld : \/ \E i \in 1 .. n : buf(i) = p
                             \/ \E j \in 1 .. m : listed(j) = p
    BY <1>1 DEF IInv, PagesOwned
  <2> QED
    BY <1>3, <1>4, <2>1, <2>2, <2>3
<1>9. fileBufferPool.numInUse = MapThenSumSet(LAMBDA g : Len(bufferList[g].values), File)
  <2>1. /\ bufferList[f].values \in Seq(Buffer) /\ fileBufferPool.numInUse = m
    BY DEF IInv, ListsKnown, BufferList
  <2>2. m \in Nat
    BY <2>1, LenProperties
  <2> QED
    BY <2>1, <2>2, SumOverOne
<1> QED
  BY <1>5, <1>6, <1>7, <1>8, <1>9

\* An AIORequest is in one place, because AIOClient's are.
LEMMA RequestsHaveTheirPlace ==
  ASSUME NEW f, File = {f}, IInv
  PROVE  RequestInOnePlace
<1>1. Client!RequestInOnePlace
  BY Client!InOnePlace, AIOAssumption DEF IInv, FaultKinds, Client!FaultKinds
<1> QED
  BY <1>1 DEF RequestInOnePlace, Client!RequestInOnePlace, InKernel, Client!InKernel,
              IsInjective, Client!IsInjective

\* The file's requests that the kernel has are all it has.
LEMMA CountsTheKernel ==
  ASSUME NEW f, File = {f}, AllTaken, IInv
  PROVE  RemainingMatchesKernel
<1> SUFFICES ASSUME call = Idle
             PROVE  numRequestsRemaining[f]
                      = Quantify(DOMAIN InKernel, LAMBDA i : aioRequest[InKernel[i]].fd = f)
  BY DEF RemainingMatchesKernel
<1>1. InKernel \in Seq(Request) /\ DOMAIN InKernel = 1 .. Len(InKernel)
      /\ Len(InKernel) \in Nat
  BY KernelHas, LenProperties
<1>2. {i \in DOMAIN InKernel : aioRequest[InKernel[i]].fd = f} = 1 .. Len(InKernel)
  BY <1>1, KernelOwesAll
<1>3. Cardinality(1 .. Len(InKernel)) = Len(InKernel)
  BY <1>1, FS_Interval
<1> QED
  BY <1>2, <1>3, KernelOwesAll DEF Quantify

-------------------------------------------------------------------------------
(* The theorems.                                                           *)

\* The invariant holds of every program that reads lists of one file.
LEMMA Invariant ==
  ASSUME NEW f, File = {f}, AllTaken, ReadsLists, TicketFits
  PROVE  Spec => []IInv
<1>1. Init => IInv
  BY InitInv
<1>2. IInv /\ [Next]_vars => IInv'
  BY NextInv
<1> QED
  BY <1>1, <1>2, PTL DEF Spec

\* A program that reads lists of one file, over timeouts, partial answers and
\* completions out of order: no request, page or buffer of it is lost or in two
\* places between its calls (filebuffer.c:344-399).
THEOREM BuffersAccountedTheorem ==
  ASSUME OneFile, AllTaken, ReadsLists, TicketFits
  PROVE  Spec => []BuffersAccounted
<1> PICK f : File = {f}
  BY DEF OneFile
<1>1. IInv => BuffersAccounted
  BY Typed, RequestsHaveTheirPlace, PagesHaveTheirPlace DEF BuffersAccounted
<1>2. Spec => []IInv
  BY Invariant
<1> QED
  BY <1>1, <1>2, PTL

\* Of the same program: between its calls the file's count of outstanding requests
\* is what the kernel will still deliver (filebuffer.c:367, 375).
THEOREM RemainingMatchesKernelTheorem ==
  ASSUME OneFile, AllTaken, ReadsLists, TicketFits
  PROVE  Spec => []RemainingMatchesKernel
<1> PICK f : File = {f}
  BY DEF OneFile
<1>1. IInv => RemainingMatchesKernel
  BY CountsTheKernel
<1>2. Spec => []IInv
  BY Invariant
<1> QED
  BY <1>1, <1>2, PTL

\* Of the same program: every buffer it holds between its calls says of its page
\* what was read into it, and no later read wrote there (filebuffer.c:390-392).
THEOREM BuffersHoldTheirBlocksTheorem ==
  ASSUME OneFile, AllTaken, ReadsLists, TicketFits
  PROVE  Spec => []BuffersHoldTheirBlocks
<1> PICK f : File = {f}
  BY DEF OneFile
<1>1. IInv => BuffersHoldTheirBlocks
  BY DEF IInv, BlocksKnown, Holds, BuffersHoldTheirBlocks
<1>2. Spec => []IInv
  BY Invariant
<1> QED
  BY <1>1, <1>2, PTL
===============================================================================
