------------------------------ MODULE AIOClient ------------------------------
(***************************************************************************)
(* A program that drives its AIOFiles through the interface of io/async.c  *)
(* directly, in the order its callers use: it initializes a ticket, queues *)
(* reads and writes, submits, asks for events until every request of the   *)
(* ticket was answered, and cleans the ticket up.  Requests beyond what    *)
(* one ticket holds stay queued for the next.                              *)
(***************************************************************************)
EXTENDS AsyncIO

CONSTANT MaxOffset   \* bound: no request is queued at or past this offset

VARIABLE phase       \* [File -> where its ticket is in that order]

vars == <<aioVars, phase>>

Phase == {"idle", "queueing", "submitted"}

Init ==
    /\ AIOInit
    /\ phase = [f \in File |-> "idle"]

Begin(f) ==
    /\ phase[f] = "idle"
    /\ aioTicket' = [aioTicket EXCEPT ![f] = InitializedTicket(@)]
    /\ phase' = [phase EXCEPT ![f] = "queueing"]
    /\ UNCHANGED <<requestQueue, aioRequestPool, aioRequest, offset, inflight,
                   completed, memory>>

\* The program sets AIOFile.offset itself.
Rewind(f) ==
    /\ phase[f] = "queueing"
    /\ offset[f] > 0
    /\ offset' = [offset EXCEPT ![f] = 0]
    /\ UNCHANGED <<requestQueue, aioRequestPool, aioRequest, aioTicket,
                   inflight, completed, memory, phase>>

Queue(f, p) ==
    /\ phase[f] = "queueing"
    /\ offset[f] < MaxOffset
    /\ read(f, p, PageSize) \/ write(f, p, PageSize)
    /\ UNCHANGED <<aioTicket, inflight, completed, memory, phase>>

\* submit answers FALSE and does nothing when no request is queued.
Submit(f) ==
    /\ phase[f] = "queueing"
    /\ submit(f)
    /\ phase' = IF requestQueue = << >> THEN phase
                ELSE [phase EXCEPT ![f] = "submitted"]
    /\ UNCHANGED <<aioRequestPool, aioRequest, offset, completed, memory>>

GetEvents(f) ==
    /\ phase[f] = "submitted"
    /\ aioTicket[f].numEvents < aioTicket[f].numRequests
    /\ \E n \in -1 .. TicketSize : getEvents(f, n)
    /\ UNCHANGED <<requestQueue, aioRequestPool, aioRequest, offset, inflight,
                   memory, phase>>

CleanUp(f) ==
    /\ phase[f] = "submitted"
    /\ aioTicket[f].numEvents >= aioTicket[f].numRequests
    /\ cleanUpAIOTicket(f)
    /\ phase' = [phase EXCEPT ![f] = "idle"]
    /\ UNCHANGED <<requestQueue, aioRequest, aioTicket, offset, inflight,
                   completed, memory>>

Kernel == KernelNext /\ UNCHANGED phase

Next ==
    \/ \E f \in File :
         \/ Begin(f) \/ Rewind(f) \/ Submit(f) \/ GetEvents(f) \/ CleanUp(f)
         \/ \E p \in Page : Queue(f, p)
    \/ Kernel

Spec == Init /\ [][Next]_vars

\* The program keeps going, and the device answers every request it was given.
Fairness ==
    /\ \A f \in File : WF_vars(Begin(f)) /\ WF_vars(Submit(f))
    /\ \A f \in File : WF_vars(GetEvents(f)) /\ WF_vars(CleanUp(f))
    /\ WF_vars(Kernel)

FairSpec == Spec /\ Fairness

-------------------------------------------------------------------------------
TypeOK == AIOTypeOK /\ phase \in [File -> Phase]

\* Over timeouts, partial answers and completions out of order an AIORequest is
\* in one place and the pool's counters say how many it handed out
\* (async.c:85-107, 220-226).
RequestsAccounted == TypeOK /\ RequestInOnePlace /\ PoolCounts

\* A ticket knows how much is outstanding: what it has not received is with the
\* kernel, even if events came in several parts and over timeouts
\* (async.c:362, 392), so that cleaning it up (async.c:221) waits for the last.
TicketMatchesKernel ==
    \A f \in File :
      phase[f] = "submitted" =>
        aioTicket[f].numEvents + Len(InKernel) = aioTicket[f].numRequests

\* Whatever part of a ticket io_submit refused (async.c:364-369), the kernel never
\* owes it more events than it counts requests, so that it is not cleaned up
\* while one of them is still to come (async.c:221).
TicketNeverOverpaid ==
    \A f \in File :
      phase[f] = "submitted" =>
        aioTicket[f].numEvents + Len(InKernel) <= aioTicket[f].numRequests

\* Whatever part of its list io_submit takes, no AIORequest goes back to the pool
\* while it is queued or the kernel has it (async.c:220-226, 340-372).
NothingRecycledTooSoon == RequestInOnePlace /\ TicketNeverOverpaid

\* Every queued request is served and its AIORequest comes back to the pool,
\* although one ticket does not hold all that can be queued (async.c:356).
QueuedIsServed ==
    \A r \in Request :
      (\E i \in 1 .. Len(requestQueue) : requestQueue[i] = r)
        ~> (\E i \in 1 .. Len(aioRequestPool.structStack) :
              aioRequestPool.structStack[i] = r)
===============================================================================
