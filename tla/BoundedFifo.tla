----------------------------- MODULE BoundedFifo -----------------------------
(***************************************************************************)
(* What a bounded FIFO queue promises its callers, with no representation: *)
(* a sequence of at most Capacity values.  Every call of the interface     *)
(* records what it returned in `result'.                                   *)
(***************************************************************************)
EXTENDS Naturals, Sequences

CONSTANTS
    Value,     \* the pointers a caller may enqueue
    NULL,      \* the null pointer
    Capacity   \* the greatest number of values the queue may hold

VARIABLES
    queue,     \* the values held, the oldest first
    result     \* [call |-> the last call, value |-> what it returned]

fifoVars == <<queue, result>>

Returned(call, value) == [call |-> call, value |-> value]

FifoInit ==
    /\ queue = << >>
    /\ result = Returned("create", NULL)

\* A value is refused exactly when the queue is full.
FifoEnqueue(v) ==
    \/ /\ Len(queue) < Capacity
       /\ queue' = Append(queue, v)
       /\ result' = Returned("enqueue", TRUE)
    \/ /\ Len(queue) = Capacity
       /\ result' = Returned("enqueue", FALSE)
       /\ UNCHANGED queue

\* The oldest value leaves first; an empty queue answers NULL.
FifoDequeue ==
    \/ /\ queue # << >>
       /\ queue' = Tail(queue)
       /\ result' = Returned("dequeue", Head(queue))
    \/ /\ queue = << >>
       /\ result' = Returned("dequeue", NULL)
       /\ UNCHANGED queue

FifoPeek ==
    /\ result' = Returned("peek", IF queue = << >> THEN NULL ELSE Head(queue))
    /\ UNCHANGED queue

FifoReset ==
    /\ queue' = << >>
    /\ result' = Returned("reset", NULL)

FifoNext ==
    \/ \E v \in Value : FifoEnqueue(v)
    \/ FifoDequeue
    \/ FifoPeek
    \/ FifoReset

FifoSpec == FifoInit /\ [][FifoNext]_fifoVars
==============================================================================
