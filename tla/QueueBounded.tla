----------------------------- MODULE QueueBounded -----------------------------
(***************************************************************************)
(* The ring buffer of adt/queuebounded.c: a flexible array of `capacity'   *)
(* slots, a head and a tail index and a length.  The slots are not         *)
(* initialized when the queue is created, a dequeue leaves the value in    *)
(* its slot, and reset only rewinds the three counters.                    *)
(***************************************************************************)
EXTENDS Integers, Sequences

CONSTANTS
    Value,     \* the pointers a caller may enqueue
    NULL,      \* the null pointer
    Uninit,    \* what an unwritten slot, or memory past the slots, holds
    Capacity   \* QueueBounded.capacity

ASSUME CapacityAssumption == Capacity \in Nat
ASSUME UninitAssumption == Uninit \notin Value

VARIABLES
    values,    \* QueueBounded.values
    head,      \* the slot the next dequeue reads
    tail,      \* the slot the next enqueue writes
    length,    \* how many slots are in use
    result,    \* [call, value]: what the last call returned
    array      \* what toArray returned, << >> after any other call

vars == <<values, head, tail, length, result, array>>

Index == 0 .. Capacity - 1

\* Memory read at slot i: past the last slot lies memory of somebody else.
Slot(i) == IF i \in Index THEN values[i] ELSE Uninit

\* The index after i, wrapped at the capacity.
Following(i) == IF i + 1 = Capacity THEN 0 ELSE i + 1

Returned(call, value) == [call |-> call, value |-> value]

-------------------------------------------------------------------------------
createQueueBounded ==
    /\ values = [i \in Index |-> Uninit]
    /\ head = 0
    /\ tail = 0
    /\ length = 0
    /\ result = Returned("create", NULL)
    /\ array = << >>

enqueue(v) ==
    /\ \/ /\ length = Capacity
          /\ result' = Returned("enqueue", FALSE)
          /\ UNCHANGED <<values, tail, length>>
       \/ /\ length # Capacity
          /\ values' = [values EXCEPT ![tail] = v]
          /\ length' = length + 1
          /\ tail' = Following(tail)
          /\ result' = Returned("enqueue", TRUE)
    /\ array' = << >>
    /\ UNCHANGED head

\* Mutant of dequeue: the head is moved before the slot is read.
dequeueMovedFirst ==
    /\ length > 0
    /\ head' = Following(head)
    /\ result' = Returned("dequeue", Slot(head'))
    /\ length' = length - 1
    /\ array' = << >>
    /\ UNCHANGED <<values, tail>>

dequeue ==
    /\ \/ /\ length > 0
          /\ result' = Returned("dequeue", Slot(head))
          /\ length' = length - 1
          /\ head' = Following(head)
       \/ /\ length = 0
          /\ result' = Returned("dequeue", NULL)
          /\ UNCHANGED <<head, length>>
    /\ array' = << >>
    /\ UNCHANGED <<values, tail>>

peek ==
    /\ result' = Returned("peek", IF length > 0 THEN Slot(head) ELSE NULL)
    /\ array' = << >>
    /\ UNCHANGED <<values, head, tail, length>>

\* Mutant of reset: the tail is forgotten.
resetHeadOnly ==
    /\ head' = 0
    /\ length' = 0
    /\ result' = Returned("reset", NULL)
    /\ array' = << >>
    /\ UNCHANGED <<values, tail>>

reset ==
    /\ head' = 0
    /\ tail' = 0
    /\ length' = 0
    /\ result' = Returned("reset", NULL)
    /\ array' = << >>
    /\ UNCHANGED values

\* Mutant of Copied: one copy, from the head on, in every case.
CopiedOnce == [i \in 1 .. length |-> Slot(head + i - 1)]

\* Two copies when the used slots wrap around, one otherwise.  The test for
\* wrapping is head > tail.
Copied ==
    LET firstSectionLength == Capacity - head IN
    IF head > tail
    THEN [i \in 1 .. length |-> IF i <= firstSectionLength
                                THEN Slot(head + i - 1)
                                ELSE Slot(i - firstSectionLength - 1)]
    ELSE [i \in 1 .. length |-> Slot(head + i - 1)]

\* toArray returns nothing through `result' and leaves the queue alone.
toArray ==
    /\ array' = Copied
    /\ UNCHANGED <<values, head, tail, length, result>>

Next ==
    \/ \E v \in Value : enqueue(v)
    \/ dequeue
    \/ peek
    \/ reset
    \/ toArray

Spec == createQueueBounded /\ [][Next]_vars

-------------------------------------------------------------------------------
(* What the ring stands for.                                               *)

\* The slot of the i-th oldest value, counting from 0.
Place(i) == IF head + i < Capacity THEN head + i ELSE head + i - Capacity

Contents == [i \in 1 .. length |-> Slot(Place(i - 1))]

Fifo == INSTANCE BoundedFifo WITH queue <- Contents

\* Every variable holds values of its C type.
TypeOK ==
    /\ values \in [Index -> Value \union {Uninit}]
    /\ head \in Nat /\ tail \in Nat
    /\ length \in 0 .. Capacity

\* The three counters agree: tail is `length' slots after head, and both are
\* slots of the ring (or 0 when the ring has none).
CountersAgree ==
    /\ head = 0 \/ head < Capacity
    /\ tail = Place(length)

\* The slots between head and tail hold enqueued values: no dequeue, peek or
\* copy of one of them (queuebounded.c:74, 114) can read an unwritten slot.
UsedSlotsWritten == \A i \in 0 .. length - 1 : Slot(Place(i)) \in Value

RingInvariant == CountersAgree /\ UsedSlotsWritten

\* Every call of the ring answers as a bounded FIFO would: values leave in the
\* order in which they came, none is lost or repeated across a wrap of head or
\* tail (queuebounded.c:78-81, 97-100), and only a full queue refuses one.
ImplementsFifo == Fifo!FifoSpec

\* toArray copies the whole queue in order unless the queue is full with its
\* head past slot 0 (queuebounded.c:127).
ToArrayUnlessFullAndWrapped ==
    [][toArray => (array' = Contents \/ (length = Capacity /\ head > 0))]_vars
===============================================================================
