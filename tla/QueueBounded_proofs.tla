------------------------- MODULE QueueBounded_proofs -------------------------
(***************************************************************************)
(* Proofs, for every capacity and every set of values, that the ring of    *)
(* QueueBounded keeps its counters in agreement, never serves an unwritten *)
(* slot, implements a bounded FIFO, and copies its contents in order       *)
(* unless it is full with its head past slot 0.                            *)
(***************************************************************************)
EXTENDS QueueBounded, SequenceTheorems, TLAPS

\* The inductive invariant.
IInv == TypeOK /\ RingInvariant

-------------------------------------------------------------------------------
(* The index arithmetic.                                                   *)

\* The place of the i-th oldest value is a slot of the ring.
LEMMA PlaceIsIndex ==
  ASSUME TypeOK, CountersAgree, NEW i \in Nat, i < Capacity
  PROVE  Place(i) \in Index
BY CapacityAssumption DEF TypeOK, CountersAgree, Place, Index

\* Different values are in different slots.
LEMMA PlacesDiffer ==
  ASSUME TypeOK, CountersAgree,
         NEW i \in 0 .. Capacity - 1, NEW j \in 0 .. Capacity - 1, i # j
  PROVE  Place(i) # Place(j)
BY CapacityAssumption DEF TypeOK, CountersAgree, Place

\* Moving an index by one moves the place it counts from by one.
LEMMA FollowingPlace ==
  ASSUME TypeOK, CountersAgree, NEW i \in Nat, i < Capacity
  PROVE  Following(Place(i)) = Place(i + 1)
BY CapacityAssumption DEF TypeOK, CountersAgree, Place, Following

-------------------------------------------------------------------------------
(* The invariant.                                                          *)

\* A new queue is empty, so none of its unwritten slots is in use.
LEMMA InitInv == createQueueBounded => IInv
BY CapacityAssumption
   DEF createQueueBounded, IInv, TypeOK, RingInvariant, CountersAgree,
       UsedSlotsWritten, Place, Index

\* An enqueue that is not refused writes the slot past the last value, which
\* is none of the slots in use.
LEMMA EnqueueInv ==
  ASSUME IInv, NEW v \in Value, enqueue(v)
  PROVE  IInv'
<1> USE CapacityAssumption
<1>1. CASE length = Capacity
  BY <1>1 DEF IInv, TypeOK, RingInvariant, CountersAgree, UsedSlotsWritten,
              enqueue, Place, Slot
<1>2. CASE length # Capacity
  <2>1. /\ values' = [values EXCEPT ![tail] = v]
        /\ length' = length + 1
        /\ tail' = Following(tail)
        /\ head' = head
    BY <1>2 DEF enqueue
  <2>2. length < Capacity /\ length \in Nat
    BY <1>2 DEF IInv, TypeOK
  <2>3. tail = Place(length) /\ tail \in Index
    BY <2>2, PlaceIsIndex DEF IInv, RingInvariant, CountersAgree
  <2>4. tail' = Place(length')
    BY <2>1, <2>2, <2>3, FollowingPlace DEF IInv, RingInvariant
  <2>5. TypeOK'
    BY <2>1, <2>2, <2>3 DEF IInv, TypeOK, Following, Index
  <2>6. CountersAgree'
    BY <2>1, <2>4 DEF IInv, RingInvariant, CountersAgree, Place
  <2>7. UsedSlotsWritten'
    <3> SUFFICES ASSUME NEW i \in 0 .. length
                 PROVE  Slot(Place(i))' \in Value
      BY <2>1, <2>2 DEF UsedSlotsWritten, IInv, TypeOK
    <3>1. Place(i)' = Place(i) /\ Place(i) \in Index
      BY <2>1, <2>2, PlaceIsIndex DEF Place, IInv, RingInvariant
    <3>2. CASE i = length
      BY <3>1, <3>2, <2>1, <2>3 DEF Slot, IInv, TypeOK
    <3>3. CASE i # length
      <4>1. Place(i) # tail
        BY <3>3, <2>2, <2>3, PlacesDiffer DEF IInv, RingInvariant
      <4>2. Slot(Place(i)) \in Value
        BY <3>3, <2>2 DEF IInv, RingInvariant, UsedSlotsWritten
      <4> QED
        BY <4>1, <4>2, <3>1, <2>1 DEF Slot, IInv, TypeOK
    <3> QED
      BY <3>2, <3>3
  <2> QED
    BY <2>5, <2>6, <2>7 DEF IInv, RingInvariant
<1> QED
  BY <1>1, <1>2

\* After a dequeue the i-th oldest value is where the next one was.
LEMMA DequeuePlace ==
  ASSUME IInv, dequeue, length > 0, NEW i \in Nat, i < Capacity
  PROVE  Place(i)' = Place(i + 1)
BY CapacityAssumption
   DEF IInv, TypeOK, RingInvariant, CountersAgree, dequeue, Place, Following

\* A dequeue moves the head past the oldest value and keeps the other slots in
\* use; an empty queue is left alone.
LEMMA DequeueInv ==
  ASSUME IInv, dequeue
  PROVE  IInv'
<1> USE CapacityAssumption
<1>1. CASE length = 0
  BY <1>1 DEF IInv, TypeOK, RingInvariant, CountersAgree, UsedSlotsWritten,
              dequeue, Place, Slot
<1>2. CASE length > 0
  <2>1. /\ length' = length - 1
        /\ head' = Following(head)
        /\ values' = values
        /\ tail' = tail
    BY <1>2 DEF dequeue, IInv, TypeOK
  <2>2. TypeOK'
    BY <1>2, <2>1 DEF IInv, TypeOK, Following
  <2>3. CountersAgree'
    <3>1. Place(length)' = Place(length)
      BY <1>2, <2>1
         DEF IInv, TypeOK, RingInvariant, CountersAgree, Place, Following
    <3>2. head' = 0 \/ head' < Capacity
      BY <1>2, <2>1 DEF IInv, TypeOK, RingInvariant, CountersAgree, Following
    <3> QED
      BY <3>1, <3>2, <2>1 DEF IInv, RingInvariant, CountersAgree
  <2>4. UsedSlotsWritten'
    <3> SUFFICES ASSUME NEW i \in 0 .. length - 2
                 PROVE  Slot(Place(i))' \in Value
      BY <2>1, <1>2 DEF UsedSlotsWritten, IInv, TypeOK
    <3>1. Place(i)' = Place(i + 1)
      BY <1>2, DequeuePlace DEF IInv, TypeOK
    <3>2. Slot(Place(i + 1)) \in Value
      BY <1>2 DEF IInv, TypeOK, RingInvariant, UsedSlotsWritten
    <3> QED
      BY <3>1, <3>2, <2>1 DEF Slot
  <2> QED
    BY <2>2, <2>3, <2>4 DEF IInv, RingInvariant
<1> QED
  BY <1>1, <1>2 DEF IInv, TypeOK

\* peek and toArray leave the ring alone, reset empties it.
LEMMA NextInv == IInv /\ [Next]_vars => IInv'
<1> SUFFICES ASSUME IInv, [Next]_vars PROVE IInv'
  OBVIOUS
<1>1. ASSUME NEW v \in Value, enqueue(v) PROVE IInv'
  BY <1>1, EnqueueInv
<1>2. CASE dequeue
  BY <1>2, DequeueInv
<1>3. CASE reset
  BY <1>3, CapacityAssumption
     DEF IInv, TypeOK, RingInvariant, CountersAgree, UsedSlotsWritten, reset,
         Place
<1>4. CASE peek \/ toArray \/ UNCHANGED vars
  BY <1>4 DEF IInv, TypeOK, RingInvariant, CountersAgree, UsedSlotsWritten,
              peek, toArray, vars, Place, Slot
<1> QED
  BY <1>1, <1>2, <1>3, <1>4 DEF Next

\* The ring's variables keep their types: the length never exceeds the
\* capacity and no index is negative (queuebounded.c:69-103).
THEOREM TypeCorrect == Spec => []TypeOK
<1>1. IInv => TypeOK
  BY DEF IInv
<1> QED
  BY InitInv, NextInv, <1>1, PTL DEF Spec

\* Head, tail and length agree and no slot in use is unwritten, whatever the
\* order of enqueue, dequeue and reset (queuebounded.c:69-121).
THEOREM RingCorrect == Spec => []RingInvariant
<1>1. IInv => RingInvariant
  BY DEF IInv
<1> QED
  BY InitInv, NextInv, <1>1, PTL DEF Spec

-------------------------------------------------------------------------------
(* The ring implements the bounded FIFO.                                   *)

\* The sequence the ring stands for, with its length and elements.
LEMMA ContentsIsSequence ==
  IInv => /\ Contents \in Seq(Value)
          /\ Len(Contents) = length
          /\ \A i \in 1 .. length : Contents[i] = Slot(Place(i - 1))
          /\ (Contents = << >>) <=> (length = 0)
<1> SUFFICES ASSUME IInv
             PROVE  /\ Contents \in Seq(Value)
                    /\ Len(Contents) = length
                    /\ \A i \in 1 .. length : Contents[i] = Slot(Place(i - 1))
                    /\ (Contents = << >>) <=> (length = 0)
  OBVIOUS
<1>1. length \in Nat /\ DOMAIN Contents = 1 .. length
  BY CapacityAssumption DEF IInv, TypeOK, Contents
<1>2. \A i \in 1 .. length : Contents[i] = Slot(Place(i - 1))
  BY DEF Contents
<1>3. \A i \in 1 .. length : Slot(Place(i - 1)) \in Value
  BY <1>1 DEF IInv, RingInvariant, UsedSlotsWritten
<1>4. Contents \in [1 .. length -> Value]
  BY <1>3 DEF Contents
<1>5. Contents \in Seq(Value) /\ Len(Contents) = length
  BY <1>1, <1>4
<1>6. (Contents = << >>) <=> (length = 0)
  BY <1>5, EmptySeq
<1> QED
  BY <1>2, <1>5, <1>6

\* The same of the next state.
LEMMA ContentsIsSequenceNext ==
  IInv' => /\ Contents' \in Seq(Value)
           /\ Len(Contents') = length'
           /\ \A i \in 1 .. length' : Contents'[i] = Slot(Place(i - 1))'
           /\ (Contents' = << >>) <=> (length' = 0)
<1>1. (IInv => /\ Contents \in Seq(Value)
               /\ Len(Contents) = length
               /\ \A i \in 1 .. length : Contents[i] = Slot(Place(i - 1))
               /\ (Contents = << >>) <=> (length = 0))'
  BY ContentsIsSequence, PTL
<1> QED
  BY <1>1

\* A new queue stands for the empty sequence.
LEMMA InitRefines == createQueueBounded => Fifo!FifoInit
<1> SUFFICES ASSUME createQueueBounded PROVE Fifo!FifoInit
  OBVIOUS
<1>1. Contents = << >>
  BY InitInv, ContentsIsSequence DEF createQueueBounded
<1> QED
  BY <1>1 DEF createQueueBounded, Fifo!FifoInit, Returned, Fifo!Returned

\* An enqueue appends its value to the sequence the ring stands for, or refuses
\* it exactly when that sequence is as long as the capacity.
LEMMA EnqueueRefines ==
  ASSUME IInv, IInv', NEW v \in Value, enqueue(v)
  PROVE  Fifo!FifoEnqueue(v)
<1> USE CapacityAssumption
<1>1. CASE length = Capacity
  <2>1. Contents' = Contents
    BY <1>1 DEF enqueue, Contents, Place, Slot
  <2> QED
    BY <1>1, <2>1, ContentsIsSequence
       DEF enqueue, Fifo!FifoEnqueue, Returned, Fifo!Returned
<1>2. CASE length # Capacity
  <2>1. length < Capacity /\ length \in Nat /\ length' = length + 1
    <3>1. length' = length + 1
      BY <1>2 DEF enqueue
    <3> QED
      BY <1>2, <3>1 DEF IInv, TypeOK
  <2>2. /\ Contents \in Seq(Value) /\ Len(Contents) = length
        /\ Contents' \in Seq(Value) /\ Len(Contents') = length + 1
        /\ \A i \in 1 .. length : Contents[i] = Slot(Place(i - 1))
        /\ \A i \in 1 .. length + 1 : Contents'[i] = Slot(Place(i - 1))'
    BY <2>1, ContentsIsSequence, ContentsIsSequenceNext
  <2>3. \A i \in 1 .. length : Contents'[i] = Contents[i]
    <3> SUFFICES ASSUME NEW i \in 1 .. length
                 PROVE  Slot(Place(i - 1))' = Slot(Place(i - 1))
      BY <2>1, <2>2
    <3>1. Place(i - 1) # tail
      BY <2>1, PlacesDiffer DEF IInv, RingInvariant, CountersAgree
    <3> QED
      BY <3>1, <1>2 DEF enqueue, Place, Slot, IInv, TypeOK
  <2>4. Contents'[length + 1] = v
    <3>1. tail \in Index /\ Place(length) = tail
      BY <2>1, PlaceIsIndex DEF IInv, RingInvariant, CountersAgree
    <3> SUFFICES ASSUME NEW i \in 1 .. length + 1, i = length + 1
                 PROVE  Slot(Place(i - 1))' = v
      BY <2>1, <2>2
    <3>2. Place(i - 1)' = tail
      BY <3>1, <2>1 DEF enqueue, Place
    <3> QED
      BY <3>1, <3>2, <1>2 DEF enqueue, Slot, IInv, TypeOK
  <2>5. Contents' = Append(Contents, v)
    BY <2>1, <2>2, <2>3, <2>4, SeqEqual, AppendProperties
  <2> QED
    BY <1>2, <2>1, <2>2, <2>5
       DEF enqueue, Fifo!FifoEnqueue, Returned, Fifo!Returned
<1> QED
  BY <1>1, <1>2

\* A dequeue answers with the head of the sequence and leaves its tail, or NULL
\* when there is none.
LEMMA DequeueRefines ==
  ASSUME IInv, IInv', dequeue
  PROVE  Fifo!FifoDequeue
<1> USE CapacityAssumption
<1>1. CASE length = 0
  <2>1. Contents' = Contents
    BY <1>1 DEF dequeue, Contents, Place, Slot
  <2> QED
    BY <1>1, <2>1, ContentsIsSequence
       DEF dequeue, Fifo!FifoDequeue, Returned, Fifo!Returned
<1>2. CASE length > 0
  <2>1. length \in Nat /\ length' = length - 1 /\ values' = values
    BY <1>2 DEF IInv, TypeOK, dequeue
  <2>2. /\ Contents \in Seq(Value) /\ Len(Contents) = length
        /\ Contents # << >>
        /\ Contents' \in Seq(Value) /\ Len(Contents') = length - 1
        /\ \A i \in 1 .. length : Contents[i] = Slot(Place(i - 1))
        /\ \A i \in 1 .. length - 1 : Contents'[i] = Slot(Place(i - 1))'
    BY <1>2, <2>1, ContentsIsSequence, ContentsIsSequenceNext
  <2>3. \A i \in 1 .. length - 1 : Contents'[i] = Contents[i + 1]
    <3> SUFFICES ASSUME NEW i \in 1 .. length - 1
                 PROVE  Slot(Place(i - 1))' = Slot(Place(i))
      BY <2>1, <2>2
    <3>1. Place(i - 1)' = Place(i)
      BY <1>2, <2>1, DequeuePlace DEF IInv, TypeOK
    <3> QED
      BY <3>1, <2>1 DEF Slot
  <2>4. Contents' = Tail(Contents)
    BY <1>2, <2>1, <2>2, <2>3, SeqEqual, HeadTailProperties
  <2>5. Head(Contents) = Slot(head)
    <3>1. Place(0) = head
      BY <1>2 DEF IInv, TypeOK, RingInvariant, CountersAgree, Place
    <3> QED
      BY <3>1, <1>2, <2>1, <2>2, HeadTailProperties
  <2> QED
    BY <1>2, <2>2, <2>4, <2>5
       DEF dequeue, Fifo!FifoDequeue, Returned, Fifo!Returned
<1> QED
  BY <1>1, <1>2 DEF IInv, TypeOK

\* A peek answers as a dequeue would and changes nothing.
LEMMA PeekRefines ==
  ASSUME IInv, peek
  PROVE  Fifo!FifoPeek
<1>1. Contents' = Contents
  BY DEF peek, Contents, Place, Slot
<1>2. (Contents = << >>) <=> ~(length > 0)
  BY ContentsIsSequence, CapacityAssumption DEF IInv, TypeOK
<1>3. CASE length > 0
  <2>1. Place(0) = head /\ length \in Nat
    BY <1>3, CapacityAssumption
       DEF IInv, TypeOK, RingInvariant, CountersAgree, Place
  <2>2. Head(Contents) = Slot(head)
    BY <1>2, <1>3, <2>1, ContentsIsSequence, HeadTailProperties
  <2> QED
    BY <1>1, <1>2, <1>3, <2>2 DEF peek, Fifo!FifoPeek, Returned, Fifo!Returned
<1>4. CASE ~(length > 0)
  BY <1>1, <1>2, <1>4 DEF peek, Fifo!FifoPeek, Returned, Fifo!Returned
<1> QED
  BY <1>3, <1>4

\* Every step of the ring is a step of the FIFO it stands for, or changes
\* nothing the FIFO shows.
LEMMA StepRefines == IInv /\ IInv' /\ [Next]_vars => [Fifo!FifoNext]_(Fifo!fifoVars)
<1> SUFFICES ASSUME IInv, IInv', [Next]_vars
             PROVE  [Fifo!FifoNext]_(Fifo!fifoVars)
  OBVIOUS
<1>1. ASSUME NEW v \in Value, enqueue(v) PROVE Fifo!FifoNext
  BY <1>1, EnqueueRefines DEF Fifo!FifoNext
<1>2. CASE dequeue
  BY <1>2, DequeueRefines DEF Fifo!FifoNext
<1>3. CASE peek
  BY <1>3, PeekRefines DEF Fifo!FifoNext
<1>4. CASE reset
  <2>1. Contents' = << >>
    BY <1>4, ContentsIsSequence DEF reset, Contents
  <2> QED
    BY <1>4, <2>1 DEF reset, Fifo!FifoNext, Fifo!FifoReset, Returned,
                      Fifo!Returned
<1>5. CASE toArray \/ UNCHANGED vars
  <2>1. Contents' = Contents /\ result' = result
    BY <1>5 DEF toArray, vars, Contents, Place, Slot
  <2> QED
    BY <2>1 DEF Fifo!fifoVars
<1> QED
  BY <1>1, <1>2, <1>3, <1>4, <1>5 DEF Next

\* Every behaviour of the ring is a behaviour of a bounded FIFO: a refused
\* enqueue, the wrap of either index and a reset included
\* (queuebounded.c:69-121).
THEOREM RingImplementsFifo == Spec => ImplementsFifo
BY InitInv, NextInv, InitRefines, StepRefines, PTL
   DEF Spec, ImplementsFifo, Fifo!FifoSpec

-------------------------------------------------------------------------------
(* toArray.                                                                *)

\* From a ring that is not both full and past slot 0, `head > tail' holds
\* exactly when the slots in use wrap, and the copy is the whole queue.
LEMMA ToArrayStep ==
  ASSUME IInv, toArray, ~(length = Capacity /\ head > 0)
  PROVE  array' = Contents'
<1> USE CapacityAssumption
<1>1. Contents' = Contents
  BY DEF toArray, Contents, Place, Slot
<1>2. Copied = Contents
  <2>1. CASE head > tail
    <3>1. \A i \in 1 .. length :
            (IF i <= Capacity - head THEN head + i - 1
                                     ELSE i - (Capacity - head) - 1)
              = Place(i - 1)
      BY <2>1 DEF IInv, TypeOK, RingInvariant, CountersAgree, Place
    <3> QED
      BY <2>1, <3>1 DEF Copied, Contents
  <2>2. CASE ~(head > tail)
    <3>1. \A i \in 1 .. length : head + i - 1 = Place(i - 1)
      BY <2>2 DEF IInv, TypeOK, RingInvariant, CountersAgree, Place
    <3> QED
      BY <2>2, <3>1 DEF Copied, Contents
  <2> QED
    BY <2>1, <2>2
<1> QED
  BY <1>1, <1>2 DEF toArray

\* toArray returns the queue in order, except from a full ring whose head is
\* not slot 0 (queuebounded.c:123-143).
THEOREM ToArrayCorrect == Spec => ToArrayUnlessFullAndWrapped
<1>1. IInv /\ [Next]_vars =>
        [toArray => (array' = Contents \/ (length = Capacity /\ head > 0))]_vars
  BY ToArrayStep DEF toArray, Contents, Place, Slot
<1> QED
  BY InitInv, NextInv, <1>1, PTL DEF Spec, ToArrayUnlessFullAndWrapped
===============================================================================
