------------------------------ MODULE PtrArray ------------------------------
(***************************************************************************)
(* The sort of lang/array.c, a quicksort without recursion.  A pointer is  *)
(* the number it has in the order of compare.                              *)
(***************************************************************************)
EXTENDS Integers, Sequences, SequencesExt

\* sortPtrArray: ranges wait on a stack of its own, which has a slot per pointer.
Swapped(a, i, j) == [a EXCEPT ![i] = a[j], ![j] = a[i]]

\* Pointers up to that at h go to the left; "pivot" is where that one belongs.
PartitionStep(s, j) ==
    IF s.a[j] <= s.highPtr
    THEN [s EXCEPT !.a = Swapped(@, s.pivot, j), !.pivot = @ + 1]
    ELSE s

Partition(a, l, h) ==
    LET split == FoldLeft(PartitionStep, [a |-> a, pivot |-> l, highPtr |-> a[h]],
                          [k \in 1 .. h - l |-> l + k - 1])
    IN [split EXCEPT !.a = Swapped(@, split.pivot, h)]

\* One turn of the loop; "slots" is the most the stack ever held.
SortStep(s) ==
    LET range == Last(s.stack)
        split == Partition(s.a, range[1], range[2])
        left  == IF split.pivot - 1 > range[1] THEN <<<<range[1], split.pivot - 1>>>> ELSE << >>
        right == IF split.pivot + 1 < range[2] THEN <<<<split.pivot + 1, range[2]>>>> ELSE << >>
        stack == Front(s.stack) \o left \o right
    IN [a |-> split.a, stack |-> stack,
        slots |-> IF 2 * Len(stack) > s.slots THEN 2 * Len(stack) ELSE s.slots]

\* Each turn puts one pointer in its place.
SortTurn(s, k) == IF s.stack = << >> THEN s ELSE SortStep(s)

sortPtrArray(a) ==
    FoldLeft(SortTurn, [a |-> a, stack |-> <<<<1, Len(a)>>>>, slots |-> 2],
             [k \in 1 .. Len(a) |-> k])
=============================================================================
