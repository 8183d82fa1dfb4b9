------------------------------ MODULE StackArray ------------------------------
(***************************************************************************)
(* The growable arrays of adt/stackarray.c and adt/listarray: a block of   *)
(* `size' pointers of which the first `length' are in use.  A full array   *)
(* doubles its size; slots that were never written are not initialized,    *)
(* and a pop leaves its pointer in the slot.                               *)
(***************************************************************************)
EXTENDS Integers, Sequences

CONSTANTS
    NULL,         \* the null pointer
    Uninit,       \* what an unwritten slot holds
    DefaultSize   \* F106C0AB_DEFAULT_SIZE and LISTARRAY_DEFAULT_SIZE: 8

ASSUME DefaultSizeAssumption == DefaultSize \in Nat \ {0}

\* A block of `size' pointers that begins with the first `length' of another.
resizeArray(values, length, size) ==
    [i \in 0 .. size - 1 |-> IF i < length THEN values[i] ELSE Uninit]

initStackArray ==
    [values |-> [i \in 0 .. DefaultSize - 1 |-> Uninit],
     size |-> DefaultSize,
     length |-> 0]

\* The stack with room for one more pointer.
Grown(stack) ==
    IF stack.length = stack.size
    THEN [values |-> resizeArray(stack.values, stack.length, 2 * stack.size),
          size |-> 2 * stack.size,
          length |-> stack.length]
    ELSE stack

\* Mutant of push: the array grows without taking the pointers along.
pushUncopied(stack, item) ==
    LET values == IF stack.length = stack.size
                  THEN resizeArray(stack.values, 0, 2 * stack.size)
                  ELSE stack.values
    IN [values |-> [values EXCEPT ![stack.length] = item],
        size |-> Grown(stack).size,
        length |-> stack.length + 1]

push(stack, item) ==
    LET grown == Grown(stack) IN
    [values |-> [grown.values EXCEPT ![stack.length] = item],
     size |-> grown.size,
     length |-> stack.length + 1]

peek(stack) ==
    IF stack.length = 0 THEN NULL ELSE stack.values[stack.length - 1]

\* What pop leaves of the stack; it returns what peek does.
Popped(stack) ==
    IF stack.length = 0 THEN stack ELSE [stack EXCEPT !.length = @ - 1]

\* b196167f_add of a ListArray grows as a stack does; it ignores NULL.
initListArray == initStackArray

add(list, element) == IF element = NULL THEN list ELSE push(list, element)

-------------------------------------------------------------------------------
\* The pointers in use, the bottom of the stack first.
Items(stack) == [i \in 1 .. stack.length |-> stack.values[i - 1]]

WellFormed(stack) ==
    /\ stack = [values |-> stack.values, size |-> stack.size,
                length |-> stack.length]
    /\ stack.size \in Nat \ {0}
    /\ stack.length \in 0 .. stack.size
    /\ stack.values = [i \in 0 .. stack.size - 1 |-> stack.values[i]]
===============================================================================
