------------------------------ MODULE ListArray ------------------------------
(***************************************************************************)
(* adt/listarray.c, over the sort of lang/array.c.  add, addAll and        *)
(* addFromStack are assembler on x86-64 and the C of the file on Arm,      *)
(* which grows a list in other steps.  A list is an array of slots of      *)
(* which the first "length" are in use; an unused slot is NULL.            *)
(***************************************************************************)
EXTENDS PtrArray, Functions

CONSTANTS
    Elements,     \* the pointers, as numbers: their order is that of compare
    Batches,      \* the arrays that addAll and addFromStack are given
    ListSizes,    \* the sizes a list is made with
    Capacities,   \* what ensureCapacity is asked for
    MaxListLength \* bound: a list of this length grows no more

ASSUME ListAssumption ==
    /\ Elements \subseteq Int /\ Batches \subseteq Seq(Int)
    /\ ListSizes \subseteq Nat /\ Capacities \subseteq Nat

VARIABLES
    list,         \* [values, length, state, build]
    added         \* ghost: what was added and not cleared, in the list's order

listVars == <<list, added>>

NULL == 0

createListArrayWithSize(size, build) ==
    [values |-> [k \in 1 .. size |-> NULL], length |-> 0, state |-> "ok", build |-> build]

Size(l) == Len(l.values)
InUse(l) == SubSeq(l.values, 1, l.length)

\* resizeArray aborts when it has no element to copy.
resizeArray(l, size) ==
    IF l.length = 0 THEN [l EXCEPT !.state = "aborted"]
    ELSE [l EXCEPT !.values = InUse(l) \o [k \in 1 .. size - l.length |-> NULL]]

\* Pointers written from the slot behind "at" on.
Put(l, at, elements) ==
    IF l.state # "ok" THEN l
    ELSE IF at + Len(elements) > Size(l) THEN [l EXCEPT !.state = "overrun"]
    ELSE [l EXCEPT !.values = [k \in 1 .. Size(l) |->
             IF k \in at + 1 .. at + Len(elements) THEN elements[k - at] ELSE @[k]]]

Longer(l, length) == IF l.state = "ok" THEN [l EXCEPT !.length = length] ELSE l

add(l, element) ==
    LET grown == IF l.length = Size(l) THEN resizeArray(l, 2 * Size(l)) ELSE l
    IN IF element = NULL THEN l
       ELSE Longer(Put(grown, l.length, <<element>>), l.length + 1)

\* Room for a batch, half as much again as it needs.
Grown(l, newLength) ==
    IF newLength > Size(l) THEN resizeArray(l, newLength + newLength \div 2) ELSE l

addAll(l, elements) ==
    LET newLength == l.length + Len(elements)
    IN IF elements = << >> THEN l
       ELSE Longer(Put(Grown(l, newLength), l.length, elements), newLength)

\* A mutant for the runs: the copy begins at the new length.
addFromStackBehind(l, elements) ==
    LET newLength == l.length + Len(elements)
    IN Longer(Put(Grown(l, newLength), newLength, elements), newLength)

\* The pointers of a stack, from its bottom on.
addFromStack(l, elements) ==
    LET newLength == l.length + Len(elements)
    IN IF elements = << >> THEN l
       ELSE Longer(Put(Grown(l, newLength), l.length, elements), newLength)

Rounded(n) == ((n + 7) \div 8) * 8

\* The C of the three: NULL is an element like any other, and a batch that
\* would just fill the list makes it grow.
addInC(l, element) ==
    LET grown == IF l.length = Size(l) THEN resizeArray(l, 2 * Rounded(l.length)) ELSE l
    IN Longer(Put(grown, l.length, <<element>>), l.length + 1)

GrownInC(l, newLength) ==
    IF newLength >= Size(l) THEN resizeArray(l, 2 * Rounded(newLength)) ELSE l

addAllInC(l, elements) ==
    LET newLength == l.length + Len(elements)
    IN Longer(Put(GrownInC(l, newLength), l.length, elements), newLength)

addFromStackInC(l, elements) ==
    LET newLength == l.length + Len(elements)
    IN Longer(Put(GrownInC(l, newLength), l.length, elements), newLength)

ensureCapacity(l, capacity) ==
    IF Size(l) < capacity THEN resizeArray(l, Rounded(capacity)) ELSE l

clear(l) == [l EXCEPT !.length = 0]

reset(l) ==
    [l EXCEPT !.length = 0,
              !.values = [k \in DOMAIN @ |-> IF k <= l.length THEN NULL ELSE @[k]]]

get(l, index) == IF index < l.length THEN l.values[index + 1] ELSE NULL
last(l) == IF l.length > 0 THEN l.values[l.length] ELSE NULL

------------------------------------------------------------------------------
\* The stack is as long as the array, too short for the one range of a single
\* pointer.
sort(l) ==
    LET sorted == sortPtrArray(InUse(l))
    IN IF l.length = 0 THEN l
       ELSE [l EXCEPT
               !.values = sorted.a \o SubSeq(@, l.length + 1, Len(@)),
               !.state = IF sorted.slots > l.length \/ sorted.stack # << >>
                         THEN "sort overrun" ELSE @]

------------------------------------------------------------------------------
ListInit ==
    /\ \E size \in ListSizes, build \in {"x86-64", "Arm"} :
          list = createListArrayWithSize(size, build)
    /\ added = << >>

ListIsUsable == list.state = "ok"
Grows(n) == ListIsUsable /\ list.length + n <= MaxListLength
OnArm == list.build = "Arm"

Add(e) ==
    /\ Grows(1)
    /\ list' = IF OnArm THEN addInC(list, e) ELSE add(list, e)
    /\ added' = IF e = NULL /\ ~OnArm THEN added ELSE Append(added, e)
AddAll(batch) ==
    /\ Grows(Len(batch))
    /\ list' = IF OnArm THEN addAllInC(list, batch) ELSE addAll(list, batch)
    /\ added' = added \o batch
AddFromStack(batch) ==
    /\ Grows(Len(batch))
    /\ list' = IF OnArm THEN addFromStackInC(list, batch) ELSE addFromStack(list, batch)
    /\ added' = added \o batch
EnsureCapacity(n) == ListIsUsable /\ list' = ensureCapacity(list, n) /\ UNCHANGED added
Clear == ListIsUsable /\ list' = clear(list) /\ added' = << >>
ResetList == ListIsUsable /\ list' = reset(list) /\ added' = << >>
\* compare takes no NULL.
Sort ==
    /\ ListIsUsable /\ NULL \notin ToSet(added)
    /\ list' = sort(list)
    /\ \E order \in Bijection(DOMAIN added, DOMAIN added) :
          added' = [i \in DOMAIN added |-> added[order[i]]]
    /\ IsSorted(added', <=)

ListNext ==
    \/ \E e \in Elements \cup {NULL} : Add(e)
    \/ \E batch \in Batches : AddAll(batch) \/ AddFromStack(batch)
    \/ \E n \in Capacities : EnsureCapacity(n)
    \/ Clear \/ ResetList \/ Sort

ListSpec == ListInit /\ [][ListNext]_listVars

------------------------------------------------------------------------------
Holds(elements) ==
    /\ last(list) = IF elements = << >> THEN NULL ELSE Last(elements)
    /\ \A i \in 0 .. Len(elements) :
          get(list, i) = IF i < Len(elements) THEN elements[i + 1] ELSE NULL

\* The list holds what was added to it, in order and sorted when it was sorted;
\* it ends the program only while it is empty, and nothing leaves it; a sort
\* leaves its own stack only for a single pointer.
KeepsItsElements ==
    /\ list.state \in {"ok", "sort overrun"} => Holds(added)
    /\ list.state = "aborted" => list.length = 0
    /\ list.state = "sort overrun" => Len(added) = 1
    /\ list.state # "overrun"
=============================================================================
