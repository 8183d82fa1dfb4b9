------------------------------- MODULE HashMap -------------------------------
(***************************************************************************)
(* The hash table of adt/hashmap.c: `length' chains of entries, a new      *)
(* entry at the front of its chain, and a capacity that doubles when one   *)
(* entry more is put.  The chains are then walked in order and each entry  *)
(* is put at the front of its new chain.  An entry keeps the hash of its   *)
(* key.                                                                    *)
(*                                                                         *)
(* A key stands for all pointers `equals' takes for the same; which of     *)
(* them an entry keeps is left out.  The table is initHashMap's, which is  *)
(* cleared; createHashMap leaves it uninitialized.                         *)
(***************************************************************************)
EXTENDS Integers, Sequences, SequencesExt, FiniteSetsExt

CONSTANTS
    Key, Value, Batches, NULL,   \* as in KeyValueMap
    HashCode,     \* [Key -> Nat]: the function `hashCode'
    Capacities,   \* the capacities a map is initialized with
    Multiple      \* what a capacity is rounded up to a multiple of: 8

ASSUME HashMapAssumption ==
    /\ HashCode \in [Key -> Nat]
    /\ Capacities \subseteq Nat
    /\ Multiple \in Nat \ {0}
    /\ Batches \subseteq Seq(Key \X Value)

VARIABLES
    hashMap,   \* [table, capacity, size, length]
    result     \* [call, value]: what the last call returned

vars == <<hashMap, result>>

Returned(call, value) == [call |-> call, value |-> value]

\* An odd length of 1.375 times the capacity.
TableLength(capacity) ==
    LET length == (11 * capacity) \div 8 IN
    IF length % 2 = 0 THEN length + 1 ELSE length

EmptyTable(length) == [i \in 0 .. length - 1 |-> << >>]

initHashMap(requested) ==
    LET capacity == ((requested + Multiple - 1) \div Multiple) * Multiple IN
    [table |-> EmptyTable(TableLength(capacity)),
     capacity |-> capacity,
     size |-> 0,
     length |-> TableLength(capacity)]

-------------------------------------------------------------------------------
(* Chains.                                                                 *)

IndexOf(m, key) == HashCode[key] % m.length

Chain(m, key) == m.table[IndexOf(m, key)]

\* The place of the key in its chain, or 0.
Place(m, key) == SelectInSeq(Chain(m, key), LAMBDA e : e.key = key)

ValueOf(m, key) ==
    IF Place(m, key) = 0 THEN NULL ELSE Chain(m, key)[Place(m, key)].value

NewEntry(key, value) == [key |-> key, value |-> value, hash |-> HashCode[key]]

\* Every entry of a table, one chain after the other.
Joined(entries, chain) == entries \o chain

AllEntries(m) == FoldLeft(Joined, << >>, [i \in 1 .. m.length |-> m.table[i - 1]])

\* An entry becomes the first of its chain.
PutFirst(m, e) == [m EXCEPT !.table[e.hash % m.length] = <<e>> \o @]

\* Mutant of resize: the chains move as they are.
resizeKeepingChains(m) ==
    LET length == TableLength(2 * m.capacity) IN
    [table |-> [i \in 0 .. length - 1 |->
                  IF i < m.length THEN m.table[i] ELSE << >>],
     capacity |-> 2 * m.capacity,
     size |-> m.size,
     length |-> length]

\* The table of twice the capacity before an entry has moved to it.
Longer(m) ==
    LET length == TableLength(2 * m.capacity) IN
    [table |-> EmptyTable(length),
     capacity |-> 2 * m.capacity,
     size |-> m.size,
     length |-> length]

resize(m) == FoldLeft(PutFirst, Longer(m), AllEntries(m))

\* Mutant of Roomy: the map grows one entry late.
RoomyLate(m) == IF m.size = m.capacity + 1 THEN resize(m) ELSE m

\* The map once it has room for one entry more.
Roomy(m) == IF m.size = m.capacity THEN resize(m) ELSE m

\* Mutant of PutInto: the index of the chain is not the one in the new table.
PutAtOldIndex(m, key, value) ==
    IF Place(m, key) # 0
    THEN [m EXCEPT !.table[IndexOf(m, key)][Place(m, key)].value = value]
    ELSE [Roomy(m) EXCEPT
            !.table[IndexOf(m, key)] = <<NewEntry(key, value)>> \o @,
            !.size = @ + 1]

\* An entry of the key gets the new value; otherwise a new entry is counted and
\* becomes the first of its chain.
PutInto(m, key, value) ==
    IF Place(m, key) # 0
    THEN [m EXCEPT !.table[IndexOf(m, key)][Place(m, key)].value = value]
    ELSE PutFirst([Roomy(m) EXCEPT !.size = @ + 1], NewEntry(key, value))

PutPair(m, pair) == PutInto(m, pair[1], pair[2])

\* The map without the entry of the key.
Without(m, key) ==
    IF Place(m, key) = 0 THEN m
    ELSE [m EXCEPT !.table[IndexOf(m, key)] = RemoveAt(@, Place(m, key)),
                   !.size = @ - 1]

-------------------------------------------------------------------------------
(* Calls.                                                                  *)

Init ==
    /\ \E capacity \in Capacities : hashMap = initHashMap(capacity)
    /\ result = Returned("init", NULL)

put(key, value) ==
    /\ hashMap' = PutInto(hashMap, key, value)
    /\ result' = Returned("put", ValueOf(hashMap, key))

\* Keys and values alternate in an array.
putAll(elementArray, numElements) ==
    /\ hashMap' = FoldLeft(PutPair, hashMap,
                           [i \in 1 .. numElements \div 2 |->
                              <<elementArray[2 * i - 2], elementArray[2 * i - 1]>>])
    /\ result' = Returned("putAll", NULL)

\* On a stack the value pushed after its key comes before it.
putFromStack(stack, numElements) ==
    /\ hashMap' = FoldLeft(PutPair, hashMap,
                           [i \in 1 .. numElements \div 2 |->
                              <<stack[2 * i - 1], stack[2 * i - 2]>>])
    /\ result' = Returned("putFromStack", NULL)

\* The array of a sequence of pairs, and the stack mapQueryString makes of it.
ElementArray(pairs) ==
    [i \in 0 .. 2 * Len(pairs) - 1 |-> pairs[(i \div 2) + 1][(i % 2) + 1]]
Stack(pairs) ==
    [i \in 0 .. 2 * Len(pairs) - 1 |-> pairs[Len(pairs) - (i \div 2)][2 - (i % 2)]]

remove(key) ==
    /\ hashMap' = Without(hashMap, key)
    /\ result' = Returned("remove", ValueOf(hashMap, key))

get(key) ==
    /\ result' = Returned("get", ValueOf(hashMap, key))
    /\ UNCHANGED hashMap

containsKey(key) ==
    /\ result' = Returned("containsKey", Place(hashMap, key) # 0)
    /\ UNCHANGED hashMap

clear ==
    /\ hashMap' = [hashMap EXCEPT !.table = EmptyTable(hashMap.length),
                                  !.size = 0]
    /\ result' = Returned("clear", NULL)

Next ==
    \/ \E key \in Key :
         \/ remove(key) \/ get(key) \/ containsKey(key)
         \/ \E value \in Value : put(key, value)
    \/ \E pairs \in Batches :
         \/ putAll(ElementArray(pairs), 2 * Len(pairs))
         \/ putFromStack(Stack(pairs), 2 * Len(pairs))
    \/ clear

Spec == Init /\ [][Next]_vars

-------------------------------------------------------------------------------
(* Properties.                                                             *)

Entry == [key : Key, value : Value, hash : Nat]

\* Every variable holds values of its C type.
TypeOK ==
    /\ hashMap.capacity \in Nat /\ hashMap.size \in Nat
    /\ hashMap.length \in Nat \ {0}
    /\ DOMAIN hashMap.table = 0 .. hashMap.length - 1
    /\ \A i \in DOMAIN hashMap.table : hashMap.table[i] \in Seq(Entry)

\* Every entry is in the chain of its key's hash and no key has two entries, in
\* whatever order entries were put, removed and moved to a longer table
\* (hashmap.c:155-182, 225-252), and `size' counts them.
EntriesPlaced ==
    /\ TypeOK
    /\ \A i \in DOMAIN hashMap.table : \A j \in DOMAIN hashMap.table[i] :
         LET e == hashMap.table[i][j] IN
         e.hash = HashCode[e.key] /\ i = e.hash % hashMap.length
    /\ LET entries == AllEntries(hashMap) IN
       /\ IsInjective([i \in DOMAIN entries |-> entries[i].key])
       /\ hashMap.size = Len(entries)

\* There are never more entries than the capacity and never more than chains: the
\* table grows in time (hashmap.c:167), except that of capacity 0.
ChainsStayShort ==
    hashMap.capacity > 0 =>
      hashMap.size <= hashMap.capacity /\ hashMap.capacity <= hashMap.length

\* The map a table stands for.
Contents ==
    LET entries == AllEntries(hashMap) IN
    [key \in {entries[i].key : i \in DOMAIN entries} |-> ValueOf(hashMap, key)]

Map == INSTANCE KeyValueMap WITH map <- Contents

\* Every call answers as a map would: a key keeps its value over other puts,
\* removals in its chain and every growth of the table (hashmap.c:130-217).
ImplementsMap == Map!MapSpec
===============================================================================
