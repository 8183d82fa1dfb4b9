----------------------------- MODULE KeyValueMap -----------------------------
(***************************************************************************)
(* What a map promises its callers, with no representation: a function     *)
(* from the keys it holds to their values.  Every call of the interface    *)
(* records what it returned in `result'.                                   *)
(***************************************************************************)
EXTENDS Naturals, Sequences, SequencesExt, FiniteSetsExt

CONSTANTS
    Key,       \* keys that are not equal to one another
    Value,     \* what a key may be mapped to
    Batches,   \* the sequences of <<key, value>> a caller adds in one call
    NULL       \* the null pointer

VARIABLES
    map,       \* [the keys held -> their values]
    result     \* [call |-> the last call, value |-> what it returned]

mapVars == <<map, result>>

Returned(call, value) == [call |-> call, value |-> value]

Mapped(key) == IF key \in DOMAIN map THEN map[key] ELSE NULL

MapInit ==
    /\ map = << >>
    /\ result = Returned("init", NULL)

MapPut(key, value) ==
    /\ map' = [k \in DOMAIN map \union {key} |->
                 IF k = key THEN value ELSE map[k]]
    /\ result' = Returned("put", Mapped(key))

\* Of several values for one key the last one stays.
MapPutPairs(call, pairs) ==
    LET last(key) == Max({i \in 1 .. Len(pairs) : pairs[i][1] = key})
        keys == {pairs[i][1] : i \in 1 .. Len(pairs)}
    IN /\ map' = [k \in DOMAIN map \union keys |->
                    IF k \in keys THEN pairs[last(k)][2] ELSE map[k]]
       /\ result' = Returned(call, NULL)

MapRemove(key) ==
    /\ map' = [k \in DOMAIN map \ {key} |-> map[k]]
    /\ result' = Returned("remove", Mapped(key))

MapGet(key) ==
    /\ result' = Returned("get", Mapped(key))
    /\ UNCHANGED map

MapContainsKey(key) ==
    /\ result' = Returned("containsKey", key \in DOMAIN map)
    /\ UNCHANGED map

MapClear ==
    /\ map' = << >>
    /\ result' = Returned("clear", NULL)

\* The pairs of a stack are added from its top, so that the first one stays.
MapNext ==
    \/ \E key \in Key :
         \/ MapRemove(key) \/ MapGet(key) \/ MapContainsKey(key)
         \/ \E value \in Value : MapPut(key, value)
    \/ \E pairs \in Batches :
         \/ MapPutPairs("putAll", pairs)
         \/ MapPutPairs("putFromStack", Reverse(pairs))
    \/ MapClear

MapSpec == MapInit /\ [][MapNext]_mapVars
===============================================================================
