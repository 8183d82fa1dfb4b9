------------------------------ MODULE MCHashMap ------------------------------
(***************************************************************************)
(* The hash table for TLC.  Capacities are not rounded up to eight, so    *)
(* that four keys make a table of one chain grow twice, to three and five; *)
(* a map initialized with no capacity keeps its one chain.                 *)
(***************************************************************************)
EXTENDS HashMap

\* Keys that share a chain in a table of 3, of 5, of both or of one only.
MCHashCode == [k \in Key |-> CASE k = 1 -> 0 [] k = 2 -> 3 [] k = 3 -> 5
                               [] OTHER -> 15]

\* A batch with a key twice, and one that makes an empty table grow.
MCBatches == {<< <<1, "x">>, <<2, "x">>, <<1, "y">> >>,
              << <<2, "y">>, <<3, "x">>, <<4, "x">> >>}
===============================================================================
