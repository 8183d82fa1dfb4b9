------------------------------ MODULE MCZipArchive ------------------------------
(* Archives of up to three members for ZipArchive: a sector is 2 units, a page *)
(* 4 and a ticket 8, a local header, a record of the central directory and the *)
(* end record are one unit each.                                               *)
EXTENDS ZipArchive

Kind(method, size, local, inflates, name) ==
    [method |-> method, compressSize |-> size, localLength |-> local,
     inflates |-> inflates, name |-> name, isDirectory |-> method = "stored" /\ size = 0]

Plains == {
    Kind("stored", 0, 1, TRUE, <<"d">>),
    Kind("stored", 2, 1, TRUE, <<"d", "a">>),
    Kind("deflate", 0, 1, TRUE, <<"b">>),
    Kind("stored", 1, 1, TRUE, <<"a">>),
    Kind("deflate", 3, 1, TRUE, <<"c">>),
    Kind("deflate", 1, 1, TRUE, <<"d", "c">>),
    Kind("deflate", 3, 1, TRUE, <<"e", "f">>)}
Others == {
    Kind("stored", 5, 1, TRUE, <<"g">>),
    [Kind("stored", 0, 1, TRUE, <<"h">>) EXCEPT !.isDirectory = FALSE],
    Kind("deflate", 1, 2, TRUE, <<"i">>),
    Kind("deflate", 2, 1, FALSE, <<"j">>),
    Kind("other", 1, 1, TRUE, <<"k">>),
    Kind("stored", 1, 1, TRUE, <<"d", "e", "f">>),
    Kind("deflate", 1, 1, TRUE, <<"d", "e", "f", "g", "h">>)}

\* The members one after the other, the central directory, the end record.
Place(kinds, gap) ==
    LET Size(kind) == kind.localLength + kind.compressSize
        start[k \in 1 .. Len(kinds) + 1] ==
          IF k = 1 THEN 0 ELSE start[k - 1] + Size(kinds[k - 1])
        total == start[Len(kinds) + 1] + gap
    IN [entries |-> [k \in DOMAIN kinds |->
                       [method |-> kinds[k].method,
                        compressSize |-> kinds[k].compressSize,
                        localLength |-> kinds[k].localLength,
                        inflates |-> kinds[k].inflates,
                        name |-> kinds[k].name,
                        isDirectory |-> kinds[k].isDirectory,
                        centralLength |-> 1,
                        localOffset |-> start[k]]],
        startOffset |-> total, recordSize |-> 1,
        endOffset |-> total + Len(kinds),
        fileSize |-> total + Len(kinds) + 1]

Sequences(S) == UNION {[1 .. n -> S] : n \in 0 .. 2}
                  \cup {s \in [1 .. 3 -> Plains] : IsInjective(s)}
Distinct(kinds) == IsInjective([k \in DOMAIN kinds |-> kinds[k].name])

OldFile == [dirs |-> {}, files |-> <<"b">> :> <<OLD, OLD, OLD>>]
OldDirectory == [dirs |-> {<<"b">>}, files |-> << >>]
OldFileAbove == [dirs |-> {}, files |-> (<<"d">> :> <<OLD>>)]

MCInputs ==
    {[archive |-> Place(kinds, gap), tree |-> EmptyTree] :
       kinds \in {k \in Sequences(Plains \cup Others) : Distinct(k)}, gap \in 0 .. 2}
    \cup
    {[archive |-> Place(kinds, 0), tree |-> old] :
       kinds \in {k \in Sequences(Plains) : Distinct(k)},
       old \in {OldFile, OldDirectory, OldFileAbove}}
===============================================================================
