----------------------------- MODULE FileBufferList -----------------------------
(***************************************************************************)
(* The FileBufferList of io/filebuffer.c: adding a buffer, looking data up *)
(* by its place in the file, and the walk along `next' that crc32 and      *)
(* write make from the buffer the lookup returned.                         *)
(*                                                                         *)
(* A list is a record [values, numBytes, fileOffset]; its buffers have at  *)
(* least the fields fileOffset, dataOffset and numBytes.  A new buffer     *)
(* becomes `next' of the last, so `next' is the order of `values'.         *)
(***************************************************************************)
EXTENDS Integers, Sequences, FiniteSetsExt

CONSTANT Word   \* bound: 2^32 in the code, the range of an unsigned counter

ASSUME FileBufferListAssumption == Word \in Nat \ {0}

\* Arithmetic on uint32_t.
Unsigned(n) == n % Word

EmptyList == [values |-> << >>, numBytes |-> 0, fileOffset |-> 0]

\* The first buffer of a list determines its file offset.
addBuffer(list, fileBuffer) ==
    [values |-> Append(list.values, fileBuffer),
     numBytes |-> list.numBytes + fileBuffer.numBytes,
     fileOffset |-> IF list.values = << >> THEN fileBuffer.fileOffset
                                           ELSE list.fileOffset]

\* The buffer that starts last at or before the position, in list order up to
\* the first that starts after it.
StartIndex(list, position) ==
    LET after == {i \in 2 .. Len(list.values) :
                    list.values[i].fileOffset > position}
    IN IF after = {} THEN Len(list.values) ELSE Min(after) - 1

\* Mutant of containsData: the length is not looked at.
containsDataBegin(list, position, length) ==
    /\ list.values # << >>
    /\ list.fileOffset <= position
    /\ list.fileOffset + list.numBytes >= position

\* containsData judges by the list's first offset and its total size.
containsData(list, position, length) ==
    /\ list.values # << >>
    /\ list.fileOffset <= position
    /\ list.fileOffset + list.numBytes >= position + length

\* What containsData leaves: the position within the buffer it returns.
Found(list, position) ==
    LET i == StartIndex(list, position) IN
    [list EXCEPT !.values[i].dataOffset = position - list.values[i].fileOffset]

\* From the given buffer on: in each the bytes from its own dataOffset to its
\* end, as many as are still wanted, each as its buffer and its place there.
\* There is none past the last `next'.
PastTheLast == << >>
Walk(values, start, length) ==
    LET take(i, wanted) ==
          Min({Unsigned(values[i].numBytes - values[i].dataOffset), wanted})
        walked[i \in 1 .. Len(values) + 1, wanted \in 0 .. length] ==
          IF wanted = 0 THEN << >>
          ELSE IF i > Len(values) THEN << PastTheLast >>
          ELSE [k \in 1 .. take(i, wanted) |->
                  <<values[i], values[i].dataOffset + k - 1>>]
               \o walked[i + 1, wanted - take(i, wanted)]
    IN walked[start, length]
===============================================================================
