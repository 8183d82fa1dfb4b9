----------------------------- MODULE InputBuffer -----------------------------
(***************************************************************************)
(* The bit reader of compress/iobuffer.c over a chain of FileBuffers.      *)
(*                                                                         *)
(* An InputBuffer keeps two positions: bitPos counts from the first bit of *)
(* the data, offsetBitPos from the first bit of the page it is in.  A read *)
(* takes one word from the byte the position is in, across the end of the  *)
(* page when there is a next one, and drops the bits before the position.  *)
(*                                                                         *)
(* A word is the sequence of its bits, the least significant first, which  *)
(* is the order of the stream.  The chain is a sequence of pages, a        *)
(* FileBuffer its index.                                                   *)
(***************************************************************************)
EXTENDS Integers, Sequences

CONSTANTS
    ByteBits,   \* bits of a byte: 8 in the code
    WordBytes,  \* bytes a read takes: 8 in the code
    PageBits    \* bits of a memory page: OFFSET_BIT_END_POS

ASSUME InputBufferAssumption ==
    /\ ByteBits \in Nat \ {0} /\ WordBytes \in Nat \ {0} /\ PageBits \in Nat \ {0}
    /\ PageBits % ByteBits = 0

WordBits == WordBytes * ByteBits

\* The bits a word holds whatever position it is read at: OFFSET_BIT_MIN.
MinBits == WordBits - (ByteBits - 1)

initInputBuffer(dataOffset, length) ==
    [fileBuffer |-> 1,
     bits |-> [k \in 1 .. WordBits |-> 0],
     bitPos |-> 0,
     totalNumBits |-> length * ByteBits,
     offsetBitPos |-> dataOffset * ByteBits]

\* The low n bits of a word, and the word without them.
Low(bits, n) == SubSeq(bits, 1, n)
ShiftRight(bits, n) == SubSeq(bits, n + 1, Len(bits)) \o [k \in 1 .. n |-> 0]

\* A number of which these are the bits, the least significant first.
Number(bits) ==
    LET sum[k \in 0 .. Len(bits)] == IF k = 0 THEN 0
                                     ELSE sum[k - 1] + bits[k] * 2 ^ (k - 1)
    IN sum[Len(bits)]

\* The word at the byte of the position: from the page alone when it is all
\* there, or when there is no next page and memory past the page is read;
\* otherwise the rest comes from the start of the next page.
Word(chain, b) ==
    LET page == chain.pages[b.fileBuffer]
        start == (b.offsetBitPos \div ByteBits) * ByteBits
        across == /\ b.offsetBitPos + MinBits > PageBits
                  /\ b.fileBuffer < Len(chain.pages)
    IN [k \in 1 .. WordBits |->
          IF k + start <= PageBits THEN page[k + start]
          ELSE IF across THEN chain.pages[b.fileBuffer + 1][k + start - PageBits]
          ELSE chain.after]

getNextBits(chain, b) ==
    [b EXCEPT !.bits = ShiftRight(Word(chain, b), b.offsetBitPos % ByteBits)]

\* Mutant of Advanced: the position in the next page starts at 0.
AdvancedToPageStart(chain, b, numBits) ==
    LET next == b.offsetBitPos + numBits
        moved == [b EXCEPT !.bitPos = @ + numBits] IN
    IF b.bitPos + numBits > b.totalNumBits THEN [ok |-> FALSE, buffer |-> b]
    ELSE IF next <= PageBits
    THEN [ok |-> TRUE, buffer |-> [moved EXCEPT !.offsetBitPos = next]]
    ELSE IF b.fileBuffer = Len(chain.pages) THEN [ok |-> FALSE, buffer |-> moved]
    ELSE [ok |-> TRUE, buffer |-> [moved EXCEPT !.fileBuffer = @ + 1,
                                                !.offsetBitPos = 0]]

\* Both positions move, to the next page when the end of this one is passed.
\* bitPos has moved when it turns out that there is no next page.
Advanced(chain, b, numBits) ==
    LET next == b.offsetBitPos + numBits
        moved == [b EXCEPT !.bitPos = @ + numBits] IN
    IF b.bitPos + numBits > b.totalNumBits THEN [ok |-> FALSE, buffer |-> b]
    ELSE IF next <= PageBits
    THEN [ok |-> TRUE, buffer |-> [moved EXCEPT !.offsetBitPos = next]]
    ELSE IF b.fileBuffer = Len(chain.pages) THEN [ok |-> FALSE, buffer |-> moved]
    ELSE [ok |-> TRUE, buffer |-> [moved EXCEPT !.fileBuffer = @ + 1,
                                                !.offsetBitPos = next - PageBits]]

advanceNumBits(chain, b, numBits) == Advanced(chain, b, numBits)

\* The word is read where the position was, and kept when the move succeeds.
useNumBits(chain, b, numBits) ==
    LET read == getNextBits(chain, b).bits
        moved == Advanced(chain, b, numBits)
    IN IF moved.ok THEN [moved EXCEPT !.buffer.bits = read] ELSE moved
===============================================================================
