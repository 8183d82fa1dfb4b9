------------------------------- MODULE Digest -------------------------------
(***************************************************************************)
(* hash/md5.c.  The state of a digest is the sequence of blocks that the   *)
(* assembly f1518caf_md5Transform took in since initMD5State: what the C   *)
(* code decides is which blocks these are.  Every block is BlockSize cells *)
(* (64 bytes in the code), the last SlotSize of which (8 bytes, one 64-bit *)
(* word) are the message's length in the block that ends a message.  The   *)
(* code stores that length in bytes.                                       *)
(***************************************************************************)
EXTENDS Integers, Sequences, SequencesExt

CONSTANTS
    BlockSize,  \* cells in a block
    SlotSize    \* cells in the length at the end of the last block

ONE_BIT_VALUE == -1
Refused == -2

Cells(n, cell) == [i \in 1 .. n |-> cell]

\* The 16 bytes of a digest are one cell here, whatever was digested.
DigestCell(state) == <<state>>

initMD5State == << >>

\* One call of md5Transform for each whole block of the buffer.
md5Transform(state, buffer) ==
    state \o [k \in 1 .. Len(buffer) \div BlockSize |->
                 SubSeq(buffer, (k - 1) * BlockSize + 1, k * BlockSize)]

\* The last block: what is left, zeros, and the length.
EndBlock(rest, origLen) ==
    rest \o Cells(BlockSize - SlotSize - Len(rest), 0) \o Cells(SlotSize, origLen)

FullBlock(rest) == rest \o Cells(BlockSize - Len(rest), 0)


\* The rest of the message, the bit behind it and the length share a block.
FitsWithItsLength(rest) == Len(rest) < BlockSize - SlotSize

\* Up to a whole block is left for the end, none only of an empty message.
LeftForEnd(length) == IF length = 0 THEN 0 ELSE ((length - 1) % BlockSize) + 1

md5StreamEnd(state, buffer, origLen) ==
    LET left   == LeftForEnd(Len(buffer))
        before == md5Transform(state, SubSeq(buffer, 1, Len(buffer) - left))
        rest   == SubSeq(buffer, Len(buffer) - left + 1, Len(buffer))
        ended  == Append(rest, ONE_BIT_VALUE)
    IN  CASE FitsWithItsLength(rest) -> Append(before, EndBlock(ended, origLen))
          [] ~FitsWithItsLength(rest) /\ left < BlockSize ->
                before \o <<FullBlock(ended), EndBlock(<< >>, origLen)>>
          [] OTHER -> before \o <<rest, EndBlock(<<ONE_BIT_VALUE>>, origLen)>>

md5(state, buffer) == md5StreamEnd(state, buffer, Len(buffer))

\* The loop looks at the length after it took a block in: of an empty buffer
\* it never sees the end.  Any other part of a block is refused.
md5Stream(state, buffer) ==
    IF Len(buffer) = 0 \/ Len(buffer) % BlockSize # 0
    THEN <<Refused>> ELSE md5Transform(state, buffer)

md5WithSalt(state, salt, buffer) ==
    IF Len(salt) > BlockSize THEN <<Refused>> ELSE md5(md5(state, salt), buffer)

\* Each round digests the digest: 16 bytes, the bit, and their length.
md5Rounds(state, numRounds) ==
    LET round[n \in 0 .. numRounds] ==
            IF n = 0 THEN state
            ELSE Append(round[n - 1],
                        EndBlock(<<DigestCell(round[n - 1]), ONE_BIT_VALUE>>, 1))
    IN  round[numRounds]

------------------------------------------------------------------------------
\* What MD5 takes in: the message, a one bit, as few zeros as end a block
\* together with the length, and the length (RFC 1321, 3.1 and 3.2).
Padded(message) ==
    LET behind == (BlockSize - ((Len(message) + 1 + SlotSize) % BlockSize)) % BlockSize
    IN  message \o <<ONE_BIT_VALUE>> \o Cells(behind, 0) \o Cells(SlotSize, Len(message))


\* Every round is a digest of its own, of the one before it.
RoundsNest(message, numRounds) ==
    LET first == md5(initMD5State, message)
    IN  /\ Len(md5Rounds(first, numRounds)) = Len(first) + numRounds
        /\ numRounds > 0 =>
              Last(md5Rounds(first, numRounds))[1] = DigestCell(md5Rounds(first, numRounds - 1))
=============================================================================
