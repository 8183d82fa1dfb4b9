------------------------------- MODULE Inflate -------------------------------
(***************************************************************************)
(* Decompression of compress/inflate.c on top of InputBuffer and           *)
(* HuffmanDecoder: blocks, the lengths of the codes of a dynamic block,    *)
(* its literals and back references.  Every iteration of a loop is a step. *)
(*                                                                         *)
(* Stored blocks and blocks with the fixed code are not implemented: the   *)
(* code takes their header and goes on.  Streams whose repeat counts run   *)
(* past the lengths they fill are left out.                                *)
(***************************************************************************)
EXTENDS InputBuffer, HuffmanDecoder, SequencesExt

CONSTANTS
    CountBits,         \* bits of the numbers of [lit, dist, codelen] lengths
    MinCount,          \* what is added to them: MIN_LITLEN_LENS and so on
    MaxCount,          \* MAX_LITLEN_LENS and so on
    CodelenLenBits,    \* bits of the length of a codelen codeword: 3
    codelenLengthsOrder,
    CODELEN_MAX_LIT,   \* 15; the next symbol copies, the ones after it are zeros
    Repeat,            \* [these symbols -> [extraBits, min]]
    UINT8_MAX, LITLEN_EOB,
    litlen_tbl,        \* [symbols above LITLEN_EOB -> [base, extraBits]]
    dist_tbl,          \* [distance symbols -> [base, extraBits]]
    INFLATE_OUTPUT_LENGTH,
    Inputs             \* the streams: see `input'

CODELEN_COPY == CODELEN_MAX_LIT + 1
LITLEN_MAX == Max(DOMAIN litlen_tbl)
DISTSYM_MAX == Max(DOMAIN dist_tbl)

-------------------------------------------------------------------------------
(* The tables at their full size.  The small ones of the runs have their   *)
(* shape: each symbol begins where the one before it ends.                 *)

Entry(pair) == [base |-> pair[1], extraBits |-> pair[2]]

FullLitlenTable ==
    [s \in 257 .. 285 |-> Entry(<<
      <<3, 0>>, <<4, 0>>, <<5, 0>>, <<6, 0>>, <<7, 0>>, <<8, 0>>, <<9, 0>>, <<10, 0>>,
      <<11, 1>>, <<13, 1>>, <<15, 1>>, <<17, 1>>, <<19, 2>>, <<23, 2>>, <<27, 2>>, <<31, 2>>,
      <<35, 3>>, <<43, 3>>, <<51, 3>>, <<59, 3>>, <<67, 4>>, <<83, 4>>, <<99, 4>>, <<115, 4>>,
      <<131, 5>>, <<163, 5>>, <<195, 5>>, <<227, 5>>, <<258, 0>>>>[s - 256])]

FullDistTable ==
    [s \in 0 .. 29 |-> Entry(<<
      <<1, 0>>, <<2, 0>>, <<3, 0>>, <<4, 0>>, <<5, 1>>, <<7, 1>>,
      <<9, 2>>, <<13, 2>>, <<17, 3>>, <<25, 3>>, <<33, 4>>, <<49, 4>>,
      <<65, 5>>, <<97, 5>>, <<129, 6>>, <<193, 6>>, <<257, 7>>, <<385, 7>>,
      <<513, 8>>, <<769, 8>>, <<1025, 9>>, <<1537, 9>>, <<2049, 10>>, <<3073, 10>>,
      <<4097, 11>>, <<6145, 11>>, <<8193, 12>>, <<12289, 12>>, <<16385, 13>>, <<24577, 13>>>>[s + 1])]

BeginWhereTheLastEnds(table, symbols) ==
    \A s \in symbols : table[s + 1].base = table[s].base + 2 ^ table[s].extraBits

\* 32 lengths from 227 on would reach 258, which has a symbol of its own.
ASSUME FullTablesLeaveNoGaps ==
    /\ BeginWhereTheLastEnds(FullLitlenTable, 257 .. 283)
    /\ FullLitlenTable[284].base + 2 ^ FullLitlenTable[284].extraBits - 1 = FullLitlenTable[285].base
    /\ BeginWhereTheLastEnds(FullDistTable, 0 .. 28)

ASSUME TablesLeaveNoGaps ==
    /\ BeginWhereTheLastEnds(litlen_tbl, DOMAIN litlen_tbl \ {LITLEN_MAX, LITLEN_MAX - 1})
    /\ BeginWhereTheLastEnds(dist_tbl, DOMAIN dist_tbl \ {DISTSYM_MAX})

VARIABLES
    input,          \* [chain, dataOffset, compressSize], and what it encodes:
                    \* [stream, output, whole, representable]
    inputBuffer, outputBuffer, status,
    at,             \* where in the code the next step is
    isFinalBlock,
    block           \* the locals of initDynamicDecoder and the decoders

vars == <<input, inputBuffer, outputBuffer, status, at, isFinalBlock, block>>

NoBlock == [counts |-> << >>, codelens |-> << >>, lengths |-> << >>,
            codelenDecoder |-> << >>, litlenDecoder |-> << >>, distDecoder |-> << >>]

Init ==
    /\ input \in Inputs
    /\ inputBuffer = initInputBuffer(input.dataOffset, input.compressSize)
    /\ outputBuffer = << >>
    /\ status = "INFLATE_SUCCESS"
    /\ at = "block"
    /\ isFinalBlock = FALSE
    /\ block = NoBlock

Use(n) == useNumBits(input.chain, inputBuffer, n)
Shifted(b, n) == [b EXCEPT !.bits = ShiftRight(@, n)]

Fail(error) ==
    /\ status' = error
    /\ at' = "done"
    /\ UNCHANGED <<input, outputBuffer, isFinalBlock, block>>

-------------------------------------------------------------------------------
(* inflate.                                                                *)

EndOfBlock(final) ==
    /\ at' = IF final THEN "done" ELSE "block"
    /\ status' = "INFLATE_SUCCESS"
    /\ UNCHANGED <<input, outputBuffer>>

NoBlockHeader ==
    /\ at = "block"
    /\ ~Use(3).ok
    /\ inputBuffer' = Use(3).buffer
    /\ Fail("INFLATE_INPUT_ERROR")

BlockHeader(type) ==
    /\ at = "block"
    /\ Use(3).ok
    /\ type = Number(SubSeq(Use(3).buffer.bits, 2, 3))
    /\ inputBuffer' = Shifted(Use(3).buffer, 3)

IsFinal == Use(3).buffer.bits[1] = 1

\* processNonCompressionBlock and processFixedDeflateBlock.
UnprocessedBlock ==
    /\ BlockHeader(0) \/ BlockHeader(1)
    /\ isFinalBlock' = IsFinal
    /\ EndOfBlock(IsFinal)
    /\ UNCHANGED block

DynamicBlock ==
    /\ BlockHeader(2)
    /\ isFinalBlock' = IsFinal
    /\ at' = "counts"
    /\ block' = NoBlock
    /\ UNCHANGED <<input, outputBuffer, status>>

InvalidBlock ==
    /\ BlockHeader(3)
    /\ Fail("INFLATE_INPUT_ERROR")

-------------------------------------------------------------------------------
(* initDynamicDecoder.                                                     *)

\* The three numbers at the start of a word.
Counts(bits) ==
    LET dist == CountBits.lit
        codelen == dist + CountBits.dist IN
    [lit |-> Number(SubSeq(bits, 1, dist)) + MinCount.lit,
     dist |-> Number(SubSeq(bits, dist + 1, codelen)) + MinCount.dist,
     codelen |-> Number(SubSeq(bits, codelen + 1, codelen + CountBits.codelen))
                   + MinCount.codelen]

ReadCounts ==
    LET numBits == CountBits.lit + CountBits.dist + CountBits.codelen
        counts == Counts(Use(numBits).buffer.bits) IN
    /\ at = "counts"
    /\ inputBuffer' = Use(numBits).buffer
    /\ \/ ~Use(numBits).ok /\ Fail("INFLATE_NEED_INPUT")
       \/ /\ Use(numBits).ok
          /\ \E k \in DOMAIN counts : counts[k] > MaxCount[k]
          /\ Fail("INFLATE_INPUT_ERROR")
       \/ /\ Use(numBits).ok
          /\ \A k \in DOMAIN counts : counts[k] <= MaxCount[k]
          /\ block' = [block EXCEPT !.counts = counts]
          /\ at' = "codelens"
          /\ UNCHANGED <<input, outputBuffer, status, isFinalBlock>>

\* The length of each codelen symbol: those read, in their order, then zeros.
CodelenLengths(read) ==
    [s \in 1 .. MaxCount.codelen |->
       LET i == CHOOSE i \in DOMAIN codelenLengthsOrder : codelenLengthsOrder[i] = s - 1
       IN IF i <= Len(read) THEN read[i] ELSE 0]

ReadCodelen ==
    LET used == Use(CodelenLenBits)
        read == Append(block.codelens, Number(Low(used.buffer.bits, CodelenLenBits))) IN
    /\ at = "codelens"
    /\ inputBuffer' = used.buffer
    /\ \/ ~used.ok /\ Fail("INFLATE_NEED_INPUT")
       \/ /\ used.ok
          /\ IF Len(read) < block.counts.codelen
             THEN block' = [block EXCEPT !.codelens = read] /\ UNCHANGED at
             ELSE /\ block' = [block EXCEPT
                                 !.codelens = read,
                                 !.codelenDecoder =
                                   initHuffmanDecoder(CodelenLengths(read))]
                  /\ at' = "lengths"
          /\ UNCHANGED <<input, outputBuffer, status, isFinalBlock>>

\* The previous length again, or zeros.
Repeated(lengths, symbol, n) ==
    lengths \o [k \in 1 .. n |-> IF symbol = CODELEN_COPY THEN Last(lengths) ELSE 0]

\* The lengths once the last of them was read become the two decoders.
HaveLengths(lengths) ==
    LET lit == block.counts.lit
        all == lit + block.counts.dist IN
    /\ IF Len(lengths) < all
       THEN block' = [block EXCEPT !.lengths = lengths] /\ UNCHANGED at
       ELSE /\ block' = [block EXCEPT
                           !.lengths = lengths,
                           !.litlenDecoder =
                             initHuffmanDecoder(SubSeq(lengths, 1, lit)),
                           !.distDecoder =
                             initHuffmanDecoder(SubSeq(lengths, lit + 1, all))]
            /\ at' = "symbols"
    /\ UNCHANGED <<input, outputBuffer, status, isFinalBlock>>

\* The extra bits of a repeat are taken from the word the symbol was in, and the
\* position is moved twice.  A symbol that cannot be decoded leaves the number
\* of bits it took undefined, and the position is moved before the symbol is
\* looked at.
ReadLength ==
    LET word == getNextBits(input.chain, inputBuffer)
        entry == huffmanDecode(word.bits, block.codelenDecoder)
        rest == ShiftRight(word.bits, entry.len)
        moved == Advanced(input.chain, word, entry.len) IN
    /\ at = "lengths"
    /\ \/ /\ entry = Undecoded
          /\ \E n \in 0 .. MaxHuffmanBits :
               LET wild == Advanced(input.chain, word, n) IN
               /\ inputBuffer' = wild.buffer
               /\ Fail(IF wild.ok THEN "INFLATE_INPUT_ERROR" ELSE "INFLATE_NEED_INPUT")
       \/ /\ entry # Undecoded
          /\ ~moved.ok
          /\ inputBuffer' = moved.buffer
          /\ Fail("INFLATE_NEED_INPUT")
       \/ /\ entry # Undecoded
          /\ moved.ok
          /\ entry.sym <= CODELEN_MAX_LIT
          /\ inputBuffer' = moved.buffer
          /\ HaveLengths(Append(block.lengths, entry.sym))
       \/ /\ entry # Undecoded
          /\ moved.ok
          /\ entry.sym \in DOMAIN Repeat
          /\ LET extra == Repeat[entry.sym]
                 again == Advanced(input.chain, moved.buffer, extra.extraBits) IN
             /\ inputBuffer' = again.buffer
             /\ IF again.ok
                THEN HaveLengths(Repeated(block.lengths, entry.sym,
                                          Number(Low(rest, extra.extraBits)) + extra.min))
                ELSE Fail("INFLATE_NEED_INPUT")

-------------------------------------------------------------------------------
(* processLiteralBackrefBlock.                                             *)

Room == INFLATE_OUTPUT_LENGTH - Len(outputBuffer)

lz77_output_backref(output, dist, length) ==
    FoldLeft(LAMBDA out, k : Append(out, out[Len(out) - dist + 1]),
             output, [k \in 1 .. length |-> k])

\* Mutant of output_backref64: the memory is copied even if it overlaps.
output_backref64Overlapping(output, dist, length) ==
    output \o [k \in 1 .. length |-> IF k <= dist THEN output[Len(output) - dist + k]
                                                  ELSE 0]

\* A copy of memory, unless the reference overlaps what it writes.
output_backref64(output, dist, length) ==
    IF length > dist THEN lz77_output_backref(output, dist, length)
    ELSE output \o SubSeq(output, Len(output) - dist + 1, Len(output) - dist + length)

RoundUp(n, m) == ((n + m - 1) \div m) * m

\* One symbol of the block: what it is, the bits that follow it in the word and
\* how many bits it takes.
LitlenSymbol ==
    LET word == getNextBits(input.chain, inputBuffer)
        entry == huffmanDecode(word.bits, block.litlenDecoder)
    IN [sym |-> entry.sym, bits |-> ShiftRight(word.bits, entry.len), used |-> entry.len]

\* The number a symbol of a table stands for with its extra bits.
WithExtra(s, table) ==
    LET n == table[s.sym].extraBits IN
    [value |-> table[s.sym].base + Number(Low(s.bits, n)),
     bits |-> ShiftRight(s.bits, n), used |-> s.used + n]

DistSymbol(length) ==
    LET entry == huffmanDecode(length.bits, block.distDecoder) IN
    [sym |-> entry.sym, bits |-> ShiftRight(length.bits, entry.len),
     used |-> length.used + entry.len]

Move(n) == Advanced(input.chain, getNextBits(input.chain, inputBuffer), n)

Emit(output) ==
    /\ outputBuffer' = output
    /\ UNCHANGED <<input, status, at, isFinalBlock, block>>

InvalidSymbol ==
    /\ at = "symbols"
    /\ LitlenSymbol.sym \notin 0 .. LITLEN_MAX
    /\ inputBuffer' = getNextBits(input.chain, inputBuffer)
    /\ Fail("INFLATE_INPUT_ERROR")

Literal ==
    LET moved == Move(LitlenSymbol.used) IN
    /\ at = "symbols"
    /\ LitlenSymbol.sym \in 0 .. UINT8_MAX
    /\ inputBuffer' = moved.buffer
    /\ \/ ~moved.ok /\ Fail("INFLATE_NEED_INPUT")
       \/ moved.ok /\ Room = 0 /\ Fail("INFLATE_OUTPUT_FULL")
       \/ moved.ok /\ Room > 0 /\ Emit(Append(outputBuffer, LitlenSymbol.sym))

EndOfLiterals ==
    LET moved == Move(LitlenSymbol.used) IN
    /\ at = "symbols"
    /\ LitlenSymbol.sym = LITLEN_EOB
    /\ inputBuffer' = moved.buffer
    /\ \/ ~moved.ok /\ Fail("INFLATE_NEED_INPUT")
       \/ moved.ok /\ EndOfBlock(isFinalBlock) /\ UNCHANGED <<isFinalBlock, block>>

Backref ==
    LET length == WithExtra(LitlenSymbol, litlen_tbl)
        symbol == DistSymbol(length)
        dist == WithExtra(symbol, dist_tbl)
        moved == Move(dist.used) IN
    /\ at = "symbols"
    /\ LitlenSymbol.sym \in LITLEN_EOB + 1 .. LITLEN_MAX
    /\ \/ /\ symbol.sym \notin 0 .. DISTSYM_MAX
          /\ inputBuffer' = getNextBits(input.chain, inputBuffer)
          /\ Fail("INFLATE_INPUT_ERROR")
       \/ /\ symbol.sym \in 0 .. DISTSYM_MAX
          /\ inputBuffer' = moved.buffer
          /\ \/ ~moved.ok /\ Fail("INFLATE_NEED_INPUT")
             \/ /\ moved.ok
                /\ dist.value > Len(outputBuffer)
                /\ Fail("INFLATE_INPUT_ERROR")
             \/ /\ moved.ok
                /\ dist.value <= Len(outputBuffer)
                /\ IF RoundUp(length.value, WordBytes) <= Room
                   THEN Emit(output_backref64(outputBuffer, dist.value, length.value))
                   ELSE IF length.value <= Room
                   THEN Emit(lz77_output_backref(outputBuffer, dist.value, length.value))
                   ELSE Fail("INFLATE_OUTPUT_FULL")

Next ==
    \/ NoBlockHeader \/ UnprocessedBlock \/ DynamicBlock \/ InvalidBlock
    \/ ReadCounts \/ ReadCodelen \/ ReadLength
    \/ InvalidSymbol \/ Literal \/ EndOfLiterals \/ Backref

Spec == Init /\ [][Next]_vars

-------------------------------------------------------------------------------
(* Properties.                                                             *)

Running == at # "done"

\* The page and the place in it are where bitPos is in the stream, and the next
\* word holds the bits that follow, over every boundary of a page and after every
\* mixture of the three ways to read (iobuffer.c:146-283).
ReadsTheStream ==
    LET b == inputBuffer
        left == b.totalNumBits - b.bitPos
        next == getNextBits(input.chain, b).bits IN
    Running =>
      /\ (b.fileBuffer - 1) * PageBits + b.offsetBitPos
           = input.dataOffset * ByteBits + b.bitPos
      /\ \A k \in 1 .. Min({left, MinBits}) : next[k] = input.stream[b.bitPos + k]

\* No more codewords of one length than their counter can count.
Countable(lengths) ==
    \A l \in 1 .. MaxHuffmanBits : Cardinality(OfLength(lengths, l)) < CountRange

Decodes(decoder, lengths) ==
    Countable(lengths) =>
      \A s \in {s \in Symbols(lengths) : LengthOf(lengths, s) # 0} :
        \A rest \in [1 .. MaxHuffmanBits -> {0, 1}] :
          huffmanDecode(CanonicalCode(lengths, s) \o rest, decoder)
            = [sym |-> s, len |-> LengthOf(lengths, s)]

\* Each decoder inverts the canonical code of the lengths it was made from,
\* whatever bits follow a codeword: short codewords by the table, long ones by
\* the sentinels (huffman.c:65-155).
DecodersInvertTheirCodes ==
    at = "symbols" =>
      LET lit == block.counts.lit
          all == lit + block.counts.dist IN
      /\ Decodes(block.codelenDecoder, CodelenLengths(block.codelens))
      /\ Decodes(block.litlenDecoder, SubSeq(block.lengths, 1, lit))
      /\ Decodes(block.distDecoder, SubSeq(block.lengths, lit + 1, all))

\* The output is always the beginning of what the stream encodes, and inflate
\* succeeds exactly when the stream is whole, its references are to earlier
\* output and all of it fits: no end of input or of output in the middle of a
\* symbol goes unnoticed (inflate.c:485-588).
InflatesTheStream ==
    input.representable =>
      /\ IsPrefix(outputBuffer, input.output)
      /\ ~Running => (status = "INFLATE_SUCCESS" <=> input.whole)
      /\ ~Running /\ status = "INFLATE_SUCCESS" => outputBuffer = input.output
===============================================================================
