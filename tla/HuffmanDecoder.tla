---------------------------- MODULE HuffmanDecoder ----------------------------
(***************************************************************************)
(* The decoder of compress/huffman.c: short codewords through a table that *)
(* is indexed by the next bits, longer ones by comparing those bits, the   *)
(* first as the most significant, with a sentinel for each length.         *)
(*                                                                         *)
(* The table is a function from the next LookupBits bits, in stream order; *)
(* reverse16 is the change of order between it and numbers.  Symbols are   *)
(* numbered from 0.                                                        *)
(***************************************************************************)
EXTENDS Integers, Sequences, FiniteSets, FiniteSetsExt

CONSTANTS
    MaxHuffmanBits,   \* MAX_HUFFMAN_BITS: 15
    LookupBits,       \* HUFFMAN_LOOKUP_TABLE_BITS: 8
    MaxSymbols,       \* MAX_HUFFMAN_SYMBOLS: 288
    CountRange,       \* how many values the counter of a length has: 2^8
    ShortRange        \* how many a uint16_t has: 2^16

ASSUME HuffmanAssumption ==
    /\ LookupBits \in Nat \ {0} /\ MaxHuffmanBits \in Nat /\ LookupBits <= MaxHuffmanBits
    /\ MaxSymbols \in Nat /\ CountRange \in Nat \ {0} /\ ShortRange \in Nat \ {0}

\* The n bits of a number, the most significant first, and the number of such bits.
Codeword(number, n) == [k \in 1 .. n |-> (number \div 2 ^ (n - k)) % 2]
Value(bits) ==
    LET value[k \in 0 .. Len(bits)] == IF k = 0 THEN 0 ELSE 2 * value[k - 1] + bits[k]
    IN value[Len(bits)]

Symbols(lengths) == 0 .. Len(lengths) - 1
LengthOf(lengths, symbol) == lengths[symbol + 1]

\* The symbols with codewords of a length, and how many of them come before one.
OfLength(lengths, l) == {s \in Symbols(lengths) : LengthOf(lengths, s) = l}
Rank(lengths, symbol) ==
    Cardinality({s \in OfLength(lengths, LengthOf(lengths, symbol)) : s < symbol})

\* How many codewords have a length, in a counter of 8 bits; none has no bits.
Count(lengths, l) ==
    IF l = 0 THEN 0 ELSE Cardinality(OfLength(lengths, l)) % CountRange

\* The smallest codeword of each length, and the index of its symbol.
NextCode(lengths) ==
    LET next[l \in 0 .. MaxHuffmanBits] ==
          IF l = 0 THEN 0 ELSE (2 * (next[l - 1] + Count(lengths, l - 1))) % ShortRange
    IN next

SymIdx(lengths) ==
    LET idx[l \in 0 .. MaxHuffmanBits] ==
          IF l = 0 THEN 0 ELSE idx[l - 1] + Count(lengths, l - 1)
    IN idx

NoEntry == [sym |-> 0, len |-> 0]

\* Which lengths are decoded by the table.
InTable(l) == l \in 1 .. LookupBits

\* A symbol takes every entry whose index begins with its codeword; a later one
\* replaces an earlier one.
Table(lengths, nextCode) ==
    LET codeword(s) == Codeword(nextCode[LengthOf(lengths, s)] + Rank(lengths, s),
                                LengthOf(lengths, s))
        short == {s \in Symbols(lengths) : InTable(LengthOf(lengths, s))}
        matching(index) == {s \in short :
                              SubSeq(index, 1, LengthOf(lengths, s)) = codeword(s)}
    IN [index \in [1 .. LookupBits -> {0, 1}] |->
          IF matching(index) = {} THEN NoEntry
          ELSE LET s == Max(matching(index)) IN
               [sym |-> s, len |-> LengthOf(lengths, s)]]

initHuffmanDecoder(lengths) ==
    LET nextCode == NextCode(lengths)
        symIdx == SymIdx(lengths)
        used == {s \in Symbols(lengths) : LengthOf(lengths, s) # 0}
        index(s) == symIdx[LengthOf(lengths, s)] + Rank(lengths, s)
        at(k) == {s \in used : index(s) = k}
    IN [table |-> Table(lengths, nextCode),
        sentinel_bits |->
          [l \in 1 .. MaxHuffmanBits |->
             ((nextCode[l] + Count(lengths, l)) * 2 ^ (MaxHuffmanBits - l)) % ShortRange],
        offset_first_sym_idx |->
          [l \in 1 .. MaxHuffmanBits |-> (symIdx[l] - nextCode[l]) % ShortRange],
        syms |-> [k \in 0 .. MaxSymbols - 1 |-> IF at(k) = {} THEN 0 ELSE Max(at(k))]]

\* Mutant of Below: the sentinel itself is taken for a codeword of its length.
BelowOrAt(value, sentinel) == value <= sentinel

\* Whether a codeword of a length is among the bits that begin with this value.
Below(value, sentinel) == value < sentinel

Undecoded == [sym |-> -1, len |-> 0]

\* The symbol at the start of the bits and the length of its codeword.
huffmanDecode(bits, decoder) ==
    LET entry == decoder.table[SubSeq(bits, 1, LookupBits)]
        value == Value(SubSeq(bits, 1, MaxHuffmanBits))
        long == {l \in LookupBits + 1 .. MaxHuffmanBits : Below(value, decoder.sentinel_bits[l])}
        l == Min(long)
        symbolIndex == (decoder.offset_first_sym_idx[l]
                          + value \div 2 ^ (MaxHuffmanBits - l)) % ShortRange
    IN IF entry.len # 0 THEN entry
       ELSE IF long = {} THEN Undecoded
       ELSE [sym |-> decoder.syms[symbolIndex], len |-> l]

-------------------------------------------------------------------------------
(* The code these lengths stand for, defined without the algorithm.        *)

\* Codewords of one length are consecutive in the order of their symbols, and a
\* longer one comes after every shorter one: the codeword of a symbol, as a
\* fraction, is what the codewords before it take of the whole.
Before(lengths, symbol) ==
    {s \in Symbols(lengths) : LET l == LengthOf(lengths, s) IN
       /\ l # 0
       /\ \/ l < LengthOf(lengths, symbol)
          \/ l = LengthOf(lengths, symbol) /\ s < symbol}

Share(lengths, S) ==
    MapThenSumSet(LAMBDA s : 2 ^ (MaxHuffmanBits - LengthOf(lengths, s)), S)

CanonicalCode(lengths, symbol) ==
    LET l == LengthOf(lengths, symbol) IN
    Codeword(Share(lengths, Before(lengths, symbol)) \div 2 ^ (MaxHuffmanBits - l), l)
===============================================================================
