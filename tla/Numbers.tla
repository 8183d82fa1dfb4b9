------------------------------- MODULE Numbers -------------------------------
(***************************************************************************)
(* lang/integer.c, lang/long.c and time/time.c: numbers and the texts that *)
(* stand for them.  A text is written from its end into memory of the size *)
(* that getStringSize works out beforehand; only a text that begins where  *)
(* that memory begins can be freed by the one who gets it.  A character is *)
(* the digit it stands for, or one of Minus, X, Space and Nul.  Texts are   *)
(* compared as lang/string.c compares them.                                *)
(***************************************************************************)
EXTENDS Integers, Sequences, FiniteSets, SequencesExt

CONSTANTS
    WordBits,   \* the width of an integer, 32 or 64 in the code
    Powers      \* the powers of ten up to which sizes are looked up

Minus == -1
X     == -2
Space == -3
Nul   == -4
Invalid == -1

Word == 2 ^ WordBits
SmallestInt == -(2 ^ (WordBits - 1))

\* A mutant for the runs: a power of ten is taken for a shorter number.
PowersBelow(value) == {k \in 1 .. Powers : value > 10 ^ k}

PowersUpTo(value) == {k \in 1 .. Powers : value >= 10 ^ k}

\* One digit more than powers of ten, and the NUL.
getStringSize_uint32(value) == Cardinality(PowersUpTo(value)) + 2
getStringSize_uint64(value) == Cardinality(PowersUpTo(value)) + 2

getStringSize_int32(value) ==
    IF value >= 0 THEN getStringSize_uint32(value) ELSE getStringSize_uint32(-value) + 1

getStringSize_int64(value) ==
    IF value >= 0 THEN getStringSize_uint64(value) ELSE getStringSize_uint64(-value) + 1

\* Two digits at a time, out of the tables of ones and tens.
digitOnes(n) == n % 10
digitTens(n) == n \div 10

Digits[value \in Nat] ==
    LET pair(n) == <<digitTens(n), digitOnes(n)>>
    IN  IF value >= 100 THEN Digits[value \div 100] \o pair(value % 100)
        ELSE IF value < 10 THEN <<value>> ELSE pair(value)

HexDigits[value \in Nat] ==
    LET pair(n) == <<n \div 16, n % 16>>
    IN  IF value >= 256 THEN HexDigits[value \div 256] \o pair(value % 256)
        ELSE IF value < 16 THEN <<value>> ELSE pair(value)

\* The text, at the end of "size" bytes with a NUL behind it.
Written(text, size) == [text |-> text, start |-> size - 1 - Len(text), isAllocated |-> TRUE]

Signed(value) == IF value < 0 THEN <<Minus>> \o Digits[-value] ELSE Digits[value]

\* The smallest integer has no negative: its text is a literal of the program.
SmallestText == [text |-> Signed(SmallestInt), start |-> 0, isAllocated |-> FALSE]

toString_uint32(value) == Written(Digits[value], getStringSize_uint32(value))
toString_uint64(value) == Written(Digits[value], getStringSize_uint64(value))

toString_int32(value) ==
    IF value = SmallestInt THEN SmallestText ELSE Written(Signed(value), getStringSize_int32(value))

toString_int64(value) ==
    IF value = SmallestInt THEN SmallestText ELSE Written(Signed(value), getStringSize_int64(value))

\* 0x and zeros up to the precision, or up to as many digits as the decimal
\* number has; a longer text would never meet the end of the zeros.
toStringHex_uint32(value, precision) ==
    LET decimal == getStringSize_uint32(value)
        size    == (IF precision + 1 > decimal THEN precision + 1 ELSE decimal) + 2
        zeros   == size - 3 - Len(HexDigits[value])
    IN  IF zeros < 0 THEN Written(HexDigits[value], 0)
        ELSE Written(<<0, X>> \o [i \in 1 .. zeros |-> 0] \o HexDigits[value], size)

Value(digits, base) == FoldLeft(LAMBDA value, digit : (base * value + digit) % Word, 0, digits)
IsNumber(text, base) == \A i \in DOMAIN text : text[i] \in 0 .. base - 1

\* Too large a number wraps; parse_uint32 exits, the others abort.
parse_uint32(source) == IF IsNumber(source, 10) THEN Value(source, 10) ELSE Invalid
parse_uint64(source) == IF IsNumber(source, 10) THEN Value(source, 10) ELSE Invalid
parse_uint64_ssize(source, length) == parse_uint64(SubSeq(source, 1, length))

\* Zeros and x are skipped wherever the text begins with them, and it ends at a
\* space or at its NUL, which the code turns into a space.
parseHex_uint32(source) ==
    LET text   == SubSeq(source, 1, SelectInSeq(source \o <<Space>>, LAMBDA ch : ch = Space) - 1)
        prefix == SelectInSeq(text \o <<Space>>, LAMBDA ch : ch \notin {0, X}) - 1
        digits == SubSeq(text, prefix + 1, Len(text))
    IN  IF IsNumber(digits, 16) THEN Value(digits, 16) ELSE Invalid

range(value, low, high) == IF value < low THEN low ELSE IF value > high THEN high ELSE value

\* Bits "first" and up of a number, "count" of them.
Bits(number, first, count) == (number \div 2 ^ first) % 2 ^ count

convertTimeFromDOS(dosDate, dosTime) ==
    [mday |-> Bits(dosDate, 0, 5), mon |-> Bits(dosDate, 5, 4) - 1, year |-> Bits(dosDate, 9, 7) + 80,
     sec |-> 2 * Bits(dosTime, 0, 5), min |-> Bits(dosTime, 5, 6), hour |-> Bits(dosTime, 11, 5)]

------------------------------------------------------------------------------
(* A text behind a pointer: NULL is no text. *)

NULL == << >>
Pointer(text) == <<text>>

CharAt(text, i) == IF i > Len(text) THEN Nul ELSE text[i]

\* Where a walk over both texts stops: at the end of one, or where they differ.
StopsAt(foo, bar) ==
    SelectInSeq([i \in 1 .. Len(foo) + 1 |-> <<CharAt(foo, i), CharAt(bar, i)>>],
                LAMBDA pair : pair[1] = Nul \/ pair[2] = Nul \/ pair[1] # pair[2])

isNotEqual(foo, bar) ==
    IF foo = NULL \/ bar = NULL THEN foo # bar
    ELSE LET i == StopsAt(foo[1], bar[1]) IN CharAt(foo[1], i) # CharAt(bar[1], i)

\* What is behind the pattern, or NULL.
startsWith(pattern, text) ==
    LET i == StopsAt(pattern, text)
    IN  IF CharAt(pattern, i) = Nul THEN Pointer(SubSeq(text, i, Len(text))) ELSE NULL

------------------------------------------------------------------------------
\* The value a reader of the text would give it, without any word.
Decimal(text) ==
    LET sign   == text[1] = Minus
        digits == IF sign THEN Tail(text) ELSE text
        value  == FoldLeft(LAMBDA v, d : 10 * v + d, 0, digits)
    IN  IF sign THEN -value ELSE value

IsCanonical(text) == Len(text) > 1 => text[1] # 0

\* An unsigned number keeps its value as text and back, in both widths.
UnsignedRoundTrip(n) ==
    /\ \A w \in {toString_uint32(n), toString_uint64(n)} :
          w.start = 0 /\ Decimal(w.text) = n /\ IsCanonical(w.text)
    /\ parse_uint32(toString_uint32(n).text) = n
    /\ parse_uint64_ssize(Append(toString_uint64(n).text, Space),
                          getStringSize_uint64(n) - 1) = n

\* The texts of two numbers are equal exactly when the numbers are, and one text
\* begins with the other exactly when its number does; the rest makes it whole.
TextsCompare(n, m) ==
    LET a == toString_uint32(n).text
        b == toString_uint32(m).text
        rest == startsWith(a, b)
    IN  /\ isNotEqual(Pointer(a), Pointer(b)) <=> n # m
        /\ ~isNotEqual(NULL, NULL) /\ isNotEqual(NULL, Pointer(b))
        /\ rest # NULL <=> (n = m \/ (n # 0 /\ \E k \in 1 .. Powers : m \div 10 ^ k = n))
        /\ rest # NULL => a \o rest[1] = b

SignedRoundTrip(n) ==
    \A w \in {toString_int32(n), toString_int64(n)} :
       /\ w.start = 0 /\ Decimal(w.text) = n
       /\ w.isAllocated \/ n = SmallestInt

HexRoundTrip(n, precision) ==
    LET w == toStringHex_uint32(n, precision)
    IN  w.start = 0 /\ parseHex_uint32(w.text) = n /\ Len(w.text) >= precision + 2

\* The fields of a DOS date and time make up the two words they came from, and
\* none of them leaves its range.
DosTimeRoundTrip(dosDate, dosTime) ==
    LET time == convertTimeFromDOS(dosDate, dosTime)
    IN  /\ dosDate = time.mday + 2 ^ 5 * (time.mon + 1) + 2 ^ 9 * (time.year - 80)
        /\ dosTime = time.sec \div 2 + 2 ^ 5 * time.min + 2 ^ 11 * time.hour
        /\ range(time.min, 0, 63) = time.min
=============================================================================
