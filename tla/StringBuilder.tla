--------------------------- MODULE StringBuilder ---------------------------
(***************************************************************************)
(* lang/stringbuilder.c.  A StringBuilder is a buffer, the length of the   *)
(* text in it and the size it was created with.  resizeStringBuilder gives *)
(* it a larger buffer and leaves "size" as it was, so each append decides  *)
(* from the first size whether there is room.  The text is abstracted to   *)
(* its length and to where its first NUL is, the buffer to the bytes that  *)
(* were asked for; heap rounding is not relied on.                         *)
(***************************************************************************)
EXTENDS Integers

CONSTANTS
    Sizes,      \* the sizes a StringBuilder may be created with
    Lengths,    \* the lengths of strings and of runs of bytes
    MaxLength   \* bound: no append starts from a longer text

ASSUME SizesAssumption == Sizes \subseteq Nat \ {0}
ASSUME LengthsAssumption == Lengths \subseteq Nat

VARIABLES
    builder,    \* the StringBuilder
    peak,       \* the longest text it held since it was created
    arrays      \* append_stringArray was used since the text was last empty

vars == <<builder, peak, arrays>>

createStringBuilder_uint32(bufSize) ==
    [length |-> 0, size |-> bufSize, room |-> bufSize, nul |-> 0,
     aborted |-> FALSE, overrun |-> FALSE]

\* resizeArray copies "length" bytes, and aborts when there are none.
resizeStringBuilder(sb, newSize) ==
    IF sb.length = 0
    THEN [sb EXCEPT !.aborted = TRUE]
    ELSE [sb EXCEPT !.room = newSize, !.overrun = @ \/ newSize < sb.length]

\* n more characters and a NUL behind them.
Written(sb, n) ==
    IF sb.aborted THEN sb
    ELSE [sb EXCEPT !.length = @ + n,
                    !.nul = IF @ = sb.length THEN sb.length + n ELSE @,
                    !.overrun = @ \/ sb.length + n >= sb.room]

\* Half as much again as the text needs.
OneAndAHalf(newLength) == newLength + (newLength \div 2)

\* appendBytes and append_string_uint32.
appendBytes(sb, length) ==
    LET newLength == sb.length + length + 1
    IN  Written(IF newLength >= sb.size
                THEN resizeStringBuilder(sb, OneAndAHalf(newLength)) ELSE sb,
                length)

append_char(sb) ==
    Written(IF sb.length + 1 >= sb.size THEN resizeStringBuilder(sb, 2 * sb.size) ELSE sb, 1)

\* A mutant for the runs: the NUL's place is not looked at.
ReachesWithoutNul(sb, n) == sb.length <= sb.size /\ sb.size < sb.length + n

\* append_string and appendNull look for room at one place only: when the
\* text, or the NUL behind it, reaches "size".
Reaches(sb, n) == sb.length <= sb.size /\ sb.size <= sb.length + n

append_string(sb, n) ==
    Written(IF Reaches(sb, n) THEN [sb EXCEPT !.room = 2 * sb.size] ELSE sb, n)

\* append_string_varg and append_string_va_list, of two strings.
append_string_varg(sb, n, m) == append_string(append_string(sb, n), m)

\* '[', the strings with ',' between them, and ']'.  Room is made for '[' and
\* for each character of the text, but not for ']'; appendNull then overwrites
\* it, unless it makes room for the NUL.
append_stringArray(sb, n, m) ==
    LET opened == Written(IF sb.length + 3 >= sb.size
                          THEN resizeStringBuilder(sb, 2 * sb.size) ELSE sb, 1)
        text   == n + 1 + m
        length == opened.length + text
        grown  == IF opened.length <= sb.size /\ sb.size < length THEN 2 * sb.size ELSE opened.room
    IN  IF opened.aborted THEN opened
        ELSE [opened EXCEPT
                 !.length = length + 1,
                 !.nul = CASE @ # opened.length -> @
                           [] length + 1 = sb.size -> length + 1
                           [] OTHER -> length,
                 !.room = IF length + 1 = sb.size THEN 2 * sb.size ELSE grown,
                 !.overrun = @ \/ length >= grown]

\* The copy is "length" bytes; with a suffix the text is put back afterwards.
reduceLength(sb, newLength) ==
    IF newLength < sb.length
    THEN [sb EXCEPT !.length = newLength, !.nul = IF newLength < @ THEN newLength ELSE @]
    ELSE sb

createString(sb, suffix) ==
    IF sb.length = 0 THEN sb ELSE reduceLength(append_string(sb, suffix), sb.length)

resetStringBuilder(sb) == [sb EXCEPT !.length = 0, !.nul = 0]

------------------------------------------------------------------------------
Init ==
    /\ \E s \in Sizes : builder = createStringBuilder_uint32(s)
    /\ peak = 0
    /\ arrays = FALSE

\* A program goes on until resizeArray aborts it or the heap is corrupt.
IsUsable == ~builder.aborted /\ ~builder.overrun /\ builder.length <= MaxLength

Larger(n, m) == IF n < m THEN m ELSE n

Becomes(sb) ==
    /\ builder' = sb
    /\ peak' = Larger(peak, sb.length)
    /\ UNCHANGED arrays

AppendBytes(n) == IsUsable /\ Becomes(appendBytes(builder, n))
AppendChar     == IsUsable /\ Becomes(append_char(builder))
AppendString(n) == IsUsable /\ Becomes(append_string(builder, n))

AppendStrings(n, m) == IsUsable /\ Becomes(append_string_varg(builder, n, m))

AppendStringArray(n, m) ==
    /\ IsUsable
    /\ builder' = append_stringArray(builder, n, m)
    /\ peak' = Larger(peak, builder'.length)
    /\ arrays' = TRUE

\* While it is there the suffix counts for the longest text.
CreateString(n) ==
    /\ IsUsable
    /\ builder' = createString(builder, n)
    /\ peak' = Larger(peak, builder.length + n)
    /\ UNCHANGED arrays

ReduceLength(n) == IsUsable /\ Becomes(reduceLength(builder, n))

Reset ==
    /\ IsUsable
    /\ builder' = resetStringBuilder(builder)
    /\ arrays' = FALSE
    /\ UNCHANGED peak

Next ==
    \/ AppendChar \/ Reset
    \/ \E n \in Lengths : \/ AppendBytes(n) \/ AppendString(n)
                          \/ CreateString(n) \/ ReduceLength(n)
    \/ \E n, m \in Lengths : AppendStrings(n, m) \/ AppendStringArray(n, m)

Spec == Init /\ [][Next]_vars

------------------------------------------------------------------------------
TypeOK ==
    /\ builder \in [length : Nat, size : Nat \ {0}, room : Nat, nul : Nat,
                    aborted : BOOLEAN, overrun : BOOLEAN]
    /\ peak \in Nat
    /\ arrays \in BOOLEAN

\* Growing by the first size is enough for every order of appends as long as
\* the text and its NUL never need more than one and a half times that size:
\* nothing is then written or copied past the buffer.  Longer texts are not
\* safe: after it has passed "size" append_string never grows the buffer
\* again, and append_char shrinks it to twice the size.  Nor is an array whose
\* text ends at "size".
InsideUpToHalfAgain ==
    builder.overrun => arrays \/ 2 * (peak + 1) > 3 * builder.size
=============================================================================
