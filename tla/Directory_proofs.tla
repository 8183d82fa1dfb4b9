---------------------------- MODULE Directory_proofs ----------------------------
(***************************************************************************)
(* Proofs about the walks through a tree of directories that other         *)
(* processes change, and about what they are made of: the StringBuilder    *)
(* that holds the path, the list of what was found, and its sort.          *)
(*                                                                         *)
(* For every set of sizes and of lengths: a StringBuilder is never written *)
(* or copied past its buffer before its text and NUL have needed more than *)
(* one and a half times its first size, arrays apart.  The property is not *)
(* inductive: what the next append does depends on the room that earlier   *)
(* ones left.  Roomy says what they leave: the first room or, once the     *)
(* text has reached "size", half as much again.                            *)
(*                                                                         *)
(* For lists of any size and any elements: a list holds what was added to  *)
(* it, in order, and sorted once it was sorted.  This rests on what        *)
(* sortPtrArray does for any array: its result is a rearrangement of the   *)
(* array that is in order, after as many turns of the loop as it has       *)
(* pointers, with no more ranges on the stack than its slots are for.  The *)
(* invariant of the loop: two pointers that no waiting range holds         *)
(* together are in order, and each turn leaves a pointer fewer that waits. *)
(*                                                                         *)
(* For trees of any depth, changed any number of times: a walk leaves its  *)
(* path as it was, and find lists each match that was always there, none   *)
(* that never was, and all in order.  The invariant: the text of the path  *)
(* is that of the open calls, no match is passed over, and what was found  *)
(* is before all that the open calls have still to come to.                *)
(***************************************************************************)
EXTENDS StringBuilder, ListArray, Directory, SequenceTheorems, FiniteSetTheorems, TLAPS

-------------------------------------------------------------------------------
(* StringBuilder.                                                          *)

Builders == [length : Nat, size : Nat \ {0}, room : Nat, nul : Nat,
             aborted : BOOLEAN, overrun : BOOLEAN]

Roomy(sb) ==
    /\ sb.room >= sb.size
    /\ sb.room = sb.size \/ 2 * sb.room >= 3 * sb.size - 1
    /\ sb.length >= sb.size => 2 * sb.room >= 3 * sb.size - 1

\* A builder that was appended to from a state that was roomy.
Fine(sb) ==
    /\ sb \in Builders
    /\ sb.overrun => 2 * (sb.length + 1) > 3 * sb.size
    /\ ~sb.overrun /\ ~sb.aborted => Roomy(sb)

BuilderInv ==
    /\ TypeOK
    /\ builder.length <= peak
    /\ ~builder.overrun /\ ~builder.aborted => Roomy(builder)
    /\ InsideUpToHalfAgain

------------------------------------------------------------------------------
\* Half as much again is at least one and a half, less the rounding.
LEMMA HalfAgain ==
    ASSUME NEW n \in Nat
    PROVE  OneAndAHalf(n) \in Nat /\ OneAndAHalf(n) >= n /\ 2 * OneAndAHalf(n) >= 3 * n - 1
BY DEF OneAndAHalf

\* What writing characters and a NUL does to each field.
LEMMA WrittenFields ==
    ASSUME NEW sb \in Builders, ~sb.aborted, NEW n \in Nat
    PROVE  /\ Written(sb, n) \in Builders
           /\ Written(sb, n).size = sb.size
           /\ Written(sb, n).room = sb.room
           /\ Written(sb, n).length = sb.length + n
           /\ Written(sb, n).aborted = FALSE
           /\ Written(sb, n).overrun = (sb.overrun \/ sb.length + n >= sb.room)
<1> DEFINE nul == IF sb.nul = sb.length THEN sb.length + n ELSE sb.nul
           over == (sb.overrun \/ sb.length + n >= sb.room)
<1>1. /\ sb.length \in Nat /\ sb.size \in Nat \ {0} /\ sb.room \in Nat /\ sb.nul \in Nat
      /\ sb = [length |-> sb.length, size |-> sb.size, room |-> sb.room, nul |-> sb.nul,
               aborted |-> sb.aborted, overrun |-> sb.overrun]
  BY DEF Builders
<1>2. nul \in Nat /\ sb.length + n \in Nat /\ over \in BOOLEAN
  BY <1>1
<1>3. Written(sb, n) = [sb EXCEPT !.length = sb.length + n, !.nul = nul, !.overrun = over]
  BY DEF Written
<1> HIDE DEF nul, over
<1>4. Written(sb, n) = [length |-> sb.length + n, size |-> sb.size, room |-> sb.room, nul |-> nul,
                        aborted |-> sb.aborted, overrun |-> over]
  BY <1>1, <1>3
<1>5. sb.aborted = FALSE
  BY DEF Builders
<1> QED
  BY <1>1, <1>2, <1>4, <1>5 DEF Builders, over

\* A larger buffer changes nothing but the room.
LEMMA ResizedFields ==
    ASSUME NEW sb \in Builders, ~sb.aborted, NEW r \in Nat
    PROVE  /\ [sb EXCEPT !.room = r] \in Builders
           /\ [sb EXCEPT !.room = r].room = r
           /\ [sb EXCEPT !.room = r].length = sb.length
           /\ [sb EXCEPT !.room = r].size = sb.size
           /\ [sb EXCEPT !.room = r].overrun = sb.overrun
           /\ [sb EXCEPT !.room = r].aborted = FALSE
           /\ sb.length # 0 =>
                 /\ resizeStringBuilder(sb, r) \in Builders
                 /\ resizeStringBuilder(sb, r).overrun = (sb.overrun \/ r < sb.length)
                 /\ resizeStringBuilder(sb, r).aborted = FALSE
                 /\ resizeStringBuilder(sb, r).length = sb.length
                 /\ resizeStringBuilder(sb, r).size = sb.size
                 /\ resizeStringBuilder(sb, r).room = r
           /\ sb.length = 0 =>
                 /\ resizeStringBuilder(sb, r) \in Builders
                 /\ resizeStringBuilder(sb, r).aborted = TRUE
                 /\ resizeStringBuilder(sb, r).overrun = sb.overrun
                 /\ resizeStringBuilder(sb, r).length = sb.length
                 /\ resizeStringBuilder(sb, r).size = sb.size
<1>1. /\ sb.length \in Nat /\ sb.size \in Nat \ {0} /\ sb.room \in Nat /\ sb.nul \in Nat
      /\ sb.overrun \in BOOLEAN /\ sb.aborted = FALSE
      /\ sb = [length |-> sb.length, size |-> sb.size, room |-> sb.room, nul |-> sb.nul,
               aborted |-> sb.aborted, overrun |-> sb.overrun]
  BY DEF Builders
<1>2. /\ [sb EXCEPT !.room = r] \in Builders
      /\ [sb EXCEPT !.room = r].room = r
      /\ [sb EXCEPT !.room = r].length = sb.length
      /\ [sb EXCEPT !.room = r].size = sb.size
      /\ [sb EXCEPT !.room = r].overrun = sb.overrun
      /\ [sb EXCEPT !.room = r].aborted = FALSE
  BY <1>1 DEF Builders
<1>3. CASE sb.length = 0
  <2>1. resizeStringBuilder(sb, r) = [sb EXCEPT !.aborted = TRUE]
    BY <1>3 DEF resizeStringBuilder
  <2> QED
    BY <1>1, <1>2, <1>3, <2>1 DEF Builders
<1>4. CASE sb.length # 0
  <2> DEFINE over == (sb.overrun \/ r < sb.length)
  <2>1. resizeStringBuilder(sb, r) = [sb EXCEPT !.room = r, !.overrun = over]
    BY <1>4 DEF resizeStringBuilder
  <2>2. over \in BOOLEAN
    BY <1>1
  <2> HIDE DEF over
  <2>3. resizeStringBuilder(sb, r) =
           [length |-> sb.length, size |-> sb.size, room |-> r, nul |-> sb.nul,
            aborted |-> FALSE, overrun |-> over]
    BY <1>1, <2>1
  <2>4. resizeStringBuilder(sb, r) \in Builders
    BY <1>1, <2>2, <2>3 DEF Builders
  <2> QED
    BY <1>2, <1>4, <2>3, <2>4 DEF over
<1> QED
  BY <1>2, <1>3, <1>4

------------------------------------------------------------------------------
\* Writing into a buffer that is roomy enough for where it takes the text.
LEMMA WrittenIsFine ==
    ASSUME NEW sb \in Builders, ~sb.aborted, NEW n \in Nat,
           sb.overrun \/ sb.length + n >= sb.room => 2 * (sb.length + n + 1) > 3 * sb.size,
           ~sb.overrun => /\ sb.room >= sb.size
                          /\ sb.room = sb.size \/ 2 * sb.room >= 3 * sb.size - 1
    PROVE  /\ Fine(Written(sb, n))
           /\ ~Written(sb, n).aborted
           /\ Written(sb, n).size = sb.size
           /\ Written(sb, n).length = sb.length + n
<1> DEFINE new == Written(sb, n)
<1>1. /\ new \in Builders /\ ~new.aborted /\ new.size = sb.size /\ new.room = sb.room
      /\ new.length = sb.length + n
      /\ new.overrun = (sb.overrun \/ sb.length + n >= sb.room)
  BY WrittenFields
<1>2. /\ sb.size \in Nat \ {0} /\ sb.length \in Nat /\ sb.room \in Nat
  BY DEF Builders
<1> HIDE DEF new
<1>3. new.overrun => 2 * (new.length + 1) > 3 * new.size
  BY <1>1
<1>4. ASSUME ~new.overrun PROVE Roomy(new)
  BY <1>1, <1>2, <1>4 DEF Roomy
<1>5. Fine(new)
  BY <1>1, <1>3, <1>4 DEF Fine
<1> QED
  BY <1>1, <1>5 DEF new

\* append_string grows the buffer when the text or its NUL reaches "size".
LEMMA AppendStringIsFine ==
    ASSUME NEW sb, Fine(sb), ~sb.aborted, NEW n \in Nat
    PROVE  /\ Fine(append_string(sb, n)) /\ ~append_string(sb, n).aborted
           /\ append_string(sb, n).size = sb.size
           /\ append_string(sb, n).length = sb.length + n
<1>1. /\ sb \in Builders /\ sb.size \in Nat \ {0} /\ sb.length \in Nat /\ sb.room \in Nat
      /\ 2 * sb.size \in Nat
  BY DEF Fine, Builders
<1>2. sb.overrun => 2 * (sb.length + 1) > 3 * sb.size
  BY DEF Fine
<1>3. CASE Reaches(sb, n)
  <2> DEFINE base == [sb EXCEPT !.room = 2 * sb.size]
  <2>1. /\ base \in Builders /\ ~base.aborted /\ base.size = sb.size
        /\ base.length = sb.length /\ base.room = 2 * sb.size
        /\ base.overrun = sb.overrun
    BY <1>1, ResizedFields
  <2>2. append_string(sb, n) = Written(base, n)
    BY <1>3 DEF append_string
  <2> HIDE DEF base
  <2>3. base.overrun \/ base.length + n >= base.room => 2 * (base.length + n + 1) > 3 * base.size
    BY <1>1, <1>2, <2>1
  <2>4. base.room >= base.size /\ 2 * base.room >= 3 * base.size - 1
    BY <1>1, <2>1
  <2> QED
    BY <2>1, <2>2, <2>3, <2>4, WrittenIsFine
<1>4. CASE ~Reaches(sb, n)
  <2>1. append_string(sb, n) = Written(sb, n)
    BY <1>4 DEF append_string
  <2>2. sb.length > sb.size \/ sb.length + n < sb.size
    BY <1>1, <1>4 DEF Reaches
  <2>3. CASE sb.overrun
    <3>1. 2 * (sb.length + n + 1) > 3 * sb.size
      BY <1>1, <1>2, <2>3
    <3> QED
      BY <1>1, <2>1, <2>3, <3>1, WrittenIsFine
  <2>4. CASE ~sb.overrun
    <3>1. sb.room >= sb.size /\ (sb.room = sb.size \/ 2 * sb.room >= 3 * sb.size - 1)
      BY <2>4 DEF Fine, Roomy
    <3>2. sb.length >= sb.size => 2 * sb.room >= 3 * sb.size - 1
      BY <2>4 DEF Fine, Roomy
    <3>3. sb.length + n >= sb.room => 2 * (sb.length + n + 1) > 3 * sb.size
      BY <1>1, <2>2, <3>1, <3>2
    <3> QED
      BY <1>1, <2>1, <2>4, <3>1, <3>3, WrittenIsFine
  <2> QED
    BY <2>3, <2>4
<1> QED
  BY <1>3, <1>4

\* resizeArray aborts an empty builder, which stays as it is.
LEMMA AbortedIsFine ==
    ASSUME NEW sb, Fine(sb), ~sb.aborted, ~sb.overrun, sb.length = 0, NEW r \in Nat, NEW n \in Nat
    PROVE  LET new == Written(resizeStringBuilder(sb, r), n)
           IN  Fine(new) /\ new.size = sb.size /\ new.length = sb.length /\ new.aborted
<1> DEFINE new == resizeStringBuilder(sb, r)
<1>1. sb \in Builders /\ sb.overrun = FALSE
  BY DEF Fine, Builders
<1>2. /\ new \in Builders /\ new.aborted = TRUE
      /\ new.overrun = FALSE
      /\ new.length = sb.length /\ new.size = sb.size
  BY <1>1, ResizedFields
<1> HIDE DEF new
<1>3. Written(new, n) = new
  BY <1>2 DEF Written
<1>4. Fine(new)
  BY <1>2 DEF Fine
<1> QED
  BY <1>2, <1>3, <1>4 DEF new

\* A resize to what is asked for, of a builder with text in it.
LEMMA ResizedIsFine ==
    ASSUME NEW sb, Fine(sb), ~sb.aborted, ~sb.overrun, sb.length # 0, NEW r \in Nat, NEW n \in Nat,
           2 * r >= 3 * sb.size - 1, r >= sb.size,
           r < sb.length \/ sb.length + n >= r => 2 * (sb.length + n + 1) > 3 * sb.size
    PROVE  LET new == Written(resizeStringBuilder(sb, r), n)
           IN  Fine(new) /\ new.size = sb.size /\ new.length = sb.length + n
<1> DEFINE new == resizeStringBuilder(sb, r)
<1>1. sb \in Builders
  BY DEF Fine
<1>2. /\ new \in Builders /\ new.aborted = FALSE /\ new.length = sb.length /\ new.size = sb.size
      /\ new.room = r /\ new.overrun = (sb.overrun \/ r < sb.length)
  BY <1>1, ResizedFields
<1> HIDE DEF new
<1>3. new.overrun \/ new.length + n >= new.room => 2 * (new.length + n + 1) > 3 * new.size
  BY <1>2
<1>4. new.room >= new.size /\ 2 * new.room >= 3 * new.size - 1
  BY <1>2
<1>5. ~new.aborted
  BY <1>2
<1> QED
  BY <1>2, <1>3, <1>4, <1>5, WrittenIsFine DEF new

\* append_char and the '[' of an array make the buffer twice the first size,
\* whatever it was, when there is no room for k characters.
LEMMA DoubledIsFine ==
    ASSUME NEW sb, Fine(sb), ~sb.aborted, ~sb.overrun, NEW k \in Nat \ {0}
    PROVE  LET new == Written(IF sb.length + k >= sb.size
                              THEN resizeStringBuilder(sb, 2 * sb.size) ELSE sb, 1)
           IN  /\ Fine(new) /\ new.size = sb.size /\ new.length >= sb.length
               /\ ~new.aborted => new.length = sb.length + 1
<1>1. /\ sb \in Builders /\ sb.size \in Nat \ {0} /\ sb.length \in Nat /\ sb.room \in Nat
      /\ 2 * sb.size \in Nat
      /\ sb.room >= sb.size /\ (sb.room = sb.size \/ 2 * sb.room >= 3 * sb.size - 1)
  BY DEF Fine, Builders, Roomy
<1>2. CASE ~(sb.length + k >= sb.size)
  <2>1. ~(sb.length + 1 >= sb.room)
    BY <1>1, <1>2
  <2> QED
    BY <1>1, <1>2, <2>1, WrittenIsFine
<1>3. CASE sb.length + k >= sb.size
  <2>1. CASE sb.length = 0
    <3> DEFINE new == Written(resizeStringBuilder(sb, 2 * sb.size), 1)
    <3>1. Fine(new) /\ new.size = sb.size /\ new.length = sb.length /\ new.aborted
      BY <1>1, <2>1, AbortedIsFine
    <3> QED
      BY <1>1, <1>3, <3>1
  <2>2. CASE sb.length # 0
    <3>1. 2 * (2 * sb.size) >= 3 * sb.size - 1 /\ 2 * sb.size >= sb.size
      BY <1>1
    <3>2. 2 * sb.size < sb.length \/ sb.length + 1 >= 2 * sb.size =>
             2 * (sb.length + 1 + 1) > 3 * sb.size
      BY <1>1
    <3> QED
      BY <1>1, <1>3, <2>2, <3>1, <3>2, ResizedIsFine
  <2> QED
    BY <2>1, <2>2
<1> QED
  BY <1>2, <1>3

LEMMA AppendCharIsFine ==
    ASSUME NEW sb, Fine(sb), ~sb.aborted, ~sb.overrun
    PROVE  /\ Fine(append_char(sb))
           /\ append_char(sb).size = sb.size
           /\ append_char(sb).length >= sb.length
BY DoubledIsFine DEF append_char

\* appendBytes leaves half as much again as the text needs.
LEMMA AppendBytesIsFine ==
    ASSUME NEW sb, Fine(sb), ~sb.aborted, ~sb.overrun, NEW n \in Nat
    PROVE  /\ Fine(appendBytes(sb, n))
           /\ appendBytes(sb, n).size = sb.size
           /\ appendBytes(sb, n).length >= sb.length
<1> DEFINE need == sb.length + n + 1
           half == OneAndAHalf(need)
<1>1. /\ sb \in Builders /\ sb.size \in Nat \ {0} /\ sb.length \in Nat /\ sb.room \in Nat
      /\ sb.room >= sb.size /\ (sb.room = sb.size \/ 2 * sb.room >= 3 * sb.size - 1)
  BY DEF Fine, Builders, Roomy
<1>2. half \in Nat /\ half >= need /\ 2 * half >= 3 * need - 1
  BY <1>1, HalfAgain
<1>3. appendBytes(sb, n) = Written(IF need >= sb.size THEN resizeStringBuilder(sb, half) ELSE sb, n)
  BY DEF appendBytes
<1> HIDE DEF half
<1>4. CASE need < sb.size
  <2>1. appendBytes(sb, n) = Written(sb, n)
    BY <1>1, <1>3, <1>4
  <2>2. ~(sb.length + n >= sb.room)
    BY <1>1, <1>4
  <2> QED
    BY <1>1, <2>1, <2>2, WrittenIsFine
<1>5. CASE need >= sb.size
  <2>1. appendBytes(sb, n) = Written(resizeStringBuilder(sb, half), n)
    BY <1>3, <1>5
  <2>2. CASE sb.length = 0
    BY <1>1, <1>2, <2>1, <2>2, AbortedIsFine
  <2>3. CASE sb.length # 0
    <3>1. 2 * half >= 3 * sb.size - 1 /\ half >= sb.size
      BY <1>1, <1>2, <1>5
    <3>2. ~(half < sb.length \/ sb.length + n >= half)
      BY <1>1, <1>2
    <3> QED
      BY <1>1, <1>2, <2>1, <2>3, <3>1, <3>2, ResizedIsFine
  <2> QED
    BY <2>2, <2>3
<1> QED
  BY <1>1, <1>4, <1>5

\* '[' makes room like append_char; the ']' that it makes none for is why the
\* property excludes arrays.
LEMMA ArrayIsRoomy ==
    ASSUME NEW sb, Fine(sb), ~sb.aborted, ~sb.overrun, NEW n \in Nat, NEW m \in Nat
    PROVE  LET new == append_stringArray(sb, n, m)
           IN  /\ new \in Builders /\ new.size = sb.size /\ new.length >= sb.length
               /\ ~new.overrun /\ ~new.aborted => Roomy(new)
<1> DEFINE opened == Written(IF sb.length + 3 >= sb.size
                             THEN resizeStringBuilder(sb, 2 * sb.size) ELSE sb, 1)
           new == append_stringArray(sb, n, m)
<1>1. /\ Fine(opened) /\ opened.size = sb.size /\ opened.length >= sb.length
  BY DoubledIsFine
<1>2. /\ opened \in Builders /\ opened.size \in Nat \ {0} /\ opened.length \in Nat
      /\ opened.room \in Nat /\ opened.nul \in Nat /\ sb.length \in Nat
  BY <1>1 DEF Fine, Builders
<1>3. CASE opened.aborted
  <2>1. new = opened
    BY <1>3 DEF append_stringArray
  <2> QED
    BY <1>1, <1>2, <1>3, <2>1
<1>4. CASE ~opened.aborted
  <2> DEFINE longer == opened.length + (n + 1 + m)
             grown == IF opened.length <= sb.size /\ sb.size < longer
                      THEN 2 * sb.size ELSE opened.room
             nul == CASE opened.nul # opened.length -> opened.nul
                      [] longer + 1 = sb.size -> longer + 1
                      [] OTHER -> longer
             room == IF longer + 1 = sb.size THEN 2 * sb.size ELSE grown
             over == opened.overrun \/ longer >= grown
  <2>1. new = [opened EXCEPT !.length = longer + 1, !.nul = nul, !.room = room, !.overrun = over]
    BY <1>4 DEF append_stringArray
  <2>2. longer \in Nat /\ grown \in Nat /\ room \in Nat /\ nul \in Nat /\ over \in BOOLEAN
    BY <1>1, <1>2
  <2>3. ASSUME ~over
        PROVE  /\ room >= sb.size
               /\ room = sb.size \/ 2 * room >= 3 * sb.size - 1
               /\ longer + 1 >= sb.size => 2 * room >= 3 * sb.size - 1
    <3>1. /\ opened.room >= sb.size
          /\ opened.room = sb.size \/ 2 * opened.room >= 3 * sb.size - 1
          /\ opened.length >= sb.size => 2 * opened.room >= 3 * sb.size - 1
      BY <1>1, <1>4, <2>3 DEF Fine, Roomy
    <3>2. ~(longer >= grown)
      BY <2>3
    <3> QED
      BY <1>1, <1>2, <3>1, <3>2
  <2>4. /\ new \in Builders /\ new.size = sb.size /\ new.length = longer + 1
        /\ new.room = room /\ new.overrun = over
    <3> HIDE DEF opened, new, longer, grown, nul, room, over
    <3>1. longer + 1 \in Nat
      BY <2>2
    <3> QED
      BY <1>1, <1>2, <2>1, <2>2, <3>1 DEF Builders
  <2>5. longer + 1 >= sb.length
    BY <1>1, <1>2
  <2> HIDE DEF opened, new, longer, grown, room, over
  <2>6. ~new.overrun => Roomy(new)
    BY <2>3, <2>4 DEF Roomy
  <2> QED
    BY <2>4, <2>5, <2>6 DEF new
<1> QED
  BY <1>3, <1>4

\* The text that is put back leaves the buffer it needed.
LEMMA ReduceLengthIsFine ==
    ASSUME NEW sb \in Builders, NEW n \in Nat
    PROVE  LET new == reduceLength(sb, n)
           IN  /\ new \in Builders /\ new.size = sb.size /\ new.length <= sb.length
               /\ new.overrun = sb.overrun /\ new.aborted = sb.aborted
               /\ Roomy(sb) => Roomy(new)
<1>1. CASE ~(n < sb.length)
  BY <1>1 DEF reduceLength, Builders
<1>2. CASE n < sb.length
  <2> DEFINE nul == IF n < sb.nul THEN n ELSE sb.nul
  <2>1. reduceLength(sb, n) = [sb EXCEPT !.length = n, !.nul = nul]
    BY <1>2 DEF reduceLength
  <2>2. nul \in Nat
    BY DEF Builders
  <2> HIDE DEF nul
  <2>3. /\ [sb EXCEPT !.length = n, !.nul = nul] \in Builders
        /\ reduceLength(sb, n).size = sb.size /\ reduceLength(sb, n).length = n
        /\ reduceLength(sb, n).room = sb.room
        /\ reduceLength(sb, n).overrun = sb.overrun /\ reduceLength(sb, n).aborted = sb.aborted
    BY <2>1, <2>2 DEF Builders
  <2>4. sb.length \in Nat /\ sb.size \in Nat
    BY DEF Builders
  <2> QED
    BY <1>2, <2>1, <2>3, <2>4 DEF Roomy
<1> QED
  BY <1>1, <1>2

------------------------------------------------------------------------------
\* A step that leaves a builder that is Fine.
LEMMA BecomesKeepsInvariant ==
    ASSUME BuilderInv, IsUsable, NEW sb, Fine(sb), sb.size = builder.size, Becomes(sb)
    PROVE  BuilderInv'
<1>1. builder \in Builders /\ peak \in Nat /\ arrays \in BOOLEAN
  BY DEF BuilderInv, TypeOK, Builders
<1>2. /\ sb \in Builders /\ sb.length \in Nat /\ sb.size \in Nat
      /\ builder' = sb /\ arrays' = arrays /\ peak' = Larger(peak, sb.length)
  BY DEF Fine, Builders, Becomes
<1>3. peak' \in Nat /\ peak' >= peak /\ sb.length <= peak'
  BY <1>1, <1>2 DEF Larger
<1>4. TypeOK'
  BY <1>1, <1>2, <1>3 DEF TypeOK, Builders
<1>5. sb.overrun => 2 * (peak' + 1) > 3 * sb.size
  BY <1>2, <1>3 DEF Fine
<1>6. ~sb.overrun /\ ~sb.aborted => Roomy(sb)
  BY DEF Fine
<1> QED
  BY <1>2, <1>3, <1>4, <1>5, <1>6 DEF BuilderInv, InsideUpToHalfAgain, Roomy

\* The builder of a usable state is roomy.
LEMMA UsableIsFine ==
    ASSUME BuilderInv, IsUsable
    PROVE  Fine(builder) /\ ~builder.aborted /\ ~builder.overrun
BY DEF BuilderInv, IsUsable, Fine, TypeOK, Builders

\* The first buffer.
LEMMA InitBuilder == Init => BuilderInv
<1> SUFFICES ASSUME Init PROVE BuilderInv
  OBVIOUS
<1>1. PICK s \in Sizes : builder = createStringBuilder_uint32(s)
  BY DEF Init
<1>2. s \in Nat \ {0}
  BY <1>1, SizesAssumption
<1>3. /\ builder = [length |-> 0, size |-> s, room |-> s, nul |-> 0,
                    aborted |-> FALSE, overrun |-> FALSE]
      /\ peak = 0 /\ arrays = FALSE
  BY <1>1 DEF Init, createStringBuilder_uint32
<1>4. TypeOK
  BY <1>2, <1>3 DEF TypeOK
<1>5. Roomy(builder)
  BY <1>2, <1>3 DEF Roomy
<1>6. InsideUpToHalfAgain
  BY <1>3 DEF InsideUpToHalfAgain
<1> QED
  BY <1>3, <1>4, <1>5, <1>6 DEF BuilderInv

LEMMA NextBuilder == BuilderInv /\ [Next]_vars => BuilderInv'
<1> SUFFICES ASSUME BuilderInv, [Next]_vars PROVE BuilderInv'
  OBVIOUS
<1> USE LengthsAssumption
<1>1. CASE AppendChar
  <2>1. Fine(builder) /\ ~builder.aborted /\ ~builder.overrun /\ IsUsable
    BY <1>1, UsableIsFine DEF AppendChar
  <2>2. Fine(append_char(builder)) /\ append_char(builder).size = builder.size
    BY <2>1, AppendCharIsFine
  <2> QED
    BY <1>1, <2>1, <2>2, BecomesKeepsInvariant DEF AppendChar
<1>2. CASE Reset
  <2>1. Fine(builder) /\ ~builder.aborted /\ ~builder.overrun
    BY <1>2, UsableIsFine DEF Reset
  <2>2. /\ builder \in Builders /\ Roomy(builder) /\ peak \in Nat
    BY <2>1 DEF Fine, BuilderInv, TypeOK
  <2>3. /\ builder' = [builder EXCEPT !.length = 0, !.nul = 0]
        /\ arrays' = FALSE /\ peak' = peak
    BY <1>2 DEF Reset, resetStringBuilder
  <2>4. /\ builder' \in Builders /\ builder'.size = builder.size /\ builder'.room = builder.room
        /\ builder'.length = 0 /\ builder'.overrun = builder.overrun
    BY <2>2, <2>3 DEF Builders
  <2>5. /\ builder.size \in Nat \ {0} /\ builder.room \in Nat
    BY <2>2 DEF Builders
  <2>6. Roomy(builder')
    BY <2>2, <2>4, <2>5 DEF Roomy
  <2>7. TypeOK'
    BY <2>2, <2>3, <2>4 DEF TypeOK, Builders
  <2>8. builder'.length <= peak' /\ ~builder'.overrun
    BY <2>1, <2>2, <2>3, <2>4
  <2> QED
    BY <2>6, <2>7, <2>8 DEF BuilderInv, InsideUpToHalfAgain, Roomy
<1>3. ASSUME NEW n \in Lengths, AppendBytes(n) PROVE BuilderInv'
  <2>1. Fine(builder) /\ ~builder.aborted /\ ~builder.overrun /\ IsUsable
    BY <1>3, UsableIsFine DEF AppendBytes
  <2>2. Fine(appendBytes(builder, n)) /\ appendBytes(builder, n).size = builder.size
    BY <2>1, AppendBytesIsFine
  <2> QED
    BY <1>3, <2>1, <2>2, BecomesKeepsInvariant DEF AppendBytes
<1>4. ASSUME NEW n \in Lengths, AppendString(n) PROVE BuilderInv'
  <2>1. Fine(builder) /\ ~builder.aborted /\ ~builder.overrun /\ IsUsable
    BY <1>4, UsableIsFine DEF AppendString
  <2>2. Fine(append_string(builder, n)) /\ append_string(builder, n).size = builder.size
    BY <2>1, AppendStringIsFine
  <2> QED
    BY <1>4, <2>1, <2>2, BecomesKeepsInvariant DEF AppendString
<1>5. ASSUME NEW n \in Lengths, NEW m \in Lengths, AppendStrings(n, m) PROVE BuilderInv'
  <2>1. Fine(builder) /\ ~builder.aborted /\ ~builder.overrun /\ IsUsable
    BY <1>5, UsableIsFine DEF AppendStrings
  <2> DEFINE first == append_string(builder, n)
  <2>2. Fine(first) /\ ~first.aborted /\ first.size = builder.size
    BY <2>1, AppendStringIsFine
  <2> HIDE DEF first
  <2>3. Fine(append_string(first, m)) /\ append_string(first, m).size = builder.size
    BY <2>2, AppendStringIsFine
  <2>4. Becomes(append_string(first, m))
    BY <1>5 DEF AppendStrings, append_string_varg, first
  <2> QED
    BY <2>1, <2>3, <2>4, BecomesKeepsInvariant
<1>6. ASSUME NEW n \in Lengths, CreateString(n) PROVE BuilderInv'
  <2>1. Fine(builder) /\ ~builder.aborted /\ ~builder.overrun /\ IsUsable
    BY <1>6, UsableIsFine DEF CreateString
  <2>2. /\ builder \in Builders /\ builder.length \in Nat /\ peak \in Nat /\ arrays \in BOOLEAN
        /\ builder.length <= peak
    BY DEF BuilderInv, TypeOK, Builders
  <2>3. /\ builder' = createString(builder, n) /\ arrays' = arrays
        /\ peak' \in Nat /\ peak' >= builder.length + n /\ peak' >= peak
    BY <1>6, <2>2 DEF CreateString, Larger
  <2>4. CASE builder.length = 0
    BY <2>1, <2>2, <2>3, <2>4 DEF createString, BuilderInv, TypeOK, InsideUpToHalfAgain, Roomy
  <2>5. CASE builder.length # 0
    <3> DEFINE long == append_string(builder, n)
               back == reduceLength(long, builder.length)
    <3>1. Fine(long) /\ ~long.aborted /\ long.size = builder.size /\ long.length = builder.length + n
      BY <2>1, AppendStringIsFine
    <3>2. long \in Builders /\ (long.overrun => 2 * (long.length + 1) > 3 * long.size)
          /\ (~long.overrun => Roomy(long))
      BY <3>1 DEF Fine
    <3> HIDE DEF long
    <3>3. /\ back \in Builders /\ back.size = long.size /\ back.length <= long.length
          /\ back.overrun = long.overrun /\ back.aborted = long.aborted
          /\ Roomy(long) => Roomy(back)
      BY <2>2, <3>2, ReduceLengthIsFine
    <3>4. builder' = back
      BY <2>3, <2>5 DEF createString, long
    <3>5. back.length \in Nat /\ back.size \in Nat /\ long.length \in Nat
      BY <3>2, <3>3 DEF Builders
    <3> HIDE DEF back
    <3>6. TypeOK'
      BY <2>2, <2>3, <3>3, <3>4 DEF TypeOK, Builders
    <3>7. back.overrun => 2 * (peak' + 1) > 3 * back.size
      BY <2>2, <2>3, <3>1, <3>2, <3>3, <3>5
    <3>8. back.length <= peak'
      BY <2>2, <2>3, <3>1, <3>3, <3>5
    <3>9. ~back.overrun => Roomy(back)
      BY <3>2, <3>3
    <3> QED
      BY <3>4, <3>6, <3>7, <3>8, <3>9 DEF BuilderInv, InsideUpToHalfAgain, Roomy
  <2> QED
    BY <2>4, <2>5
<1>7. ASSUME NEW n \in Lengths, ReduceLength(n) PROVE BuilderInv'
  <2>1. Fine(builder) /\ ~builder.aborted /\ ~builder.overrun /\ IsUsable
    BY <1>7, UsableIsFine DEF ReduceLength
  <2>2. builder \in Builders /\ Roomy(builder)
    BY <2>1 DEF Fine
  <2> DEFINE new == reduceLength(builder, n)
  <2>3. /\ new \in Builders /\ new.size = builder.size /\ new.overrun = builder.overrun
        /\ new.aborted = builder.aborted /\ Roomy(new)
    BY <2>2, ReduceLengthIsFine
  <2>4. Fine(new)
    BY <2>1, <2>3 DEF Fine
  <2> QED
    BY <1>7, <2>1, <2>3, <2>4, BecomesKeepsInvariant DEF ReduceLength
<1>8. ASSUME NEW n \in Lengths, NEW m \in Lengths, AppendStringArray(n, m) PROVE BuilderInv'
  <2>1. Fine(builder) /\ ~builder.aborted /\ ~builder.overrun
    BY <1>8, UsableIsFine DEF AppendStringArray
  <2> DEFINE new == append_stringArray(builder, n, m)
  <2>2. /\ new \in Builders /\ (~new.overrun /\ ~new.aborted => Roomy(new))
    BY <2>1, ArrayIsRoomy
  <2>3. builder' = new /\ arrays' = TRUE /\ peak' = Larger(peak, new.length)
    BY <1>8 DEF AppendStringArray
  <2> HIDE DEF new
  <2>4. new.length \in Nat /\ peak \in Nat
    BY <2>2 DEF Builders, BuilderInv, TypeOK
  <2>5. peak' \in Nat /\ new.length <= peak'
    BY <2>3, <2>4 DEF Larger
  <2> QED
    BY <2>2, <2>3, <2>5 DEF BuilderInv, TypeOK, Builders, InsideUpToHalfAgain, Roomy
<1>9. CASE UNCHANGED vars
  BY <1>9 DEF vars, BuilderInv, TypeOK, Roomy, InsideUpToHalfAgain
<1> QED
  BY <1>1, <1>2, <1>3, <1>4, <1>5, <1>6, <1>7, <1>8, <1>9 DEF Next

\* Every order of appends, of every lengths, to a StringBuilder of every size
\* stays inside the buffer until the text and its NUL need more than one and a
\* half times that size, unless an array was appended.
THEOREM StaysInsideUpToHalfAgain == Spec => []InsideUpToHalfAgain
<1>1. Init => BuilderInv
  BY InitBuilder
<1>2. BuilderInv /\ [Next]_vars => BuilderInv'
  BY NextBuilder
<1>3. BuilderInv => InsideUpToHalfAgain
  BY DEF BuilderInv
<1> QED
  BY <1>1, <1>2, <1>3, PTL DEF Spec

\* The builder stays a StringBuilder: its lengths are natural numbers, its size
\* the one it was created with, at least 1.
THEOREM StringBuilderTypeOK == Spec => []TypeOK
<1>1. Init => BuilderInv
  BY InitBuilder
<1>2. BuilderInv /\ [Next]_vars => BuilderInv'
  BY NextBuilder
<1>3. BuilderInv => TypeOK
  BY DEF BuilderInv
<1> QED
  BY <1>1, <1>2, <1>3, PTL DEF Spec

-------------------------------------------------------------------------------
(* ListArray: sortPtrArray.                                                *)

\* b is a with the elements of l..h in another order: order says where each of
\* b's comes from.
Injections(n) == {p \in [1 .. n -> 1 .. n] : \A i, j \in 1 .. n : p[i] = p[j] => i = j}
Reorders(b, a, l, h, p) ==
    \A i \in 1 .. Len(a) : b[i] = a[p[i]] /\ (i \notin l .. h => p[i] = i)
Rearranged(b, a, l, h) == \E p \in Injections(Len(a)) : Reorders(b, a, l, h, p)

IsArray(a, n) == a \in [1 .. n -> Int] /\ n \in Nat /\ Len(a) = n /\ a \in Seq(Int)

\* Arrays are functions on 1..n, and sequences.
LEMMA ArrayIs ==
  ASSUME NEW a \in Seq(Int)
  PROVE  IsArray(a, Len(a))
<1> QED BY DEF IsArray

LEMMA FunctionIsArray ==
  ASSUME NEW n \in Nat, NEW a \in [1 .. n -> Int]
  PROVE  IsArray(a, n)
<1> QED BY DEF IsArray

\* An array is a rearrangement of itself.
LEMMA RearrangedItself ==
  ASSUME NEW n, NEW a, IsArray(a, n), NEW l, NEW h
  PROVE  Rearranged(a, a, l, h)
<1> DEFINE p == [i \in 1 .. n |-> i]
<1>1. p \in Injections(n)
  BY DEF Injections
<1>2. \A i \in 1 .. n : p[i] = i
  OBVIOUS
<1> HIDE DEF p
<1> QED BY <1>1, <1>2 DEF Rearranged, Reorders, IsArray

\* Rearranging twice, the second time within the range of the first.
LEMMA RearrangedAgain ==
  ASSUME NEW n, NEW a, NEW b, NEW c, IsArray(a, n), IsArray(b, n), IsArray(c, n),
         NEW l \in Int, NEW h \in Int, NEW k \in Int, NEW m \in Int, l <= k, m <= h,
         Rearranged(b, a, l, h), Rearranged(c, b, k, m)
  PROVE  Rearranged(c, a, l, h)
<1>0. n \in Nat /\ Len(a) = n /\ Len(b) = n
  BY DEF IsArray
<1>1. PICK p \in Injections(n) : Reorders(b, a, l, h, p)
  BY <1>0 DEF Rearranged
<1>2. PICK q \in Injections(n) : Reorders(c, b, k, m, q)
  BY <1>0 DEF Rearranged
<1> DEFINE r == [i \in 1 .. n |-> p[q[i]]]
<1>3. r \in Injections(n)
  BY <1>0, <1>1, <1>2 DEF Injections
<1>4. ASSUME NEW i \in 1 .. n PROVE c[i] = a[r[i]] /\ (i \notin l .. h => r[i] = i)
  <2>1. q[i] \in 1 .. n /\ c[i] = b[q[i]] /\ (i \notin k .. m => q[i] = i)
    BY <1>0, <1>2 DEF Reorders, Injections
  <2>2. b[q[i]] = a[p[q[i]]]
    BY <1>0, <1>1, <2>1 DEF Reorders
  <2>3. i \notin l .. h => i \notin k .. m /\ p[i] = i
    BY <1>0, <1>1 DEF Reorders
  <2> QED BY <2>1, <2>2, <2>3
<1> HIDE DEF r
<1> QED BY <1>0, <1>3, <1>4 DEF Rearranged, Reorders

\* A wider range.
LEMMA RearrangedWider ==
  ASSUME NEW n, NEW a, NEW b, IsArray(a, n), IsArray(b, n),
         NEW l \in Int, NEW h \in Int, NEW k \in Int, NEW m \in Int, l <= k, m <= h,
         Rearranged(b, a, k, m)
  PROVE  Rearranged(b, a, l, h)
<1>0. n \in Nat /\ Len(a) = n
  BY DEF IsArray
<1>1. PICK p \in Injections(n) : Reorders(b, a, k, m, p)
  BY <1>0 DEF Rearranged
<1>2. Reorders(b, a, l, h, p)
  BY <1>0, <1>1 DEF Reorders
<1> QED BY <1>0, <1>1, <1>2 DEF Rearranged

\* What a rearrangement of a range leaves: the others are where they were, and
\* each in the range comes from it.
MovesWithin(b, a, n, l, h) ==
    /\ \A i \in 1 .. n : i \notin l .. h => b[i] = a[i]
    /\ \A i \in 1 .. n : i \in l .. h => \E j \in 1 .. n : j \in l .. h /\ b[i] = a[j]

LEMMA RearrangedKeeps ==
  ASSUME NEW n, NEW a, NEW b, IsArray(a, n), IsArray(b, n),
         NEW l \in Int, NEW h \in Int, Rearranged(b, a, l, h)
  PROVE  MovesWithin(b, a, n, l, h)
<1>0. n \in Nat /\ Len(a) = n
  BY DEF IsArray
<1>1. PICK p \in Injections(n) : Reorders(b, a, l, h, p)
  BY <1>0 DEF Rearranged
<1>2. \A i \in 1 .. n : p[i] \in 1 .. n /\ b[i] = a[p[i]] /\ (i \notin l .. h => p[i] = i)
  BY <1>0, <1>1 DEF Reorders, Injections
<1>3. ASSUME NEW i \in 1 .. n, i \in l .. h PROVE p[i] \in l .. h
  BY <1>0, <1>1, <1>2, <1>3 DEF Injections
<1> QED BY <1>2, <1>3 DEF MovesWithin

\* Two elements change places.
LEMMA SwapRearranges ==
  ASSUME NEW n, NEW a, IsArray(a, n), NEW i \in 1 .. n, NEW j \in 1 .. n
  PROVE  /\ IsArray(Swapped(a, i, j), n)
         /\ Swapped(a, i, j)[i] = a[j] /\ Swapped(a, i, j)[j] = a[i]
         /\ \A k \in 1 .. n : k # i /\ k # j => Swapped(a, i, j)[k] = a[k]
         /\ \A l, h \in Int : i \in l .. h /\ j \in l .. h => Rearranged(Swapped(a, i, j), a, l, h)
<1>0. n \in Nat /\ a \in [1 .. n -> Int] /\ Len(a) = n
  BY DEF IsArray
<1> DEFINE b == Swapped(a, i, j)
<1>1. b \in [1 .. n -> Int] /\ b[i] = a[j] /\ b[j] = a[i]
      /\ \A k \in 1 .. n : k # i /\ k # j => b[k] = a[k]
  BY <1>0 DEF Swapped
<1> HIDE DEF b
<1>2. IsArray(b, n)
  BY <1>0, <1>1, FunctionIsArray
<1> DEFINE p == [k \in 1 .. n |-> IF k = i THEN j ELSE IF k = j THEN i ELSE k]
<1>3. p \in Injections(n)
  BY <1>0 DEF Injections
<1>4. \A k \in 1 .. n : b[k] = a[p[k]] /\ (k # i /\ k # j => p[k] = k)
  BY <1>1
<1> HIDE DEF p
<1>5. ASSUME NEW l \in Int, NEW h \in Int, i \in l .. h, j \in l .. h
      PROVE  Rearranged(b, a, l, h)
  <2>1. \A k \in 1 .. n : k \notin l .. h => k # i /\ k # j
    BY <1>5
  <2> QED BY <1>0, <1>3, <1>4, <2>1 DEF Rearranged, Reorders
<1> QED BY <1>1, <1>2, <1>5 DEF b

\* What the loop of sortPtrArray's inner part has done after the indices js: the
\* elements before "pivot" are up to the last of the range, those from it on
\* above it, and nothing else has moved.
Consecutive(l, js) == \A k \in DOMAIN js : js[k] = l + k - 1
Split(a, s, l, j, highPtr) ==
    /\ s = [a |-> s.a, pivot |-> s.pivot, highPtr |-> highPtr]
    /\ s.pivot \in l .. j
    /\ IsArray(s.a, Len(a)) /\ Rearranged(s.a, a, l, j - 1)
    /\ \A i \in l .. s.pivot - 1 : s.a[i] <= highPtr
    /\ \A i \in s.pivot .. j - 1 : s.a[i] > highPtr
IsParted(base, s, js) ==
    (/\ base = [a |-> base.a, pivot |-> base.pivot, highPtr |-> base.highPtr]
     /\ IsArray(base.a, Len(base.a)) /\ base.highPtr \in Int /\ base.pivot \in Nat \ {0}
     /\ Consecutive(base.pivot, js) /\ base.pivot + Len(js) <= Len(base.a))
        => Split(base.a, s, base.pivot, base.pivot + Len(js), base.highPtr)

Parts == INSTANCE Folding WITH op <- PartitionStep, Inv <- IsParted

LEMMA PartitionStepSplits ==
  ASSUME NEW n, NEW a, IsArray(a, n), NEW s, NEW l \in Nat \ {0}, NEW j \in 1 .. n, NEW highPtr \in Int,
         Split(a, s, l, j, highPtr), j < n
  PROVE  Split(a, PartitionStep(s, j), l, j + 1, highPtr)
<1>0. /\ n \in Nat /\ Len(a) = n /\ s.pivot \in l .. j /\ l <= j
      /\ IsArray(s.a, n) /\ Rearranged(s.a, a, l, j - 1)
      /\ s.highPtr = highPtr
      /\ s = [a |-> s.a, pivot |-> s.pivot, highPtr |-> highPtr]
      /\ \A i \in l .. s.pivot - 1 : s.a[i] <= highPtr
      /\ \A i \in s.pivot .. j - 1 : s.a[i] > highPtr
  <2>1. s = [a |-> s.a, pivot |-> s.pivot, highPtr |-> highPtr]
    BY DEF Split
  <2>2. s.highPtr = highPtr
    BY <2>1
  <2> QED BY <2>1, <2>2 DEF Split, IsArray
<1> DEFINE sa == s.a  q == s.pivot
<1>a. /\ q \in l .. j /\ IsArray(sa, n) /\ Rearranged(sa, a, l, j - 1)
      /\ \A i \in l .. q - 1 : sa[i] <= highPtr
      /\ \A i \in q .. j - 1 : sa[i] > highPtr
      /\ q \in 1 .. n
  BY <1>0
<1>b. sa \in [1 .. n -> Int] /\ sa[j] \in Int
  BY <1>a DEF IsArray
<1>1. CASE sa[j] <= highPtr
  <2> DEFINE b == Swapped(sa, q, j)  t == [a |-> b, pivot |-> q + 1, highPtr |-> highPtr]
  <2>1. PartitionStep(s, j) = t
    BY <1>0, <1>1 DEF PartitionStep
  <2>2. IsArray(b, n) /\ b[q] = sa[j] /\ b[j] = sa[q]
        /\ (\A k \in 1 .. n : k # q /\ k # j => b[k] = sa[k])
        /\ Rearranged(b, sa, q, j)
    <3>1. q \in q .. j /\ j \in q .. j
      BY <1>a
    <3> HIDE DEF sa, q
    <3> QED BY <1>a, <3>1, SwapRearranges
  <2> HIDE DEF b, sa, q
  <2>a. b \in [1 .. n -> Int]
    BY <2>2 DEF IsArray
  <2>3. Rearranged(b, a, l, j)
    <3>1. Rearranged(sa, a, l, j)
      BY <1>0, <1>a, RearrangedWider
    <3> QED BY <1>a, <2>2, <3>1, RearrangedAgain
  <2>4. \A i \in l .. (q + 1) - 1 : b[i] <= highPtr
    <3> SUFFICES ASSUME NEW i \in l .. q PROVE b[i] <= highPtr
      BY <1>a
    <3>0. i \in 1 .. n /\ q \in Int
      BY <1>0, <1>a
    <3>1. CASE i = q
      BY <1>1, <1>a, <2>2, <3>1
    <3>2. CASE i # q
      <4>1. i \in l .. q - 1 /\ i # j
        BY <1>a, <3>0, <3>2
      <4> QED BY <1>a, <2>2, <3>0, <3>2, <4>1
    <3> QED BY <3>1, <3>2
  <2>5. \A i \in q + 1 .. (j + 1) - 1 : b[i] > highPtr
    <3> SUFFICES ASSUME NEW i \in q + 1 .. j PROVE b[i] > highPtr
      OBVIOUS
    <3>1. CASE i = j
      BY <1>a, <2>2, <3>1
    <3>2. CASE i # j
      <4>1. i \in 1 .. n /\ i # q /\ i \in q .. j - 1
        BY <1>0, <1>a, <3>2
      <4> QED BY <1>a, <2>2, <3>2, <4>1
    <3> QED BY <3>1, <3>2
  <2>6. (j + 1) - 1 = j /\ q + 1 \in l .. j + 1
    BY <1>a
  <2> QED BY <1>0, <2>1, <2>2, <2>3, <2>4, <2>5, <2>6 DEF Split
<1>2. CASE ~(sa[j] <= highPtr)
  <2>1. PartitionStep(s, j) = s
    BY <1>0, <1>2 DEF PartitionStep
  <2>2. Rearranged(sa, a, l, j)
    <3> HIDE DEF sa, q
    <3> QED BY <1>0, <1>a, RearrangedWider
  <2>3. \A i \in q .. j : sa[i] > highPtr
    <3> HIDE DEF sa, q
    <3>1. sa[j] > highPtr
      BY <1>b, <1>2
    <3> QED BY <1>a, <3>1
  <2>4. (j + 1) - 1 = j /\ q \in l .. j + 1
    BY <1>a
  <2> QED BY <1>0, <2>1, <2>2, <2>3, <2>4 DEF Split
<1> QED BY <1>1, <1>2

LEMMA PartitionStepKeeps ==
  \A base, s, js, j : (js \in Seq(Int) /\ j \in Int /\ IsParted(base, s, js))
                         => IsParted(base, PartitionStep(s, j), Append(js, j))
<1> SUFFICES ASSUME NEW base, NEW s, NEW js \in Seq(Int), NEW j \in Int, IsParted(base, s, js)
             PROVE  IsParted(base, PartitionStep(s, j), Append(js, j))
  BY Zenon
<1> DEFINE next == PartitionStep(s, j)  longer == Append(js, j)
<1> HIDE DEF next, longer
<1> SUFFICES ASSUME base = [a |-> base.a, pivot |-> base.pivot, highPtr |-> base.highPtr],
                    IsArray(base.a, Len(base.a)), base.highPtr \in Int, base.pivot \in Nat \ {0},
                    Consecutive(base.pivot, longer), base.pivot + Len(longer) <= Len(base.a)
             PROVE  Split(base.a, next, base.pivot, base.pivot + Len(longer), base.highPtr)
  BY Zenon DEF IsParted, next, longer
<1> USE DEF next, longer
<1> DEFINE a == base.a  l == base.pivot  n == Len(a)  m == Len(js)
<1>1. m \in Nat /\ Len(Append(js, j)) = m + 1 /\ DOMAIN Append(js, j) = 1 .. m + 1
      /\ DOMAIN js = 1 .. m /\ Append(js, j)[m + 1] = j
      /\ \A k \in 1 .. m : Append(js, j)[k] = js[k]
  OBVIOUS
<1>2. Consecutive(l, js) /\ j = l + m
  <2>1. \A k \in 1 .. m + 1 : Append(js, j)[k] = l + k - 1
    BY <1>1 DEF Consecutive
  <2>2. Consecutive(l, js)
    BY <1>1, <2>1 DEF Consecutive
  <2>3. j = l + (m + 1) - 1
    BY <1>1, <2>1
  <2> QED BY <1>1, <2>2, <2>3
<1>3. n \in Nat
  BY DEF IsArray
<1>4. Split(a, s, l, l + m, base.highPtr)
  BY <1>1, <1>2, <1>3 DEF IsParted
<1>5. l + m \in 1 .. n /\ l + m < n /\ l + Len(Append(js, j)) = (l + m) + 1
  BY <1>1, <1>3
<1> HIDE DEF m, n
<1>6. Split(a, PartitionStep(s, j), l, (l + m) + 1, base.highPtr)
  BY <1>2, <1>4, <1>5, PartitionStepSplits DEF n
<1> QED BY <1>5, <1>6

\* Partition moves only the range, and what it returns is the place of one
\* pointer: those before it are not greater, those behind it not less.
LEMMA PartitionSplits ==
  ASSUME NEW n, NEW a, IsArray(a, n), NEW l \in 1 .. n, NEW h \in l .. n
  PROVE  LET s == Partition(a, l, h) IN
         /\ IsArray(s.a, n) /\ Rearranged(s.a, a, l, h)
         /\ s.pivot \in l .. h
         /\ \A i \in l .. s.pivot : s.a[i] <= s.a[s.pivot]
         /\ \A i \in s.pivot .. h : s.a[s.pivot] <= s.a[i]
<1>0. n \in Nat /\ a \in [1 .. n -> Int] /\ Len(a) = n /\ l \in Nat \ {0} /\ h \in 1 .. n /\ l <= h /\ a[h] \in Int
  BY DEF IsArray
<1> DEFINE base == [a |-> a, pivot |-> l, highPtr |-> a[h]]
           js == [k \in 1 .. h - l |-> l + k - 1]
           split == FoldLeft(PartitionStep, base, js)
<1>1. js \in Seq(Int) /\ Len(js) = h - l /\ Consecutive(l, js)
  BY <1>0 DEF Consecutive
<1>2. IsParted(base, base, << >>)
  <2>1. Split(a, base, l, l + Len(<< >>), a[h])
    <3>1. Rearranged(a, a, l, l - 1)
      BY <1>0, RearrangedItself
    <3> QED BY <1>0, <3>1 DEF Split
  <2> QED BY <2>1 DEF IsParted
<1>3. IsParted(base, Parts!Folded(base, js), js)
  <2> HIDE DEF js, base
  <2>1. \A seq \in Seq(Int) : IsParted(base, Parts!Folded(base, seq), seq)
    BY <1>2, PartitionStepKeeps, Parts!FoldLeftInduction
  <2> QED BY <1>1, <2>1
<1>4. Parts!Folded(base, js) = split
  BY DEF Parts!Folded, Parts!FoldLeft, FoldLeft, Parts!MapThenFoldSet, MapThenFoldSet,
         Parts!Max, Max
<1> HIDE DEF js, split
<1>5. Split(a, split, l, h, a[h])
  <2>1. Consecutive(base.pivot, js) /\ base.pivot + Len(js) = h /\ base.pivot = l /\ base.a = a
        /\ base.highPtr = a[h]
    BY <1>0, <1>1
  <2> HIDE DEF base
  <2> QED BY <1>0, <1>3, <1>4, <2>1 DEF IsParted, base
<1> DEFINE sa == split.a  q == split.pivot  b == Swapped(sa, q, h)
<1>6. /\ q \in l .. h /\ IsArray(sa, n) /\ Rearranged(sa, a, l, h - 1)
      /\ \A i \in l .. q - 1 : sa[i] <= a[h]
      /\ \A i \in q .. h - 1 : sa[i] > a[h]
      /\ split = [a |-> sa, pivot |-> q, highPtr |-> a[h]]
  BY <1>0, <1>5 DEF Split
<1>7. sa[h] = a[h]
  <2> HIDE DEF sa, q
  <2>1. l \in Int /\ h - 1 \in Int /\ h \notin l .. h - 1
    BY <1>0
  <2>2. \A i \in 1 .. n : i \notin l .. h - 1 => sa[i] = a[i]
    BY <1>6, <2>1, RearrangedKeeps DEF MovesWithin
  <2> QED BY <1>0, <2>1, <2>2
<1>8. q \in 1 .. n /\ q \in l .. h /\ h \in l .. h
  BY <1>0, <1>6
<1>9. IsArray(b, n) /\ b[q] = sa[h] /\ b[h] = sa[q]
      /\ (\A k \in 1 .. n : k # q /\ k # h => b[k] = sa[k])
      /\ Rearranged(b, sa, l, h)
  <2> HIDE DEF sa, q, b
  <2>1. h \in 1 .. n /\ l \in Int /\ h \in Int
    BY <1>0
  <2>2. /\ IsArray(Swapped(sa, q, h), n)
        /\ Swapped(sa, q, h)[q] = sa[h] /\ Swapped(sa, q, h)[h] = sa[q]
        /\ \A k \in 1 .. n : k # q /\ k # h => Swapped(sa, q, h)[k] = sa[k]
        /\ \A d, e \in Int : q \in d .. e /\ h \in d .. e => Rearranged(Swapped(sa, q, h), sa, d, e)
    BY <1>6, <1>8, <2>1, SwapRearranges
  <2>3. Rearranged(Swapped(sa, q, h), sa, l, h)
    BY <1>8, <2>1, <2>2
  <2> QED BY <2>2, <2>3 DEF b
<1>10. Rearranged(b, a, l, h)
  <2> HIDE DEF sa, q, b
  <2>1. Rearranged(sa, a, l, h)
    BY <1>0, <1>6, RearrangedWider
  <2> QED BY <1>0, <1>6, <1>9, <2>1, RearrangedAgain
<1>11. \A i \in l .. q : b[i] <= b[q]
  <2> HIDE DEF sa, q, b
  <2> QED BY <1>0, <1>6, <1>7, <1>8, <1>9
<1>12. \A i \in q .. h : b[q] <= b[i]
  <2> HIDE DEF sa, q, b
  <2> SUFFICES ASSUME NEW i \in q .. h PROVE b[q] <= b[i]
    OBVIOUS
  <2>0. b \in [1 .. n -> Int] /\ sa \in [1 .. n -> Int]
    BY <1>6, <1>9 DEF IsArray
  <2>1. CASE i = q
    BY <1>0, <1>8, <2>0, <2>1
  <2>a. l \in Int /\ h \in Int /\ q \in Int /\ i \in Int /\ i \in 1 .. n
    BY <1>0, <1>8
  <2>b. b[q] = a[h] /\ a[h] \in Int
    BY <1>7, <1>8, <1>9, <2>0
  <2>2. CASE i = h /\ i # q
    <3>1. q \in q .. h - 1 /\ b[i] = sa[q]
      BY <1>8, <1>9, <2>2, <2>a
    <3>2. sa[q] > a[h] /\ sa[q] \in Int
      BY <1>6, <1>8, <2>0, <3>1
    <3> QED BY <2>b, <3>1, <3>2
  <2>3. CASE i # h /\ i # q
    <3>1. i \in q .. h - 1 /\ b[i] = sa[i]
      BY <1>8, <1>9, <2>3, <2>a
    <3>2. sa[i] > a[h] /\ sa[i] \in Int
      BY <1>6, <2>0, <2>a, <3>1
    <3> QED BY <2>b, <3>1, <3>2
  <2> QED BY <2>1, <2>2, <2>3
<1>13. Partition(a, l, h) = [a |-> b, pivot |-> q, highPtr |-> a[h]]
  <2>1. Partition(a, l, h) = [split EXCEPT !.a = Swapped(@, split.pivot, h)]
    BY DEF Partition, split, js
  <2> QED BY <1>6, <2>1
<1> HIDE DEF b, q
<1> QED BY <1>8, <1>9, <1>10, <1>11, <1>12, <1>13

\* The ranges that wait, one behind the other, each of two or more pointers
\* when there are as many; the pointers of a range are what is left to order.
IsStack(stack, n) ==
    /\ stack \in Seq((1 .. n) \X (1 .. n))
    /\ \A i \in DOMAIN stack : /\ 2 * i - 1 <= stack[i][1] /\ stack[i][1] <= stack[i][2]
                               /\ stack[i][1] < stack[i][2] \/ n = 1
    /\ \A i, j \in DOMAIN stack : i < j => stack[i][2] < stack[j][1]
Waiting(stack, n) ==
    {x \in 1 .. n : \E i \in DOMAIN stack : stack[i][1] <= x /\ x <= stack[i][2]}
Together(stack, i, j) == \E k \in DOMAIN stack : stack[k][1] <= i /\ j <= stack[k][2]
InOrderBut(a, stack, n) ==
    \A i, j \in 1 .. n : i < j /\ ~ Together(stack, i, j) => a[i] <= a[j]
Sorting(a, s, turns) ==
    LET n == Len(a) IN
    /\ IsArray(s.a, n) /\ Rearranged(s.a, a, 1, n)
    /\ IsStack(s.stack, n) /\ InOrderBut(s.a, s.stack, n)
    /\ Cardinality(Waiting(s.stack, n)) + turns <= n
    /\ s.slots \in Nat /\ (s.slots <= n \/ (n = 1 /\ s.slots = 2))
IsSorting(base, s, turns) ==
    (/\ base = [a |-> base.a, stack |-> <<<<1, Len(base.a)>>>>, slots |-> 2]
     /\ IsArray(base.a, Len(base.a)) /\ base.a # << >> /\ Len(turns) <= Len(base.a))
        => Sorting(base.a, s, Len(turns))

Sorts == INSTANCE Folding WITH op <- SortTurn, Inv <- IsSorting

\* The stack after a turn: the last range is gone, and what is left of it of
\* two pointers or more is there instead.
LeftOf(l, q) == IF q - 1 > l THEN <<<<l, q - 1>>>> ELSE << >>
RightOf(q, h) == IF q + 1 < h THEN <<<<q + 1, h>>>> ELSE << >>

LEMMA TwoParts ==
  ASSUME NEW S, NEW f \in Seq(S), NEW g \in Seq(S)
  PROVE  /\ f \o g \in Seq(S)
         /\ Len(f \o g) = Len(f) + Len(g)
         /\ \A i \in 1 .. Len(f) : (f \o g)[i] = f[i]
         /\ \A i \in 1 .. Len(g) : (f \o g)[Len(f) + i] = g[i]
<1> QED OBVIOUS

LEMMA ThreeParts ==
  ASSUME NEW S, NEW f \in Seq(S), NEW g \in Seq(S), NEW r \in Seq(S)
  PROVE  /\ f \o g \o r \in Seq(S)
         /\ Len(f \o g \o r) = Len(f) + Len(g) + Len(r)
         /\ \A i \in 1 .. Len(f) : (f \o g \o r)[i] = f[i]
         /\ \A i \in 1 .. Len(g) : (f \o g \o r)[Len(f) + i] = g[i]
         /\ \A i \in 1 .. Len(r) : (f \o g \o r)[Len(f) + Len(g) + i] = r[i]
<1> DEFINE b == f \o g  t == b \o r
<1>1. b \in Seq(S) /\ Len(b) = Len(f) + Len(g)
      /\ (\A i \in 1 .. Len(f) : b[i] = f[i])
      /\ (\A i \in 1 .. Len(g) : b[Len(f) + i] = g[i])
  OBVIOUS
<1> HIDE DEF b
<1>b. b \in Seq(S)
  BY <1>1
<1>2. t \in Seq(S) /\ Len(t) = Len(b) + Len(r)
      /\ (\A i \in 1 .. Len(b) : t[i] = b[i])
      /\ (\A i \in 1 .. Len(r) : t[Len(b) + i] = r[i])
  BY <1>b
<1> HIDE DEF t
<1>3. Len(f) \in Nat /\ Len(g) \in Nat
  OBVIOUS
<1>4. \A i \in 1 .. Len(f) : t[i] = f[i]
  BY <1>1, <1>2, <1>3
<1>5. \A i \in 1 .. Len(g) : t[Len(f) + i] = g[i]
  BY <1>1, <1>2, <1>3
<1> QED BY <1>1, <1>2, <1>4, <1>5 DEF t, b

NextStack(n, stack, after, m, l, h, q) ==
    /\ m \in Nat \ {0} /\ l \in 1 .. n /\ h \in 1 .. n /\ q \in 1 .. n
    /\ stack[m] = <<l, h>> /\ 2 * m - 1 <= l /\ l <= h /\ (l < h \/ n = 1)
    /\ \A i \in 1 .. m - 1 : stack[i][2] < l
    /\ after \in Seq((1 .. n) \X (1 .. n))
    /\ Len(after) \in m - 1 .. m + 1
    /\ \A i \in 1 .. m - 1 : after[i] = stack[i]
    /\ q - 1 > l => Len(after) >= m /\ after[m] = <<l, q - 1>>
    /\ q + 1 < h => Len(after) >= m /\ after[Len(after)] = <<q + 1, h>>
    /\ Len(after) = m + 1 => q - 1 > l /\ q + 1 < h
    /\ Len(after) = m => q - 1 > l \/ q + 1 < h

LEMMA StackAfter ==
  ASSUME NEW n \in Nat, NEW stack, IsStack(stack, n), stack # << >>,
         NEW l, NEW h, Last(stack) = <<l, h>>, NEW q \in l .. h
  PROVE  NextStack(n, stack, Front(stack) \o LeftOf(l, q) \o RightOf(q, h), Len(stack), l, h, q)
<1> DEFINE S == (1 .. n) \X (1 .. n)
           m == Len(stack)  front == Front(stack)  left == LeftOf(l, q)  right == RightOf(q, h)
<1>1. stack \in Seq(S) /\ m \in Nat \ {0} /\ DOMAIN stack = 1 .. m
  BY DEF IsStack
<1>2. stack[m] = <<l, h>> /\ stack[m] \in (1 .. n) \X (1 .. n)
  BY <1>1 DEF Last
<1>3. l \in 1 .. n /\ h \in 1 .. n /\ stack[m][1] = l /\ stack[m][2] = h
  BY <1>2
<1>4. 2 * m - 1 <= l /\ l <= h /\ (l < h \/ n = 1) /\ \A i \in 1 .. m - 1 : stack[i][2] < l
  <2>1. m \in DOMAIN stack /\ \A i \in 1 .. m - 1 : i \in DOMAIN stack /\ i < m
    BY <1>1
  <2> QED BY <1>3, <2>1 DEF IsStack
<1>5. q \in 1 .. n
  BY <1>3
<1>6. front \in Seq(S) /\ Len(front) = m - 1
      /\ \A i \in 1 .. m - 1 : front[i] = stack[i]
  BY <1>1 DEF Front
<1>7. /\ left \in Seq(S)
      /\ q - 1 > l => Len(left) = 1 /\ left[1] = <<l, q - 1>>
      /\ ~ (q - 1 > l) => Len(left) = 0
  <2>1. CASE q - 1 > l
    <3>1. left = <<<<l, q - 1>>>>
      BY <2>1 DEF LeftOf
    <3>2. <<l, q - 1>> \in (1 .. n) \X (1 .. n)
      BY <1>3, <1>5, <2>1
    <3> QED BY <2>1, <3>1, <3>2
  <2>2. CASE ~ (q - 1 > l)
    BY <2>2 DEF LeftOf
  <2> QED BY <2>1, <2>2
<1>8. /\ right \in Seq(S)
      /\ q + 1 < h => Len(right) = 1 /\ right[1] = <<q + 1, h>>
      /\ ~ (q + 1 < h) => Len(right) = 0
  <2>1. CASE q + 1 < h
    <3>1. right = <<<<q + 1, h>>>>
      BY <2>1 DEF RightOf
    <3>2. <<q + 1, h>> \in (1 .. n) \X (1 .. n)
      BY <1>3, <1>5, <2>1
    <3> QED BY <2>1, <3>1, <3>2
  <2>2. CASE ~ (q + 1 < h)
    BY <2>2 DEF RightOf
  <2> QED BY <2>1, <2>2
<1> DEFINE after == front \o left \o right
<1> HIDE DEF S, m, front, left, right
<1>9. /\ after \in Seq(S) /\ Len(after) = Len(front) + Len(left) + Len(right)
      /\ \A i \in 1 .. Len(front) : after[i] = front[i]
      /\ \A i \in 1 .. Len(left) : after[Len(front) + i] = left[i]
      /\ \A i \in 1 .. Len(right) : after[Len(front) + Len(left) + i] = right[i]
  <2>1. front \in Seq(S) /\ left \in Seq(S) /\ right \in Seq(S)
    BY <1>6, <1>7, <1>8
  <2> QED BY <2>1, ThreeParts
<1> HIDE DEF after
<1>10. \A i \in 1 .. m - 1 : after[i] = stack[i]
  BY <1>1, <1>6, <1>9
<1>11. q - 1 > l => Len(after) >= m /\ after[m] = <<l, q - 1>>
  <2> SUFFICES ASSUME q - 1 > l PROVE Len(after) >= m /\ after[m] = <<l, q - 1>>
    OBVIOUS
  <2>1. Len(left) = 1 /\ left[1] = <<l, q - 1>>
    BY <1>7, Zenon
  <2>2. after[Len(front) + 1] = left[1]
    BY <1>9, <2>1
  <2>3. Len(right) \in Nat
    BY <1>8
  <2> QED BY <1>1, <1>6, <1>9, <2>1, <2>2, <2>3
<1>12. q + 1 < h => Len(after) >= m /\ after[Len(after)] = <<q + 1, h>>
  <2> SUFFICES ASSUME q + 1 < h PROVE Len(after) >= m /\ after[Len(after)] = <<q + 1, h>>
    OBVIOUS
  <2>1. Len(right) = 1 /\ right[1] = <<q + 1, h>>
    BY <1>8, Zenon
  <2>2. after[Len(front) + Len(left) + 1] = right[1]
    BY <1>9, <2>1
  <2>3. Len(left) \in Nat
    BY <1>7
  <2> QED BY <1>1, <1>6, <1>9, <2>1, <2>2, <2>3
<1>13. /\ Len(after) \in m - 1 .. m + 1
       /\ Len(after) = m + 1 => q - 1 > l /\ q + 1 < h
       /\ Len(after) = m => q - 1 > l \/ q + 1 < h
  <2> DEFINE a == Len(left)  b == Len(right)  some == q - 1 > l  rest == q + 1 < h
  <2>a. (some => a = 1) /\ (~ some => a = 0) /\ (rest => b = 1) /\ (~ rest => b = 0)
    BY <1>7, <1>8, Zenon
  <2> HIDE DEF some, rest, a, b
  <2>1. a \in 0 .. 1 /\ (a = 1 => some)
    BY <2>a
  <2>2. b \in 0 .. 1 /\ (b = 1 => rest)
    BY <2>a
  <2>3. Len(after) = Len(front) + a + b
    BY <1>9 DEF a, b
  <2>4. /\ Len(after) \in m - 1 .. m + 1
        /\ Len(after) = m + 1 => some /\ rest
        /\ Len(after) = m => some \/ rest
    BY <1>1, <1>6, <2>1, <2>2, <2>3
  <2> QED BY <2>4 DEF some, rest
<1>14. Front(stack) \o LeftOf(l, q) \o RightOf(q, h) = after
  BY DEF after, front, left, right
<1> QED BY <1>1, <1>2, <1>3, <1>4, <1>5, <1>9, <1>10, <1>11, <1>12, <1>13, <1>14 DEF S, m, NextStack

\* Facts about one turn, shared by the lemmas below: the last range is
\* partitioned at q, a becomes b and the stack "after".
Turn(n, a, b, stack, after, m, l, h, q) ==
    /\ n \in Nat /\ m = Len(stack) /\ IsStack(stack, n) /\ l <= q /\ q <= h
    /\ NextStack(n, stack, after, m, l, h, q)
    /\ IsArray(a, n) /\ IsArray(b, n) /\ Rearranged(b, a, l, h)
    /\ (\A i \in l .. q : b[i] <= b[q]) /\ (\A i \in q .. h : b[q] <= b[i])

\* What the stack's ranges are: those that waited, the left and the right part.
LEMMA RangesAfter ==
  ASSUME NEW n, NEW a, NEW b, NEW stack, NEW after, NEW m, NEW l, NEW h, NEW q,
         Turn(n, a, b, stack, after, m, l, h, q), NEW k \in DOMAIN after
  PROVE  /\ k \in 1 .. m + 1
         /\ k < m => after[k] = stack[k] /\ k \in DOMAIN stack
         /\ k >= m => \/ q - 1 > l /\ k = m /\ after[k] = <<l, q - 1>>
                      \/ q + 1 < h /\ after[k] = <<q + 1, h>> /\ (k = m + 1 => q - 1 > l)
<1>a. after \in Seq((1 .. n) \X (1 .. n)) /\ IsStack(stack, n)
  BY Zenon DEF Turn, NextStack
<1>b. k \in 1 .. Len(after)
  BY <1>a
<1>1. n \in Nat /\ m \in Nat \ {0} /\ k \in 1 .. Len(after) /\ Len(after) \in m - 1 .. m + 1
      /\ m = Len(stack)
  BY <1>b, Zenon DEF Turn, NextStack
<1>2. k \in 1 .. m + 1
  BY <1>1
<1>3. ASSUME k < m PROVE after[k] = stack[k] /\ k \in DOMAIN stack
  <2>1. k \in 1 .. m - 1
    BY <1>1, <1>3
  <2>2. after[k] = stack[k]
    BY <2>1, Zenon DEF Turn, NextStack
  <2>3. k \in DOMAIN stack
    BY <1>1, <1>a, <2>1 DEF IsStack
  <2> QED BY <2>2, <2>3
<1>4. ASSUME k >= m
      PROVE  \/ q - 1 > l /\ k = m /\ after[k] = <<l, q - 1>>
             \/ q + 1 < h /\ after[k] = <<q + 1, h>> /\ (k = m + 1 => q - 1 > l)
  <2>1. CASE k = m + 1
    <3>1. Len(after) = m + 1 /\ k = Len(after)
      BY <1>1, <2>1
    <3> QED BY <3>1 DEF Turn, NextStack
  <2>2. CASE k = m /\ Len(after) = m
    <3>1. q - 1 > l \/ q + 1 < h
      BY <2>2 DEF Turn, NextStack
    <3>2. k # m + 1
      BY <1>1, <2>2
    <3> QED BY <2>2, <3>1, <3>2 DEF Turn, NextStack
  <2>3. CASE k = m /\ Len(after) = m + 1
    BY <2>3 DEF Turn, NextStack
  <2> QED BY <1>1, <1>4, <2>1, <2>2, <2>3
<1> QED BY <1>2, <1>3, <1>4

LEMMA TurnKeepsStack ==
  ASSUME NEW n, NEW a, NEW b, NEW stack, NEW after, NEW m, NEW l, NEW h, NEW q,
         Turn(n, a, b, stack, after, m, l, h, q)
  PROVE  IsStack(after, n)
<1>1. /\ n \in Nat /\ m \in Nat \ {0} /\ l \in 1 .. n /\ h \in 1 .. n /\ q \in 1 .. n
      /\ l <= q /\ q <= h /\ 2 * m - 1 <= l /\ (l < h \/ n = 1)
  BY DEF Turn, NextStack
<1>2. ASSUME NEW i \in DOMAIN after
      PROVE  /\ i \in Nat /\ after[i][1] \in Int /\ after[i][2] \in Int
             /\ i < m => after[i][2] < l
             /\ i >= m => l <= after[i][1]
             /\ 2 * i - 1 <= after[i][1] /\ after[i][1] <= after[i][2]
             /\ after[i][1] < after[i][2] \/ n = 1
  <2>1. i \in 1 .. m + 1
    BY RangesAfter
  <2>2. CASE i < m
    <3>1. after[i] = stack[i] /\ i \in DOMAIN stack /\ i \in 1 .. m - 1
      BY <1>1, <2>1, <2>2, RangesAfter
    <3>a. IsStack(stack, n) /\ stack[i][2] < l
      BY <3>1, Zenon DEF Turn, NextStack
    <3>2. stack[i] \in (1 .. n) \X (1 .. n) /\ IsStack(stack, n) /\ stack[i][2] < l
      BY <3>1, <3>a DEF IsStack
    <3>3. stack[i][1] \in Int /\ stack[i][2] \in Int
      BY <3>2
    <3>4. /\ 2 * i - 1 <= stack[i][1] /\ stack[i][1] <= stack[i][2]
          /\ stack[i][1] < stack[i][2] \/ n = 1
      BY <3>1, <3>2 DEF IsStack
    <3> QED BY <1>1, <2>1, <2>2, <3>1, <3>2, <3>3, <3>4
  <2>3. CASE i >= m
    <3>1. \/ q - 1 > l /\ i = m /\ after[i] = <<l, q - 1>>
          \/ q + 1 < h /\ after[i] = <<q + 1, h>> /\ (i = m + 1 => q - 1 > l)
      BY <2>3, RangesAfter
    <3>2. i = m \/ i = m + 1
      BY <1>1, <2>1, <2>3
    <3>3. CASE q - 1 > l /\ i = m /\ after[i] = <<l, q - 1>>
      <4>1. after[i][1] = l /\ after[i][2] = q - 1
        BY <3>3
      <4> QED BY <1>1, <2>1, <3>3, <4>1
    <3>4. CASE q + 1 < h /\ after[i] = <<q + 1, h>> /\ (i = m + 1 => q - 1 > l)
      <4>1. after[i][1] = q + 1 /\ after[i][2] = h
        BY <3>4
      <4> QED BY <1>1, <2>1, <3>2, <3>4, <4>1
    <3> QED BY <3>1, <3>3, <3>4
  <2> QED BY <1>1, <2>1, <2>2, <2>3
<1>3. ASSUME NEW i \in DOMAIN after, NEW j \in DOMAIN after, i < j
      PROVE  after[i][2] < after[j][1]
  <2>1. i \in 1 .. m + 1 /\ j \in 1 .. m + 1
    BY RangesAfter
  <2>2. CASE j < m
    <3>1. after[i] = stack[i] /\ i \in DOMAIN stack /\ after[j] = stack[j] /\ j \in DOMAIN stack
      BY <1>1, <1>3, <2>1, <2>2, RangesAfter
    <3> QED BY <1>3, <3>1 DEF Turn, NextStack, IsStack
  <2>3. CASE j >= m /\ i < m
    BY <1>1, <1>2, <2>1, <2>3
  <2>4. CASE j >= m /\ i >= m
    <3>1. i = m /\ j = m + 1 /\ i >= m /\ j >= m
      BY <1>1, <1>3, <2>1, <2>4
    <3>2. after[j] = <<q + 1, h>> /\ q - 1 > l
      <4>1. j # m
        BY <1>1, <3>1
      <4> QED BY <3>1, <4>1, RangesAfter
    <3>3. after[i] = <<l, q - 1>>
      BY <3>1, <3>2 DEF Turn, NextStack
    <3>4. after[i][2] = q - 1 /\ after[j][1] = q + 1
      BY <3>2, <3>3
    <3> QED BY <1>1, <3>4
  <2> QED BY <1>1, <2>1, <2>2, <2>3, <2>4
<1>4. after \in Seq((1 .. n) \X (1 .. n))
  BY DEF Turn, NextStack
<1> QED BY <1>2, <1>3, <1>4 DEF IsStack

\* A turn takes its pointer from those that wait, and adds none.
LEMMA TurnLeavesFewer ==
  ASSUME NEW n, NEW a, NEW b, NEW stack, NEW after, NEW m, NEW l, NEW h, NEW q,
         Turn(n, a, b, stack, after, m, l, h, q)
  PROVE  /\ q \in Waiting(stack, n)
         /\ Waiting(after, n) \subseteq Waiting(stack, n) \ {q}
<1>1. /\ n \in Nat /\ m \in Nat \ {0} /\ l \in 1 .. n /\ h \in 1 .. n /\ q \in 1 .. n
      /\ l <= q /\ q <= h /\ m \in DOMAIN stack /\ stack[m] = <<l, h>>
  <2>1. m \in Nat \ {0} /\ m = Len(stack) /\ IsStack(stack, n)
    BY Zenon DEF Turn, NextStack
  <2>2. m \in DOMAIN stack
    BY <2>1 DEF IsStack
  <2> QED BY <2>2, Zenon DEF Turn, NextStack
<1>2. stack[m][1] = l /\ stack[m][2] = h
  BY <1>1
<1>3. q \in Waiting(stack, n)
  BY <1>1, <1>2 DEF Waiting
<1>4. ASSUME NEW x \in Waiting(after, n) PROVE x \in Waiting(stack, n) /\ x # q
  <2>1. PICK k \in DOMAIN after : after[k][1] <= x /\ x <= after[k][2]
    BY DEF Waiting
  <2>2. x \in 1 .. n /\ k \in 1 .. m + 1
    BY RangesAfter DEF Waiting
  <2>3. CASE k < m
    <3>1. after[k] = stack[k] /\ k \in DOMAIN stack /\ k \in 1 .. m - 1
      BY <1>1, <2>2, <2>3, RangesAfter
    <3>a. stack[k][2] < l /\ IsStack(stack, n)
      BY <3>1, Zenon DEF Turn, NextStack
    <3>2. stack[k][2] < l /\ stack[k][2] \in Int
      BY <3>1, <3>a DEF IsStack
    <3>3. x # q
      BY <1>1, <2>1, <2>2, <3>1, <3>2
    <3> QED BY <2>1, <2>2, <3>1, <3>3 DEF Waiting
  <2>4. CASE k >= m
    <3>1. \/ q - 1 > l /\ after[k] = <<l, q - 1>>
          \/ q + 1 < h /\ after[k] = <<q + 1, h>>
      BY <2>4, RangesAfter
    <3>2. l <= x /\ x <= h /\ x # q
      <4>1. CASE after[k] = <<l, q - 1>>
        <5>1. after[k][1] = l /\ after[k][2] = q - 1
          BY <4>1
        <5> QED BY <1>1, <2>1, <2>2, <5>1
      <4>2. CASE after[k] = <<q + 1, h>>
        <5>1. after[k][1] = q + 1 /\ after[k][2] = h
          BY <4>2
        <5> QED BY <1>1, <2>1, <2>2, <5>1
      <4> QED BY <3>1, <4>1, <4>2
    <3> QED BY <1>1, <1>2, <2>2, <3>2 DEF Waiting
  <2> QED BY <1>1, <2>2, <2>3, <2>4
<1> QED BY <1>3, <1>4

\* Two pointers that no range holds together are in order after a turn.
LEMMA TurnKeepsOrder ==
  ASSUME NEW n, NEW a, NEW b, NEW stack, NEW after, NEW m, NEW l, NEW h, NEW q,
         Turn(n, a, b, stack, after, m, l, h, q), InOrderBut(a, stack, n)
  PROVE  InOrderBut(b, after, n)
<1>1. /\ n \in Nat /\ m \in Nat \ {0} /\ l \in 1 .. n /\ h \in 1 .. n /\ q \in 1 .. n
      /\ l <= q /\ q <= h /\ stack[m] = <<l, h>> /\ IsStack(stack, n) /\ m = Len(stack)
      /\ IsArray(a, n) /\ IsArray(b, n) /\ Rearranged(b, a, l, h)
  BY Zenon DEF Turn, NextStack
<1>2. a \in [1 .. n -> Int] /\ b \in [1 .. n -> Int]
  BY <1>1 DEF IsArray
<1>3. /\ \A i \in 1 .. n : i \notin l .. h => b[i] = a[i]
      /\ \A i \in 1 .. n : i \in l .. h => \E j \in 1 .. n : j \in l .. h /\ b[i] = a[j]
  <2>1. l \in Int /\ h \in Int
    BY <1>1
  <2>2. MovesWithin(b, a, n, l, h)
    BY <1>1, <2>1, RearrangedKeeps
  <2> QED BY <2>2 DEF MovesWithin
<1>4. ASSUME NEW k \in DOMAIN stack
      PROVE  /\ stack[k][1] \in Int /\ stack[k][2] \in Int
             /\ k < m => stack[k][2] < l /\ k \in DOMAIN after /\ after[k] = stack[k]
             /\ k = m => stack[k][1] = l /\ stack[k][2] = h
             /\ k \in Int /\ k <= m
  <2>1. k \in 1 .. m /\ stack[k] \in (1 .. n) \X (1 .. n)
    BY <1>1 DEF IsStack
  <2>2. ASSUME k < m PROVE stack[k][2] < l /\ k \in DOMAIN after /\ after[k] = stack[k]
    <3>1. k \in 1 .. m - 1
      BY <1>1, <2>1, <2>2
    <3>2. stack[k][2] < l /\ after[k] = stack[k] /\ Len(after) \in m - 1 .. m + 1
          /\ after \in Seq((1 .. n) \X (1 .. n))
      BY <3>1, Zenon DEF Turn, NextStack
    <3>3. DOMAIN after = 1 .. Len(after)
      BY <3>2
    <3>4. k \in 1 .. Len(after)
      BY <1>1, <3>1, <3>2
    <3> QED BY <3>2, <3>3, <3>4
  <2>3. ASSUME k = m PROVE stack[k][1] = l /\ stack[k][2] = h
    BY <1>1, <2>3
  <2> QED BY <1>1, <2>1, <2>2, <2>3
<1>5. ASSUME NEW i \in 1 .. n, NEW j \in 1 .. n, i < j, ~ Together(after, i, j)
      PROVE  b[i] <= b[j]
  <2>1. CASE i \in l .. h /\ j \in l .. h
    <3>1. CASE i <= q /\ q <= j
      <4>1. b[i] <= b[q] /\ b[q] <= b[j]
        <5>1. i \in l .. q /\ j \in q .. h
          BY <1>1, <2>1, <3>1
        <5> QED BY <5>1, Zenon DEF Turn, NextStack
      <4> QED BY <1>1, <1>2, <4>1, SMTT(30)
    <3>2. CASE j < q
      <4>1. q - 1 > l
        BY <1>1, <1>5, <2>1, <3>2
      <4>2. Len(after) >= m /\ after[m] = <<l, q - 1>> /\ Len(after) \in m - 1 .. m + 1
            /\ after \in Seq((1 .. n) \X (1 .. n))
        BY <4>1, Zenon DEF Turn, NextStack
      <4>3. m \in DOMAIN after /\ after[m][1] = l /\ after[m][2] = q - 1
        BY <1>1, <4>2
      <4>4. l <= i /\ j <= q - 1
        BY <1>1, <2>1, <3>2
      <4> QED BY <1>5, <4>3, <4>4 DEF Together
    <3>3. CASE q < i
      <4>1. q + 1 < h
        BY <1>1, <1>5, <2>1, <3>3
      <4>2. Len(after) >= m /\ after[Len(after)] = <<q + 1, h>> /\ Len(after) \in m - 1 .. m + 1
            /\ after \in Seq((1 .. n) \X (1 .. n))
        BY <4>1, Zenon DEF Turn, NextStack
      <4>3. Len(after) \in DOMAIN after /\ after[Len(after)][1] = q + 1 /\ after[Len(after)][2] = h
        BY <1>1, <4>2
      <4>4. q + 1 <= i /\ j <= h
        BY <1>1, <2>1, <3>3
      <4> QED BY <1>5, <4>3, <4>4 DEF Together
    <3> QED BY <1>1, <1>5, <3>1, <3>2, <3>3
  <2>2. CASE i \notin l .. h /\ j \notin l .. h
    <3>1. ~ Together(stack, i, j)
      <4> SUFFICES ASSUME NEW k \in DOMAIN stack, stack[k][1] <= i, j <= stack[k][2] PROVE FALSE
        BY DEF Together
      <4>1. CASE k = m
        BY <1>1, <1>4, <1>5, <2>2, <4>1
      <4>2. CASE k < m
        BY <1>4, <1>5, <4>2 DEF Together
      <4> QED BY <1>1, <1>4, <4>1, <4>2
    <3>2. a[i] <= a[j]
      BY <1>5, <3>1 DEF InOrderBut
    <3> QED BY <1>3, <2>2, <3>2
  <2>3. CASE i \in l .. h /\ j \notin l .. h
    <3>1. PICK u \in 1 .. n : u \in l .. h /\ b[i] = a[u]
      BY <1>3, <2>3
    <3>2. h < j /\ u < j
      BY <1>1, <1>5, <2>3, <3>1
    <3>3. ~ Together(stack, u, j)
      <4> SUFFICES ASSUME NEW k \in DOMAIN stack, stack[k][1] <= u, j <= stack[k][2] PROVE FALSE
        BY DEF Together
      <4> QED BY <1>1, <1>4, <3>2
    <3>4. a[u] <= a[j]
      BY <3>2, <3>3 DEF InOrderBut
    <3> QED BY <1>3, <2>3, <3>1, <3>4
  <2>4. CASE i \notin l .. h /\ j \in l .. h
    <3>1. PICK u \in 1 .. n : u \in l .. h /\ b[j] = a[u]
      BY <1>3, <2>4
    <3>2. i < l /\ i < u
      BY <1>1, <1>5, <2>4, <3>1
    <3>3. ~ Together(stack, i, u)
      <4> SUFFICES ASSUME NEW k \in DOMAIN stack, stack[k][1] <= i, u <= stack[k][2] PROVE FALSE
        BY DEF Together
      <4> QED BY <1>1, <1>4, <3>1, <3>2, SMTT(30)
    <3>4. a[i] <= a[u]
      BY <3>2, <3>3 DEF InOrderBut
    <3> QED BY <1>3, <2>4, <3>1, <3>4
  <2> QED BY <2>1, <2>2, <2>3, <2>4
<1> QED BY <1>5 DEF InOrderBut

\* So a turn of the loop keeps what the loop keeps.
LEMMA SortStepKeeps ==
  ASSUME NEW n, NEW a, IsArray(a, n), NEW s, NEW turns \in Nat, Sorting(a, s, turns), s.stack # << >>
  PROVE  Sorting(a, SortStep(s), turns + 1)
<1>1. /\ n \in Nat /\ Len(a) = n /\ IsArray(s.a, n) /\ Rearranged(s.a, a, 1, n)
      /\ IsStack(s.stack, n) /\ InOrderBut(s.a, s.stack, n)
      /\ Cardinality(Waiting(s.stack, n)) + turns <= n
      /\ s.slots \in Nat /\ (s.slots <= n \/ (n = 1 /\ s.slots = 2))
  BY DEF Sorting, IsArray
<1> DEFINE range == Last(s.stack)
           l == range[1]
           h == range[2]
           split == Partition(s.a, l, h)
           b == split.a
           q == split.pivot
           m == Len(s.stack)
           after == Front(s.stack) \o LeftOf(l, q) \o RightOf(q, h)
<1>2. range = <<l, h>> /\ l \in 1 .. n /\ h \in l .. n
  <2>1. m \in DOMAIN s.stack /\ range = s.stack[m] /\ range \in (1 .. n) \X (1 .. n)
    BY <1>1 DEF IsStack, Last
  <2>2. l <= h
    BY <1>1, <2>1 DEF IsStack
  <2> QED BY <2>1, <2>2
<1> HIDE DEF l, h, range
<1>3. /\ IsArray(b, n) /\ Rearranged(b, s.a, l, h) /\ q \in l .. h
      /\ \A i \in l .. q : b[i] <= b[q]
      /\ \A i \in q .. h : b[q] <= b[i]
  BY <1>1, <1>2, PartitionSplits
<1> HIDE DEF q, b
<1>4. Turn(n, s.a, b, s.stack, after, m, l, h, q)
  <2>1. Last(s.stack) = <<l, h>>
    BY <1>2 DEF range
  <2> HIDE DEF l, h, q
  <2>2. NextStack(n, s.stack, Front(s.stack) \o LeftOf(l, q) \o RightOf(q, h), Len(s.stack), l, h, q)
    BY <1>1, <1>3, <2>1, StackAfter
  <2>3. l <= q /\ q <= h
    BY <1>2, <1>3
  <2>4. m = Len(s.stack) /\ NextStack(n, s.stack, after, m, l, h, q)
    BY <2>2
  <2> HIDE DEF after, m
  <2> QED BY <1>1, <1>3, <2>3, <2>4, Zenon DEF Turn
<1> HIDE DEF m, after
<1>5. IsStack(after, n) /\ InOrderBut(b, after, n)
  BY <1>1, <1>4, TurnKeepsStack, TurnKeepsOrder
<1>6. Rearranged(b, a, 1, n)
  <2>1. 1 \in Int /\ n \in Int /\ l \in Int /\ h \in Int /\ 1 <= l /\ h <= n
    BY <1>1, <1>2
  <2> QED BY <1>1, <1>3, <2>1, RearrangedAgain
<1>7. Cardinality(Waiting(after, n)) + (turns + 1) <= n
  <2> DEFINE W == Waiting(s.stack, n)  V == Waiting(after, n)
  <2>1. q \in W /\ V \subseteq W \ {q}
    BY <1>4, TurnLeavesFewer
  <2>a. 1 \in Int /\ n \in Int
    BY <1>1
  <2>2. IsFiniteSet(1 .. n) /\ W \subseteq 1 .. n
    BY <2>a, FS_Interval, Zenon DEF Waiting
  <2> HIDE DEF W, V
  <2>3. IsFiniteSet(W)
    BY <2>2, FS_Subset
  <2>4. IsFiniteSet(W \ {q}) /\ Cardinality(W \ {q}) = Cardinality(W) - 1
    BY <2>1, <2>3, FS_RemoveElement
  <2>5. IsFiniteSet(V) /\ Cardinality(V) <= Cardinality(W \ {q})
    BY <2>1, <2>4, FS_Subset
  <2>6. Cardinality(V) \in Nat /\ Cardinality(W) \in Nat
    BY <2>3, <2>5, FS_CardinalityType
  <2>7. Cardinality(W) + turns <= n
    BY <1>1 DEF W
  <2>8. Cardinality(V) + (turns + 1) <= n
    BY <1>1, <2>4, <2>5, <2>6, <2>7
  <2> QED BY <2>8 DEF V
<1> DEFINE slots == IF 2 * Len(after) > s.slots THEN 2 * Len(after) ELSE s.slots
<1>8. slots \in Nat /\ (slots <= n \/ (n = 1 /\ slots = 2))
  <2> DEFINE k == Len(after)
  <2>1. k \in Nat /\ (k # 0 => /\ 2 * k - 1 <= after[k][1] /\ after[k][1] <= after[k][2]
                               /\ (after[k][1] < after[k][2] \/ n = 1)
                               /\ after[k][1] \in 1 .. n /\ after[k][2] \in 1 .. n)
    <3>1. after \in Seq((1 .. n) \X (1 .. n))
      BY <1>5 DEF IsStack
    <3>2. k \in Nat /\ DOMAIN after = 1 .. k
      BY <3>1
    <3>3. ASSUME k # 0 PROVE /\ 2 * k - 1 <= after[k][1] /\ after[k][1] <= after[k][2]
                             /\ (after[k][1] < after[k][2] \/ n = 1)
                             /\ after[k][1] \in 1 .. n /\ after[k][2] \in 1 .. n
      <4>1. k \in DOMAIN after
        BY <3>2, <3>3
      <4>2. after[k] \in (1 .. n) \X (1 .. n)
        BY <3>1, <4>1
      <4> QED BY <1>5, <4>1, <4>2 DEF IsStack
    <3> QED BY <3>2, <3>3
  <2> HIDE DEF k
  <2>2. k = 0 \/ 2 * k <= n \/ (n = 1 /\ k = 1)
    BY <1>1, <2>1
  <2> QED BY <1>1, <2>1, <2>2 DEF k
<1>9. SortStep(s) = [a |-> b, stack |-> after, slots |-> slots]
  BY DEF SortStep, after, b, q, l, h, range, LeftOf, RightOf
<1> HIDE DEF slots
<1> QED BY <1>1, <1>3, <1>5, <1>6, <1>7, <1>8, <1>9 DEF Sorting

LEMMA SortTurnKeeps ==
  \A base, s, turns, k : (turns \in Seq(Int) /\ k \in Int /\ IsSorting(base, s, turns))
                            => IsSorting(base, SortTurn(s, k), Append(turns, k))
<1> SUFFICES ASSUME NEW base, NEW s, NEW turns \in Seq(Int), NEW k \in Int, IsSorting(base, s, turns)
             PROVE  IsSorting(base, SortTurn(s, k), Append(turns, k))
  BY Zenon
<1> DEFINE next == SortTurn(s, k)  longer == Append(turns, k)
<1> HIDE DEF next, longer
<1> SUFFICES ASSUME base = [a |-> base.a, stack |-> <<<<1, Len(base.a)>>>>, slots |-> 2],
                    IsArray(base.a, Len(base.a)), base.a # << >>, Len(longer) <= Len(base.a)
             PROVE  Sorting(base.a, next, Len(longer))
  BY Zenon DEF IsSorting, next, longer
<1> USE DEF next, longer
<1> DEFINE a == base.a  n == Len(a)  t == Len(turns)
<1>1. t \in Nat /\ Len(Append(turns, k)) = t + 1
  OBVIOUS
<1>2. n \in Nat /\ t <= n
  BY <1>1 DEF IsArray
<1>3. Sorting(a, s, t)
  BY <1>2 DEF IsSorting
<1> HIDE DEF t
<1>4. CASE s.stack # << >>
  <2>1. SortTurn(s, k) = SortStep(s)
    BY <1>4 DEF SortTurn
  <2>2. Sorting(a, SortStep(s), t + 1)
    BY <1>1, <1>3, <1>4, SortStepKeeps
  <2> QED BY <1>1, <2>1, <2>2
<1>5. CASE s.stack = << >>
  <2>1. SortTurn(s, k) = s
    BY <1>5 DEF SortTurn
  <2>2. Waiting(s.stack, n) = {}
    BY <1>5 DEF Waiting
  <2>3. Cardinality(Waiting(s.stack, n)) = 0
    BY <2>2, FS_EmptySet
  <2>4. Cardinality(Waiting(s.stack, n)) + (t + 1) <= n
    BY <1>1, <1>2, <2>3
  <2> HIDE DEF n
  <2>5. Sorting(a, s, t + 1)
    BY <1>3, <2>4 DEF Sorting, n
  <2> QED BY <1>1, <2>1, <2>5
<1> QED BY <1>4, <1>5

\* The outcome of a sort: the pointers of a, each once, in order; no range is
\* left, and the stack had room for them unless there was one pointer only.
IsOrdered(s, a) ==
    LET n == Len(a) IN
    /\ s.a \in Seq(Int) /\ Len(s.a) = n
    /\ \E p \in Injections(n) : \A i \in 1 .. n : s.a[i] = a[p[i]]
    /\ \A i, j \in 1 .. n : i < j => s.a[i] <= s.a[j]
    /\ s.stack = << >>
    /\ s.slots > n => n = 1

\* sortPtrArray puts the pointers in order, and its stack, which has a slot per
\* pointer, holds the ranges that wait, for two pointers or more.
THEOREM SortPtrArraySorts ==
  ASSUME NEW a \in Seq(Int), a # << >>
  PROVE  IsOrdered(sortPtrArray(a), a)
<1> DEFINE n == Len(a)
           base == [a |-> a, stack |-> <<<<1, n>>>>, slots |-> 2]
           turns == [k \in 1 .. n |-> k]
           s == sortPtrArray(a)
<1>1. IsArray(a, n) /\ n \in Nat /\ n # 0 /\ turns \in Seq(Int) /\ Len(turns) = n
      /\ base.a = a
  BY ArrayIs
<1>2. Sorting(a, base, 0)
  <2> DEFINE stack == <<<<1, n>>>>
  <2>1. stack \in Seq((1 .. n) \X (1 .. n)) /\ DOMAIN stack = {1} /\ stack[1] = <<1, n>>
        /\ stack[1][1] = 1 /\ stack[1][2] = n
    BY <1>1
  <2> HIDE DEF stack
  <2>2. IsStack(stack, n)
    BY <1>1, <2>1 DEF IsStack
  <2>3. InOrderBut(a, stack, n)
    <3>1. \A i, j \in 1 .. n : Together(stack, i, j)
      BY <1>1, <2>1 DEF Together
    <3> QED BY <3>1 DEF InOrderBut
  <2>4. Cardinality(Waiting(stack, n)) = n
    <3>1. Waiting(stack, n) = 1 .. n
      BY <1>1, <2>1 DEF Waiting
    <3>2. 1 \in Int /\ n \in Int
      BY <1>1
    <3>3. Cardinality(1 .. n) = IF 1 > n THEN 0 ELSE n - 1 + 1
      BY <3>2, FS_Interval
    <3> QED BY <1>1, <3>1, <3>3
  <2>5. Rearranged(a, a, 1, n)
    BY <1>1, RearrangedItself
  <2>6. base = [a |-> a, stack |-> stack, slots |-> 2]
    BY DEF stack
  <2> QED BY <1>1, <2>2, <2>3, <2>4, <2>5, <2>6, SMTT(30) DEF Sorting
<1>3. IsSorting(base, base, << >>)
  BY <1>1, <1>2 DEF IsSorting
<1>4. IsSorting(base, Sorts!Folded(base, turns), turns)
  <2> HIDE DEF turns, base
  <2>1. \A seq \in Seq(Int) : IsSorting(base, Sorts!Folded(base, seq), seq)
    BY <1>3, SortTurnKeeps, Sorts!FoldLeftInduction
  <2> QED BY <1>1, <2>1
<1>5. Sorts!Folded(base, turns) = s
  BY DEF sortPtrArray, Sorts!Folded, Sorts!FoldLeft, FoldLeft, Sorts!MapThenFoldSet, MapThenFoldSet,
         Sorts!Max, Max
<1> HIDE DEF s, turns
<1>6. Sorting(a, s, n)
  <2>1. base = [a |-> base.a, stack |-> <<<<1, Len(base.a)>>>>, slots |-> 2]
        /\ base.a = a
    OBVIOUS
  <2> HIDE DEF base
  <2> QED BY <1>1, <1>4, <1>5, <2>1 DEF IsSorting
<1>7. /\ IsArray(s.a, n) /\ Rearranged(s.a, a, 1, n)
      /\ IsStack(s.stack, n) /\ InOrderBut(s.a, s.stack, n)
      /\ Cardinality(Waiting(s.stack, n)) + n <= n
      /\ s.slots \in Nat /\ (s.slots <= n \/ (n = 1 /\ s.slots = 2))
  BY <1>6 DEF Sorting
<1>8. s.stack = << >>
  <2> DEFINE W == Waiting(s.stack, n)
  <2>a. 1 \in Int /\ n \in Int
    BY <1>1
  <2>1. IsFiniteSet(1 .. n) /\ W \subseteq 1 .. n
    BY <2>a, FS_Interval, Zenon DEF Waiting
  <2>2. IsFiniteSet(W)
    BY <2>1, FS_Subset
  <2>3. Cardinality(W) = 0
    <3> HIDE DEF W
    <3>1. Cardinality(W) \in Nat
      BY <2>2, FS_CardinalityType
    <3>2. Cardinality(W) + n <= n
      BY <1>7 DEF W
    <3> QED BY <1>1, <3>1, <3>2
  <2>4. W = {}
    BY <2>2, <2>3, FS_EmptySet
  <2> SUFFICES ASSUME s.stack # << >> PROVE FALSE
    OBVIOUS
  <2> DEFINE stack == s.stack
  <2>5. 1 \in DOMAIN stack /\ stack[1] \in (1 .. n) \X (1 .. n) /\ stack[1][1] <= stack[1][2]
    BY <1>7, SMTT(30) DEF IsStack
  <2>6. stack[1][1] \in 1 .. n /\ stack[1][1] <= stack[1][1]
    BY <2>5
  <2>7. stack[1][1] \in Waiting(stack, n)
    BY <2>5, <2>6 DEF Waiting
  <2> QED BY <2>4, <2>7
<1>9. \A i, j \in 1 .. n : i < j => s.a[i] <= s.a[j]
  <2>1. \A i, j \in 1 .. n : ~ Together(s.stack, i, j)
    BY <1>8 DEF Together
  <2> QED BY <1>7, <2>1 DEF InOrderBut
<1>10. \E p \in Injections(n) : \A i \in 1 .. n : s.a[i] = a[p[i]]
  BY <1>7 DEF Rearranged, Reorders
<1>11. s.a \in Seq(Int) /\ Len(s.a) = n
  BY <1>7 DEF IsArray
<1>12. s.slots > n => n = 1
  BY <1>1, <1>7
<1>13. IsOrdered(s, a)
  BY <1>8, <1>9, <1>10, <1>11, <1>12 DEF IsOrdered
<1> QED BY <1>13 DEF s

\* There is one order of the pointers: two that are both in order are equal.
LEMMA SortedOnce ==
  ASSUME NEW n \in Nat, NEW a \in [1 .. n -> Int], NEW b \in [1 .. n -> Int],
         \A i, j \in 1 .. n : i < j => a[i] <= a[j],
         \A i, j \in 1 .. n : i < j => b[i] <= b[j],
         NEW p \in Injections(n), \A i \in 1 .. n : a[i] = b[p[i]]
  PROVE  a = b
<1>1. SUFFICES ASSUME NEW i \in 1 .. n, a[i] # b[i] PROVE FALSE
  OBVIOUS
<1>2. p \in [1 .. n -> 1 .. n] /\ \A k, m \in 1 .. n : p[k] = p[m] => k = m
  BY DEF Injections
<1>3. ASSUME NEW c \in Int, NEW d \in Int, NEW e \in Int, NEW f \in Int,
             1 <= c, d <= n, c <= d, f - e < d - c,
             \A k \in c .. d : p[k] \in e .. f
      PROVE  FALSE
  <2> DEFINE S == c .. d  T == e .. f  g == [k \in S |-> p[k]]
  <2>1. IsFiniteSet(S) /\ Cardinality(S) = d - c + 1
    BY <1>3, FS_Interval
  <2>2. IsFiniteSet(T) /\ Cardinality(T) = IF e > f THEN 0 ELSE f - e + 1
    BY FS_Interval
  <2>3. Cardinality(T) < Cardinality(S)
    BY <1>3, <2>1, <2>2
  <2>4. g \in [S -> T]
    BY <1>3
  <2>5. \A k \in S : k \in 1 .. n
    BY <1>3
  <2>6. \E x, y \in S : x # y /\ g[x] = g[y]
    <3> HIDE DEF S, T, g
    <3>1. IsFiniteSet(S) /\ IsFiniteSet(T)
      BY <2>1, <2>2
    <3> QED BY <2>3, <2>4, <3>1, FS_PigeonHole
  <2> QED BY <1>2, <2>5, <2>6
<1>4. CASE a[i] < b[i]
  <2>1. ASSUME NEW k \in 1 .. i PROVE p[k] \in 1 .. i - 1
    <3>1. k \in 1 .. n /\ a[k] \in Int /\ a[i] \in Int /\ b[i] \in Int /\ a[k] = b[p[k]] /\ p[k] \in 1 .. n
      BY <1>2
    <3>2. a[k] <= a[i]
      BY <3>1
    <3>3. ~ (p[k] > i) /\ p[k] # i
      BY <1>4, <3>1, <3>2
    <3> QED BY <3>1, <3>3
  <2>2. 1 \in Int /\ i \in Int /\ i - 1 \in Int /\ 1 <= 1 /\ i <= n /\ 1 <= i /\ (i - 1) - 1 < i - 1
    OBVIOUS
  <2>3. \A k \in 1 .. i : p[k] \in 1 .. i - 1
    BY <2>1
  <2> QED BY <1>3, <2>2, <2>3, Zenon
<1>5. CASE b[i] < a[i]
  <2>1. ASSUME NEW k \in i .. n PROVE p[k] \in i + 1 .. n
    <3>1. k \in 1 .. n /\ a[k] \in Int /\ a[i] \in Int /\ b[i] \in Int /\ a[k] = b[p[k]] /\ p[k] \in 1 .. n
      BY <1>2
    <3>2. a[i] <= a[k]
      BY <3>1
    <3>3. ~ (p[k] < i) /\ p[k] # i
      BY <1>5, <3>1, <3>2
    <3> QED BY <3>1, <3>3
  <2>2. i \in Int /\ n \in Int /\ i + 1 \in Int /\ 1 <= i /\ n <= n /\ i <= n /\ n - (i + 1) < n - i
    OBVIOUS
  <2>3. \A k \in i .. n : p[k] \in i + 1 .. n
    BY <2>1
  <2> QED BY <1>3, <2>2, <2>3, Zenon
<1> QED BY <1>1, <1>4, <1>5

-------------------------------------------------------------------------------
(* ListArray: what a list holds.                                           *)

\* A list of its type, and that its first slots are the elements of s.
IsList(l) ==
    /\ l = [values |-> l.values, length |-> l.length, state |-> l.state, build |-> l.build]
    /\ l.values \in Seq(Int) /\ l.length \in 0 .. Len(l.values)
BeginsWith(l, s) ==
    /\ s \in Seq(Int) /\ Len(s) = l.length
    /\ \A i \in 1 .. Len(s) : l.values[i] = s[i]

\* The invariant, of a list and the elements it was given: it holds them while
\* it has not ended the program, which it does only empty; and only a list of
\* one has left the stack of a sort.
IsKept(l, s) ==
    /\ IsList(l) /\ s \in Seq(Int)
    /\ l.state \in {"ok", "aborted", "sort overrun"}
    /\ l.state = "aborted" => l.length = 0
    /\ l.state = "sort overrun" => l.length = 1
    /\ l.state # "aborted" => BeginsWith(l, s)
ListInv == IsKept(list, added)

\* The list in which there is room for n more: itself, or resized.
HasRoom(l, r, n) ==
    \/ r = l /\ l.length + n <= Size(l)
    \/ \E size \in Nat : /\ size >= l.length /\ (size >= l.length + n \/ l.length = 0)
                         /\ r = resizeArray(l, size)

\* resizeArray keeps the elements, and ends the program when there are none.
LEMMA ResizeKeeps ==
  ASSUME NEW l, NEW s, IsList(l), l.state = "ok", BeginsWith(l, s),
         NEW size \in Nat, size >= l.length
  PROVE  LET r == resizeArray(l, size) IN
         /\ IsList(r) /\ r.length = l.length
         /\ l.length = 0 => r.state = "aborted"
         /\ l.length # 0 => r.state = "ok" /\ Size(r) = size /\ BeginsWith(r, s)
<1>1. /\ l = [values |-> l.values, length |-> l.length, state |-> "ok", build |-> l.build]
      /\ l.values \in Seq(Int) /\ l.length \in Nat /\ l.length <= Len(l.values)
  BY DEF IsList
<1>2. CASE l.length = 0
  <2>1. resizeArray(l, size) = [l EXCEPT !.state = "aborted"]
    BY <1>2 DEF resizeArray
  <2>2. resizeArray(l, size) = [values |-> l.values, length |-> l.length, state |-> "aborted", build |-> l.build]
    BY <1>1, <2>1
  <2> HIDE DEF resizeArray
  <2> QED BY <1>1, <1>2, <2>2 DEF IsList
<1>3. CASE l.length # 0
  <2> DEFINE used == InUse(l)  free == [k \in 1 .. size - l.length |-> NULL]  values == used \o free
  <2>1. resizeArray(l, size) = [values |-> values, length |-> l.length, state |-> "ok", build |-> l.build]
    BY <1>1, <1>3 DEF resizeArray
  <2>2. used \in Seq(Int) /\ Len(used) = l.length /\ \A i \in 1 .. l.length : used[i] = l.values[i]
    BY <1>1 DEF InUse
  <2>3. free \in Seq(Int) /\ Len(free) = size - l.length
    <3>1. size - l.length \in Nat /\ NULL \in Int
      BY <1>1 DEF NULL
    <3> QED BY <3>1
  <2> HIDE DEF used, free
  <2>4. values \in Seq(Int) /\ Len(values) = Len(used) + Len(free)
        /\ \A i \in 1 .. Len(used) : values[i] = used[i]
    BY <2>2, <2>3, TwoParts
  <2> HIDE DEF values
  <2>5. Len(values) = size /\ \A i \in 1 .. l.length : values[i] = l.values[i]
    BY <1>1, <2>2, <2>3, <2>4, SMTT(30)
  <2>6. IsList(resizeArray(l, size))
    BY <1>1, <2>1, <2>4, <2>5 DEF IsList
  <2>7. \A i \in 1 .. Len(s) : values[i] = s[i]
    BY <2>5 DEF BeginsWith
  <2>8. BeginsWith(resizeArray(l, size), s)
    BY <2>1, <2>7 DEF BeginsWith
  <2> QED BY <1>3, <2>1, <2>5, <2>6, <2>8 DEF Size
<1> QED BY <1>2, <1>3

\* The elements are written behind those that are there.
LEMMA PutKeeps ==
  ASSUME NEW r, NEW s, IsList(r), r.state = "ok", BeginsWith(r, s),
         NEW e \in Seq(Int), r.length + Len(e) <= Size(r)
  PROVE  IsKept(Longer(Put(r, r.length, e), r.length + Len(e)), s \o e)
<1>1. /\ r = [values |-> r.values, length |-> r.length, state |-> "ok", build |-> r.build]
      /\ r.values \in Seq(Int) /\ r.length \in Nat /\ r.length <= Len(r.values)
      /\ Len(e) \in Nat /\ s \in Seq(Int) /\ Len(s) = r.length
      /\ \A i \in 1 .. Len(s) : r.values[i] = s[i]
  BY DEF IsList, BeginsWith
<1> DEFINE at == r.length  n == Size(r)  k == Len(e)
           values == [i \in 1 .. n |-> IF i \in at + 1 .. at + k THEN e[i - at] ELSE r.values[i]]
           longer == [values |-> values, length |-> at + k, state |-> "ok", build |-> r.build]
<1>2. Longer(Put(r, at, e), at + k) = longer
  <2>1. ~ (at + k > n)
    BY <1>1 DEF Size
  <2>2. Put(r, at, e) = [r EXCEPT !.values = values]
    BY <1>1, <2>1 DEF Put
  <2>3. Put(r, at, e) = [values |-> values, length |-> at, state |-> "ok", build |-> r.build]
    <3> HIDE DEF values
    <3> QED BY <1>1, <2>2
  <2> HIDE DEF values
  <2> QED BY <2>3 DEF Longer
<1>3. n \in Nat /\ n = Len(r.values) /\ at + k <= n
  BY <1>1 DEF Size
<1>4. values \in Seq(Int) /\ Len(values) = n
  <2>1. \A i \in 1 .. n : values[i] \in Int
    <3> SUFFICES ASSUME NEW i \in 1 .. n PROVE values[i] \in Int
      OBVIOUS
    <3>1. CASE i \in at + 1 .. at + k
      <4>1. i - at \in 1 .. k
        BY <1>1, <3>1
      <4> QED BY <3>1, <4>1
    <3>2. CASE i \notin at + 1 .. at + k
      BY <1>1, <1>3, <3>2
    <3> QED BY <3>1, <3>2
  <2>2. values \in [1 .. n -> Int]
    BY <2>1
  <2> HIDE DEF values
  <2> QED BY <1>3, <2>2
<1> DEFINE both == s \o e
<1>5. both \in Seq(Int) /\ Len(both) = at + k /\ (\A i \in 1 .. at : both[i] = s[i])
      /\ (\A i \in 1 .. k : both[at + i] = e[i])
  <2>1. s \in Seq(Int) /\ e \in Seq(Int)
    BY <1>1
  <2>2. both \in Seq(Int) /\ Len(both) = Len(s) + Len(e) /\ (\A i \in 1 .. Len(s) : both[i] = s[i])
        /\ (\A i \in 1 .. Len(e) : both[Len(s) + i] = e[i])
    BY <2>1, TwoParts
  <2> QED BY <1>1, <2>2
<1>6. \A i \in 1 .. at + k : values[i] = both[i]
  <2> SUFFICES ASSUME NEW i \in 1 .. at + k PROVE values[i] = both[i]
    OBVIOUS
  <2> HIDE DEF both
  <2>0. i \in 1 .. n
    BY <1>1, <1>3
  <2>1. CASE i \in at + 1 .. at + k
    <3>1. i - at \in 1 .. k /\ at + (i - at) = i
      BY <1>1, <2>1
    <3>2. values[i] = e[i - at]
      BY <2>0, <2>1
    <3> HIDE DEF values
    <3> QED BY <1>5, <3>1, <3>2
  <2>2. CASE i \notin at + 1 .. at + k
    <3>1. i \in 1 .. at /\ values[i] = r.values[i]
      BY <1>1, <2>0, <2>2
    <3> HIDE DEF values
    <3> QED BY <1>1, <1>5, <3>1
  <2> QED BY <2>1, <2>2
<1> HIDE DEF values, both
<1>7. IsList(longer) /\ BeginsWith(longer, both) /\ longer.state = "ok"
  BY <1>1, <1>3, <1>4, <1>5, <1>6 DEF IsList, BeginsWith
<1> HIDE DEF longer
<1>8. IsKept(longer, both)
  BY <1>5, <1>7 DEF IsKept
<1> QED BY <1>2, <1>8 DEF both

\* So a list to which elements are added keeps them, whether it had the room.
LEMMA ExtendedIsKept ==
  ASSUME NEW l, NEW s, IsKept(l, s), l.state = "ok", NEW e \in Seq(Int),
         NEW r, HasRoom(l, r, Len(e))
  PROVE  IsKept(Longer(Put(r, l.length, e), l.length + Len(e)), s \o e)
<1>1. IsList(l) /\ BeginsWith(l, s) /\ s \in Seq(Int)
  BY DEF IsKept
<1>2. CASE r = l /\ l.length + Len(e) <= Size(l)
  BY <1>1, <1>2, PutKeeps
<1>3. CASE \E size \in Nat : /\ size >= l.length /\ (size >= l.length + Len(e) \/ l.length = 0)
                             /\ r = resizeArray(l, size)
  <2>1. PICK size \in Nat : /\ size >= l.length /\ (size >= l.length + Len(e) \/ l.length = 0)
                            /\ r = resizeArray(l, size)
    BY <1>3
  <2>2. /\ IsList(r) /\ r.length = l.length
        /\ l.length = 0 => r.state = "aborted"
        /\ l.length # 0 => r.state = "ok" /\ Size(r) = size /\ BeginsWith(r, s)
    BY <1>1, <2>1, ResizeKeeps
  <2>3. CASE l.length = 0
    <3>1. Longer(Put(r, l.length, e), l.length + Len(e)) = r
      BY <2>2, <2>3 DEF Longer, Put
    <3>2. s \o e \in Seq(Int)
      BY <1>1
    <3> QED BY <2>2, <2>3, <3>1, <3>2 DEF IsKept
  <2>4. CASE l.length # 0
    <3>1. r.length + Len(e) <= Size(r)
      BY <2>1, <2>2, <2>4
    <3>2. IsKept(Longer(Put(r, r.length, e), r.length + Len(e)), s \o e)
      BY <2>2, <2>4, <3>1, PutKeeps
    <3> QED BY <2>2, <3>2
  <2> QED BY <2>3, <2>4
<1> QED BY <1>2, <1>3 DEF HasRoom

LEMMA RoundedUp ==
  ASSUME NEW n \in Nat
  PROVE  Rounded(n) \in Nat /\ Rounded(n) >= n
<1> QED BY DEF Rounded

\* Each of the builds makes room for what it adds.
LEMMA RoomIsMade ==
  ASSUME NEW l, IsList(l), NEW n \in Nat
  PROVE  /\ HasRoom(l, IF l.length = Size(l) THEN resizeArray(l, 2 * Size(l)) ELSE l, 1)
         /\ HasRoom(l, IF l.length = Size(l) THEN resizeArray(l, 2 * Rounded(l.length)) ELSE l, 1)
         /\ HasRoom(l, Grown(l, l.length + n), n)
         /\ HasRoom(l, GrownInC(l, l.length + n), n)
<1>1. l.length \in Nat /\ Size(l) \in Nat /\ l.length <= Size(l)
  BY DEF IsList, Size
<1> DEFINE m == l.length  size == Size(l)
<1>2. \A k \in Nat : k >= m /\ (k >= m + 1 \/ m = 0) => HasRoom(l, resizeArray(l, k), 1)
  BY DEF HasRoom
<1>3. \A k \in Nat : k >= m /\ (k >= m + n \/ m = 0) => HasRoom(l, resizeArray(l, k), n)
  BY DEF HasRoom
<1>4. (m + 1 <= size => HasRoom(l, l, 1)) /\ (m + n <= size => HasRoom(l, l, n))
  BY DEF HasRoom
<1> HIDE DEF m, size
<1>5. m \in Nat /\ size \in Nat /\ m <= size
  BY <1>1 DEF m, size
<1>6. HasRoom(l, IF m = size THEN resizeArray(l, 2 * size) ELSE l, 1)
  <2>1. CASE m = size
    <3>1. 2 * size \in Nat /\ 2 * size >= m /\ (2 * size >= m + 1 \/ m = 0)
      BY <1>5, <2>1
    <3> QED BY <1>2, <2>1, <3>1
  <2>2. CASE m # size
    BY <1>4, <1>5, <2>2
  <2> QED BY <2>1, <2>2
<1>7. HasRoom(l, IF m = size THEN resizeArray(l, 2 * Rounded(m)) ELSE l, 1)
  <2>1. CASE m = size
    <3>1. Rounded(m) \in Nat /\ Rounded(m) >= m
      BY <1>5, RoundedUp
    <3>2. 2 * Rounded(m) \in Nat /\ 2 * Rounded(m) >= m /\ (2 * Rounded(m) >= m + 1 \/ m = 0)
      BY <1>5, <3>1
    <3> QED BY <1>2, <2>1, <3>2
  <2>2. CASE m # size
    BY <1>4, <1>5, <2>2
  <2> QED BY <2>1, <2>2
<1> DEFINE longer == m + n
<1>8. longer \in Nat /\ longer >= m
  BY <1>5
<1>9. HasRoom(l, Grown(l, longer), n)
  <2>1. CASE longer > size
    <3> DEFINE k == longer + longer \div 2
    <3>1. k \in Nat /\ k >= longer
      BY <1>8
    <3>2. Grown(l, longer) = resizeArray(l, k)
      BY <2>1 DEF Grown, size
    <3> HIDE DEF k
    <3> QED BY <1>3, <1>5, <1>8, <3>1, <3>2
  <2>2. CASE ~ (longer > size)
    <3>1. Grown(l, longer) = l
      BY <2>2 DEF Grown, size
    <3> QED BY <1>4, <1>5, <2>2, <3>1
  <2> QED BY <2>1, <2>2
<1>10. HasRoom(l, GrownInC(l, longer), n)
  <2>1. CASE longer >= size
    <3> DEFINE k == 2 * Rounded(longer)
    <3>1. k \in Nat /\ k >= longer
      <4>1. Rounded(longer) \in Nat /\ Rounded(longer) >= longer
        BY <1>8, RoundedUp
      <4> QED BY <1>8, <4>1
    <3>2. GrownInC(l, longer) = resizeArray(l, k)
      BY <2>1 DEF GrownInC, size
    <3> HIDE DEF k
    <3> QED BY <1>3, <1>5, <1>8, <3>1, <3>2
  <2>2. CASE ~ (longer >= size)
    <3>1. GrownInC(l, longer) = l
      BY <2>2 DEF GrownInC, size
    <3> QED BY <1>4, <1>5, <2>2, <3>1
  <2> QED BY <2>1, <2>2
<1> QED BY <1>6, <1>7, <1>9, <1>10 DEF m, size

\* The operations of a list, each as the invariant sees it.
LEMMA AddKeeps ==
  ASSUME NEW l, NEW s, IsKept(l, s), l.state = "ok", NEW e \in Int
  PROVE  /\ e # NULL => IsKept(add(l, e), Append(s, e))
         /\ e = NULL => add(l, e) = l
         /\ IsKept(addInC(l, e), Append(s, e))
<1> DEFINE one == <<e>>
<1>1. one \in Seq(Int) /\ Len(one) = 1 /\ IsList(l) /\ s \in Seq(Int)
  BY DEF IsKept
<1>2. Append(s, e) = s \o one
  BY <1>1
<1> HIDE DEF one
<1>3. \A r : HasRoom(l, r, 1) => IsKept(Longer(Put(r, l.length, one), l.length + 1), s \o one)
  BY <1>1, ExtendedIsKept
<1>4. /\ HasRoom(l, IF l.length = Size(l) THEN resizeArray(l, 2 * Size(l)) ELSE l, 1)
      /\ HasRoom(l, IF l.length = Size(l) THEN resizeArray(l, 2 * Rounded(l.length)) ELSE l, 1)
  BY <1>1, RoomIsMade
<1>5. e # NULL => IsKept(add(l, e), s \o one)
  BY <1>3, <1>4 DEF add, one
<1>6. IsKept(addInC(l, e), s \o one)
  BY <1>3, <1>4 DEF addInC, one
<1> QED BY <1>2, <1>5, <1>6 DEF add

LEMMA AddAllKeeps ==
  ASSUME NEW l, NEW s, IsKept(l, s), l.state = "ok", NEW e \in Seq(Int)
  PROVE  /\ IsKept(addAll(l, e), s \o e) /\ IsKept(addFromStack(l, e), s \o e)
         /\ IsKept(addAllInC(l, e), s \o e) /\ IsKept(addFromStackInC(l, e), s \o e)
<1>1. IsList(l) /\ s \in Seq(Int) /\ Len(e) \in Nat
  BY DEF IsKept
<1>2. HasRoom(l, Grown(l, l.length + Len(e)), Len(e)) /\ HasRoom(l, GrownInC(l, l.length + Len(e)), Len(e))
  BY <1>1, RoomIsMade
<1>3. \A r : HasRoom(l, r, Len(e)) => IsKept(Longer(Put(r, l.length, e), l.length + Len(e)), s \o e)
  BY ExtendedIsKept
<1>4. /\ IsKept(Longer(Put(Grown(l, l.length + Len(e)), l.length, e), l.length + Len(e)), s \o e)
      /\ IsKept(Longer(Put(GrownInC(l, l.length + Len(e)), l.length, e), l.length + Len(e)), s \o e)
  BY <1>2, <1>3
<1>5. CASE e = << >>
  <2>1. s \o e = s
    BY <1>1, <1>5
  <2> QED BY <1>4, <1>5, <2>1 DEF addAll, addFromStack, addAllInC, addFromStackInC
<1>6. CASE e # << >>
  BY <1>4, <1>6 DEF addAll, addFromStack, addAllInC, addFromStackInC
<1> QED BY <1>5, <1>6

LEMMA EnsureCapacityKeeps ==
  ASSUME NEW l, NEW s, IsKept(l, s), l.state = "ok", NEW capacity \in Nat
  PROVE  IsKept(ensureCapacity(l, capacity), s)
<1>1. IsList(l) /\ s \in Seq(Int) /\ BeginsWith(l, s) /\ l.length \in Nat /\ Size(l) \in Nat /\ l.length <= Size(l)
  BY DEF IsKept, IsList, Size
<1>2. CASE Size(l) < capacity
  <2> DEFINE size == Rounded(capacity)
  <2>1. size \in Nat /\ size >= l.length
    <3>1. Rounded(capacity) \in Nat /\ Rounded(capacity) >= capacity
      BY RoundedUp
    <3> QED BY <1>1, <1>2, <3>1
  <2>2. ensureCapacity(l, capacity) = resizeArray(l, size)
    BY <1>2 DEF ensureCapacity
  <2> HIDE DEF size
  <2>3. LET r == resizeArray(l, size) IN
        /\ IsList(r) /\ r.length = l.length
        /\ l.length = 0 => r.state = "aborted"
        /\ l.length # 0 => r.state = "ok" /\ Size(r) = size /\ BeginsWith(r, s)
    BY <1>1, <2>1, ResizeKeeps
  <2> QED BY <1>1, <2>2, <2>3 DEF IsKept
<1>3. CASE ~ (Size(l) < capacity)
  BY <1>3 DEF ensureCapacity
<1> QED BY <1>2, <1>3

LEMMA ClearKeeps ==
  ASSUME NEW l, NEW s, IsKept(l, s), l.state = "ok"
  PROVE  IsKept(clear(l), << >>) /\ IsKept(reset(l), << >>)
<1>1. /\ l = [values |-> l.values, length |-> l.length, state |-> "ok", build |-> l.build]
      /\ l.values \in Seq(Int) /\ l.length \in 0 .. Len(l.values)
  BY DEF IsKept, IsList
<1>2. clear(l) = [values |-> l.values, length |-> 0, state |-> "ok", build |-> l.build]
  BY <1>1 DEF clear
<1> DEFINE values == [k \in DOMAIN l.values |-> IF k <= l.length THEN NULL ELSE l.values[k]]
<1>3. values \in Seq(Int)
  <2>1. values \in [1 .. Len(l.values) -> Int]
    BY <1>1 DEF NULL
  <2> HIDE DEF values
  <2> QED BY <1>1, <2>1
<1>4. reset(l) = [values |-> values, length |-> 0, state |-> "ok", build |-> l.build]
  <2>1. reset(l) = [[l EXCEPT !.length = 0] EXCEPT !.values = values]
    BY DEF reset
  <2> HIDE DEF values
  <2>2. [l EXCEPT !.length = 0] = [values |-> l.values, length |-> 0, state |-> "ok", build |-> l.build]
    BY <1>1
  <2> QED BY <2>1, <2>2
<1> HIDE DEF values
<1>5. ASSUME NEW v \in Seq(Int) 
      PROVE  IsKept([values |-> v, length |-> 0, state |-> "ok", build |-> l.build], << >>)
  <2>1. Len(v) \in Nat /\ << >> \in Seq(Int) /\ Len(<< >>) = 0
    OBVIOUS
  <2> QED BY <2>1 DEF IsKept, IsList, BeginsWith
<1> QED BY <1>1, <1>2, <1>3, <1>4, <1>5

\* A sort, and any other way of ordering the same elements.
LEMMA SortKeeps ==
  ASSUME NEW l, NEW s, IsKept(l, s), l.state = "ok",
         NEW order \in Bijection(DOMAIN s, DOMAIN s), NEW t,
         t = [i \in DOMAIN s |-> s[order[i]]],
         \A i, j \in 1 .. Len(t) : i < j => t[i] <= t[j]
  PROVE  IsKept(sort(l), t)
<1>1. /\ IsList(l) /\ BeginsWith(l, s) /\ s \in Seq(Int) /\ Len(s) = l.length
      /\ l = [values |-> l.values, length |-> l.length, state |-> "ok", build |-> l.build]
      /\ l.values \in Seq(Int) /\ l.length \in Nat /\ l.length <= Len(l.values)
  BY DEF IsKept, IsList, BeginsWith
<1> DEFINE n == l.length
<1>2. InUse(l) = s
  <2> DEFINE used == InUse(l)
  <2>1. used \in Seq(Int) /\ Len(used) = l.length /\ \A i \in 1 .. l.length : used[i] = l.values[i]
    BY <1>1 DEF InUse
  <2> HIDE DEF used
  <2>2. \A i \in 1 .. Len(used) : used[i] = s[i]
    BY <1>1, <2>1 DEF BeginsWith
  <2>3. used = s
    BY <1>1, <2>1, <2>2, SeqEqual
  <2> QED BY <2>3 DEF used
<1>a. DOMAIN s = 1 .. n
  BY <1>1
<1>3. /\ order \in [1 .. n -> 1 .. n]
      /\ \A k \in 1 .. n : \E i \in 1 .. n : order[i] = k
  BY <1>a DEF Bijection, Injection, Surjection
<1>4. t \in [1 .. n -> Int] /\ t \in Seq(Int) /\ Len(t) = n
  <2>a. \A k \in 1 .. n : s[k] \in Int
    BY <1>1
  <2>b. \A i \in 1 .. n : order[i] \in 1 .. n
    BY <1>3
  <2>1. \A i \in 1 .. n : s[order[i]] \in Int
    BY <2>a, <2>b
  <2>2. t \in [1 .. n -> Int]
    BY <1>a, <2>1
  <2>3. n \in Nat
    BY <1>1
  <2> HIDE DEF n
  <2> QED BY <2>2, <2>3
<1>5. \A i, j \in 1 .. n : i < j => t[i] <= t[j]
  BY <1>4
<1>6. CASE n = 0
  <2>1. sort(l) = l
    BY <1>6 DEF sort
  <2>2. t = s
    BY <1>1, <1>4, <1>6
  <2> QED BY <2>1, <2>2
<1>7. CASE n # 0
  <2> DEFINE sorted == sortPtrArray(s)
  <2>1. s # << >>
    BY <1>1, <1>7
  <2>2. /\ sorted.a \in Seq(Int) /\ Len(sorted.a) = n
        /\ \E p \in Injections(n) : \A i \in 1 .. n : sorted.a[i] = s[p[i]]
        /\ \A i, j \in 1 .. n : i < j => sorted.a[i] <= sorted.a[j]
        /\ sorted.stack = << >>
        /\ sorted.slots > n => n = 1
    <3>1. IsOrdered(sorted, s)
      BY <1>1, <2>1, SortPtrArraySorts
    <3> HIDE DEF sorted
    <3> QED BY <1>1, <3>1 DEF IsOrdered
  <2> HIDE DEF sorted
  <2>3. sorted.a = t
    <3>1. PICK p \in Injections(n) : \A i \in 1 .. n : sorted.a[i] = s[p[i]]
      BY <2>2
    <3>2. p \in [1 .. n -> 1 .. n] /\ \A i, j \in 1 .. n : p[i] = p[j] => i = j
      BY <3>1 DEF Injections
    <3> DEFINE r == [i \in 1 .. n |-> CHOOSE k \in 1 .. n : order[k] = p[i]]
    <3>3. \A i \in 1 .. n : r[i] \in 1 .. n /\ order[r[i]] = p[i]
      BY <1>3, <3>2
    <3>4. r \in Injections(n)
      <4>1. r \in [1 .. n -> 1 .. n]
        BY <3>3
      <4> HIDE DEF r
      <4>2. \A i, j \in 1 .. n : r[i] = r[j] => i = j
        BY <3>2, <3>3
      <4> QED BY <4>1, <4>2 DEF Injections
    <3> HIDE DEF r
    <3>5. \A i \in 1 .. n : sorted.a[i] = t[r[i]]
      BY <1>a, <1>3, <3>1, <3>3
    <3>6. n \in Nat /\ sorted.a \in [1 .. n -> Int]
      BY <1>1, <2>2
    <3> HIDE DEF n
    <3> DEFINE a == sorted.a
    <3>7. a \in [1 .. n -> Int] /\ (\A i, j \in 1 .. n : i < j => a[i] <= a[j])
          /\ (\A i \in 1 .. n : a[i] = t[r[i]])
      BY <2>2, <3>5, <3>6
    <3> HIDE DEF a
    <3>8. a = t
      <4>1. n \in Nat /\ t \in [1 .. n -> Int] /\ (\A i, j \in 1 .. n : i < j => t[i] <= t[j])
        BY <1>4, <1>5, <3>6
      <4> QED BY <3>4, <3>7, <4>1, SortedOnce
    <3> QED BY <3>8 DEF a
  <2> DEFINE rest == SubSeq(l.values, l.length + 1, Len(l.values))  values == t \o rest
             state == IF sorted.slots > l.length \/ sorted.stack # << >> THEN "sort overrun" ELSE "ok"
  <2>4. sort(l) = [values |-> values, length |-> n, state |-> state, build |-> l.build]
    <3>1. sort(l) = [[l EXCEPT !.values = values]
                        EXCEPT !.state = IF sorted.slots > l.length \/ sorted.stack # << >>
                                         THEN "sort overrun" ELSE @]
      BY <1>2, <1>7, <2>3 DEF sort, sorted
    <3> HIDE DEF values
    <3>2. [l EXCEPT !.values = values] = [values |-> values, length |-> n, state |-> "ok", build |-> l.build]
      BY <1>1, SMTT(30)
    <3> QED BY <3>1, <3>2
  <2>5. rest \in Seq(Int) /\ Len(rest) = Len(l.values) - n
    BY <1>1, SMTT(30)
  <2> HIDE DEF rest
  <2>6. values \in Seq(Int) /\ Len(values) = Len(t) + Len(rest) /\ \A i \in 1 .. Len(t) : values[i] = t[i]
    BY <1>4, <2>5, TwoParts
  <2>7. state \in {"ok", "sort overrun"} /\ (state = "sort overrun" => n = 1)
    BY <2>2
  <2> HIDE DEF values, state
  <2>8. IsList(sort(l)) /\ BeginsWith(sort(l), t)
    <3>1. Len(values) \in Nat /\ n \in 0 .. Len(values)
      BY <1>1, <1>4, <2>5, <2>6
    <3> DEFINE r == sort(l)
    <3>2. r.values = values /\ r.length = n /\ r.state = state /\ r.build = l.build
          /\ r = [values |-> r.values, length |-> r.length, state |-> r.state, build |-> r.build]
      BY <2>4
    <3>3. \A i \in 1 .. Len(t) : values[i] = t[i]
      BY <2>6
    <3> HIDE DEF r, n
    <3>4. IsList(r)
      BY <2>6, <3>1, <3>2 DEF IsList
    <3>5. BeginsWith(r, t)
      BY <1>4, <3>2, <3>3 DEF BeginsWith
    <3> QED BY <3>4, <3>5 DEF r
  <2>9. sort(l).state = state /\ sort(l).length = n
    BY <2>4
  <2> HIDE DEF n
  <2> QED BY <1>4, <2>7, <2>8, <2>9 DEF IsKept
<1> QED BY <1>6, <1>7

LEMMA ListInitKeeps ==
  ListInit => ListInv
<1> SUFFICES ASSUME ListInit PROVE ListInv
  OBVIOUS
<1>1. PICK size \in ListSizes, build \in {"x86-64", "Arm"} : list = createListArrayWithSize(size, build)
  BY DEF ListInit
<1> DEFINE values == [k \in 1 .. size |-> NULL]
<1>2. values \in Seq(Int)
  <2>1. size \in Nat /\ NULL \in Int
    BY ListAssumption DEF NULL
  <2> QED BY <2>1
<1>3. list = [values |-> values, length |-> 0, state |-> "ok", build |-> build]
  BY <1>1 DEF createListArrayWithSize
<1> HIDE DEF values
<1>4. added = << >> /\ Len(values) \in Nat
  BY <1>2 DEF ListInit
<1>5. << >> \in Seq(Int) /\ Len(<< >>) = 0
  OBVIOUS
<1> QED BY <1>2, <1>3, <1>4, <1>5 DEF ListInv, IsKept, IsList, BeginsWith

LEMMA ListStepKeeps ==
  ASSUME ListInv, ListNext
  PROVE  ListInv'
<1>1. ASSUME NEW e \in Elements \cup {NULL}, Add(e) PROVE ListInv'
  <2>1. IsKept(list, added) /\ list.state = "ok" /\ e \in Int
    BY <1>1, ListAssumption DEF ListInv, Add, Grows, ListIsUsable, NULL
  <2>2. /\ e # NULL => IsKept(add(list, e), Append(added, e))
        /\ e = NULL => add(list, e) = list
        /\ IsKept(addInC(list, e), Append(added, e))
    BY <2>1, AddKeeps
  <2> QED BY <1>1, <2>1, <2>2 DEF Add, ListInv
<1>2. ASSUME NEW batch \in Batches, AddAll(batch) PROVE ListInv'
  <2>1. IsKept(list, added) /\ list.state = "ok" /\ batch \in Seq(Int)
    BY <1>2, ListAssumption DEF ListInv, AddAll, Grows, ListIsUsable
  <2>2. IsKept(addAll(list, batch), added \o batch) /\ IsKept(addAllInC(list, batch), added \o batch)
    BY <2>1, AddAllKeeps
  <2> QED BY <1>2, <2>2 DEF AddAll, ListInv
<1>3. ASSUME NEW batch \in Batches, AddFromStack(batch) PROVE ListInv'
  <2>1. IsKept(list, added) /\ list.state = "ok" /\ batch \in Seq(Int)
    BY <1>3, ListAssumption DEF ListInv, AddFromStack, Grows, ListIsUsable
  <2>2. IsKept(addFromStack(list, batch), added \o batch) /\ IsKept(addFromStackInC(list, batch), added \o batch)
    BY <2>1, AddAllKeeps
  <2> QED BY <1>3, <2>2 DEF AddFromStack, ListInv
<1>4. ASSUME NEW n \in Capacities, EnsureCapacity(n) PROVE ListInv'
  <2>1. IsKept(list, added) /\ list.state = "ok" /\ n \in Nat
    BY <1>4, ListAssumption DEF ListInv, EnsureCapacity, ListIsUsable
  <2>2. IsKept(ensureCapacity(list, n), added)
    BY <2>1, EnsureCapacityKeeps
  <2> QED BY <1>4, <2>2 DEF EnsureCapacity, ListInv
<1>5. ASSUME Clear \/ ResetList PROVE ListInv'
  <2>1. IsKept(list, added) /\ list.state = "ok"
    BY <1>5 DEF ListInv, Clear, ResetList, ListIsUsable
  <2>2. IsKept(clear(list), << >>) /\ IsKept(reset(list), << >>)
    BY <2>1, ClearKeeps
  <2> QED BY <1>5, <2>2 DEF Clear, ResetList, ListInv
<1>6. ASSUME Sort PROVE ListInv'
  <2>1. IsKept(list, added) /\ list.state = "ok" /\ list' = sort(list)
    BY <1>6 DEF ListInv, Sort, ListIsUsable, IsSorted
  <2>2. PICK order \in Bijection(DOMAIN added, DOMAIN added) :
          added' = [i \in DOMAIN added |-> added[order[i]]]
    BY <1>6 DEF Sort, IsSorted
  <2>3. \A i, j \in 1 .. Len(added') : i < j => added'[i] <= added'[j]
    BY <1>6 DEF Sort, IsSorted
  <2>4. IsKept(sort(list), added')
    BY <2>1, <2>2, <2>3, SortKeeps
  <2> QED BY <2>1, <2>4 DEF ListInv
<1> QED BY <1>1, <1>2, <1>3, <1>4, <1>5, <1>6 DEF ListNext

\* What the invariant says of a list is what last and get return.
LEMMA ListInvHolds ==
  ListInv => KeepsItsElements
<1> SUFFICES ASSUME ListInv PROVE KeepsItsElements
  OBVIOUS
<1>1. /\ IsList(list) /\ list.state \in {"ok", "aborted", "sort overrun"}
      /\ list.state = "aborted" => list.length = 0
      /\ list.state = "sort overrun" => list.length = 1
      /\ list.state # "aborted" => BeginsWith(list, added)
  BY DEF ListInv, IsKept
<1>2. ASSUME list.state \in {"ok", "sort overrun"} PROVE Holds(added)
  <2>1. added \in Seq(Int) /\ Len(added) = list.length /\ list.length \in Nat
        /\ \A i \in 1 .. Len(added) : list.values[i] = added[i]
    <3>1. BeginsWith(list, added)
      BY <1>1, <1>2
    <3>a. list.values \in Seq(Int) /\ list.length \in 0 .. Len(list.values)
      BY <1>1, Zenon DEF IsList
    <3>2. list.length \in Nat
      BY <3>a
    <3> QED BY <3>1, <3>2 DEF BeginsWith
  <2>2. last(list) = IF added = << >> THEN NULL ELSE Last(added)
    <3>1. CASE added = << >>
      <4>1. list.length = 0
        BY <2>1, <3>1
      <4> QED BY <3>1, <4>1 DEF last
    <3>2. CASE added # << >>
      <4>1. Len(added) \in 1 .. Len(added) /\ list.length > 0
        BY <2>1, <3>2
      <4> QED BY <2>1, <3>2, <4>1 DEF last, Last
    <3> QED BY <3>1, <3>2
  <2>3. ASSUME NEW i \in 0 .. Len(added)
        PROVE  get(list, i) = IF i < Len(added) THEN added[i + 1] ELSE NULL
    <3>1. i < Len(added) => i + 1 \in 1 .. Len(added)
      BY <2>1
    <3> QED BY <2>1, <3>1 DEF get
  <2> QED BY <2>2, <2>3 DEF Holds
<1>3. list.state = "sort overrun" => Len(added) = 1
  BY <1>1 DEF BeginsWith
<1> QED BY <1>1, <1>2, <1>3 DEF KeepsItsElements

\* A list holds what was added to it, in order and sorted when it was sorted.
THEOREM ListKeepsItsElements ==
  ListSpec => []KeepsItsElements
<1>1. ListInit => ListInv
  BY ListInitKeeps
<1>2. ListInv /\ [ListNext]_listVars => ListInv'
  <2> SUFFICES ASSUME ListInv, [ListNext]_listVars PROVE ListInv'
    OBVIOUS
  <2>1. CASE ListNext
    BY <2>1, ListStepKeeps
  <2>2. CASE UNCHANGED listVars
    BY <2>2 DEF listVars, ListInv
  <2> QED BY <2>1, <2>2
<1>3. ListInv => KeepsItsElements
  BY ListInvHolds
<1> QED BY <1>1, <1>2, <1>3, PTL DEF ListSpec

-------------------------------------------------------------------------------
(* The walks through a tree of directories.                                *)

\* The names of a directory, in order.
IsIncreasing(s) == \A i, j \in 1 .. Len(s) : i < j => s[i] < s[j]
Calls ==
    {call \in [subdirs : Seq(Names), files : Seq(Names), next : Nat, dirPathLen : Nat] :
       /\ IsIncreasing(call.subdirs) /\ IsIncreasing(call.files)
       /\ \A i \in DOMAIN call.subdirs, j \in DOMAIN call.files :
             call.subdirs[i] # call.files[j]
       /\ call.next \in 1 .. Len(call.subdirs) + 1}

\* The text of a path: the directory of each call and its '/'; behind them the name
\* of one that is to be opened.
IsPath(t, cs, opening) ==
    /\ Len(t) = 2 * Len(cs) + IF opening THEN 1 ELSE 0
    /\ t[1] = Start[1]
    /\ \A k \in 1 .. Len(cs) : t[2 * k] = SLASH
    /\ \A k \in 1 .. Len(cs) :
          2 * k + 1 <= Len(t) =>
            cs[k].next >= 2 /\ t[2 * k + 1] = cs[k].subdirs[cs[k].next - 1]

PathBuilders == [length : Nat, size : Nat \ {0}, room : Nat, nul : Nat,
                 aborted : BOOLEAN, overrun : BOOLEAN]

\* While a builder is whole, its text ends where its NUL is.
IsWhole(sb, n) == ~sb.aborted /\ sb.length = n /\ sb.nul = n

TreeInv ==
    /\ IsTree([dirs |-> dirs, files |-> files])
    /\ kept \subseteq files /\ files \subseteq seen
PathInv ==
    /\ dirAt \in {"open", "walk", "done", "printed", "aborted", "overrun"}
    /\ dirPath \in PathBuilders /\ text \in Seq(Int) /\ text # << >>
    /\ dirAt # "overrun" => IsWhole(dirPath, Len(text))
    /\ dirAt = "done" => text = Start /\ calls = << >>
    /\ dirAt = "printed" => text \in {Start, Append(Start, SLASH)}
CallsInv ==
    /\ calls \in Seq(Calls)
    /\ \A k \in 1 .. Len(calls) : calls[k].dirPathLen = 2 * k
    /\ dirAt = "walk" => calls # << >>
    /\ dirAt \in {"open", "walk"} => IsPath(text, calls, dirAt = "open")
DirInv == TreeInv /\ PathInv /\ CallsInv


\* An append makes a whole path longer by what is appended, which resizing does
\* not end: a path is never empty.
LEMMA LengthenedPath ==
  ASSUME NEW sb \in PathBuilders, NEW n \in Nat \ {0}, IsWhole(sb, n)
  PROVE  /\ DP!append_char(sb) \in PathBuilders /\ IsWhole(DP!append_char(sb), n + 1)
         /\ DP!append_string(sb, 1) \in PathBuilders /\ IsWhole(DP!append_string(sb, 1), n + 1)
<1> DEFINE Like(r) == r \in PathBuilders /\ IsWhole(r, n)
           Room(size) == [sb EXCEPT !.room = size]
<1>1. ASSUME NEW r, Like(r)
      PROVE  DP!Written(r, 1) \in PathBuilders /\ IsWhole(DP!Written(r, 1), n + 1)
  <2> DEFINE w == DP!Written(r, 1)
  <2>1. ~r.aborted /\ r.length = n /\ r.nul = n /\ r \in PathBuilders
    BY <1>1 DEF IsWhole
  <2>2. w = [r EXCEPT !.length = n + 1, !.nul = n + 1, !.overrun = @ \/ n + 1 >= r.room]
    BY <2>1 DEF DP!Written, PathBuilders
  <2> HIDE DEF w
  <2>3. w.length = n + 1 /\ w.nul = n + 1 /\ w.aborted = r.aborted
    BY <2>1, <2>2 DEF PathBuilders
  <2>4. w \in PathBuilders
    <3> DEFINE over == (r.overrun \/ n + 1 >= r.room)
    <3>1. over \in BOOLEAN
      BY <2>1 DEF PathBuilders
    <3> HIDE DEF over
    <3>2. w = [r EXCEPT !.length = n + 1, !.nul = n + 1, !.overrun = over]
      BY <2>2 DEF over
    <3>3. n + 1 \in Nat
      OBVIOUS
    <3> QED BY <2>1, <3>1, <3>2, <3>3 DEF PathBuilders
  <2>5. ~w.aborted
    BY <2>1, <2>3
  <2> QED BY <2>3, <2>4, <2>5 DEF w, IsWhole
<1>2. sb.length = n /\ sb.nul = n /\ ~sb.aborted /\ sb.size \in Nat
  BY DEF IsWhole, PathBuilders
<1>3. Like(sb)
  OBVIOUS
<1>4. Like([sb EXCEPT !.room = 2 * sb.size])
  <2> DEFINE r == [sb EXCEPT !.room = 2 * sb.size]
  <2>1. r \in PathBuilders
    BY <1>2 DEF PathBuilders
  <2>2. r.length = sb.length /\ r.nul = sb.nul /\ r.aborted = sb.aborted
    BY DEF PathBuilders
  <2> QED BY <1>2, <2>1, <2>2 DEF IsWhole
<1>5. Like([sb EXCEPT !.room = 2 * sb.size, !.overrun = @ \/ 2 * sb.size < sb.length])
  <2> DEFINE over == (sb.overrun \/ 2 * sb.size < sb.length)
  <2>1. over \in BOOLEAN
    BY DEF PathBuilders
  <2> HIDE DEF over
  <2> DEFINE r == [sb EXCEPT !.room = 2 * sb.size, !.overrun = over]
  <2>2. r = [sb EXCEPT !.room = 2 * sb.size, !.overrun = @ \/ 2 * sb.size < sb.length]
    BY DEF over, PathBuilders
  <2>3. r \in PathBuilders
    <3> DEFINE room == 2 * sb.size
    <3>1. room \in Nat
      BY <1>2
    <3> HIDE DEF room
    <3>2. r = [sb EXCEPT !.room = room, !.overrun = over]
      BY DEF room
    <3> HIDE DEF r
    <3> QED BY <2>1, <3>1, <3>2 DEF PathBuilders
  <2>4. r.length = sb.length /\ r.nul = sb.nul /\ r.aborted = sb.aborted
    BY DEF PathBuilders
  <2> HIDE DEF r
  <2>5. Like(r)
    BY <1>2, <2>3, <2>4 DEF IsWhole
  <2> QED BY <2>2, <2>5
<1> HIDE DEF Like
<1>6. \E r : Like(r) /\ DP!append_char(sb) = DP!Written(r, 1)
  BY <1>2, <1>3, <1>5 DEF DP!append_char, DP!resizeStringBuilder
<1>7. \E r : Like(r) /\ DP!append_string(sb, 1) = DP!Written(r, 1)
  BY <1>3, <1>4 DEF DP!append_string
<1> QED BY <1>1, <1>6, <1>7

\* Cutting a whole path leaves it whole.
LEMMA ReducedPath ==
  ASSUME NEW sb \in PathBuilders, NEW n \in Nat, IsWhole(sb, n), NEW m \in 0 .. n
  PROVE  DP!reduceLength(sb, m) \in PathBuilders /\ IsWhole(DP!reduceLength(sb, m), m)
<1> DEFINE r == DP!reduceLength(sb, m)
<1>1. sb.length = n /\ sb.nul = n /\ ~sb.aborted
  BY DEF IsWhole
<1>2. CASE m < n
  <2>1. r = [sb EXCEPT !.length = m, !.nul = m]
    BY <1>1, <1>2 DEF DP!reduceLength, PathBuilders
  <2> HIDE DEF r
  <2>a. m \in Nat
    OBVIOUS
  <2>2. r \in PathBuilders
    BY <2>a, <2>1 DEF PathBuilders
  <2>b. r.length = m /\ r.nul = m /\ r.aborted = sb.aborted
    BY <2>1 DEF PathBuilders
  <2>3. r \in PathBuilders /\ IsWhole(r, m)
    BY <1>1, <2>2, <2>b DEF IsWhole
  <2> QED BY <2>3 DEF r
<1>3. CASE ~ (m < n)
  <2>1. r = sb /\ m = n
    BY <1>1, <1>3 DEF DP!reduceLength
  <2> QED BY <2>1
<1> QED BY <1>2, <1>3

\* createString puts a name behind the path and takes it away again.
SameLength(base, sb, names) ==
    base \in PathBuilders /\ base.length # 0 /\ IsWhole(base, base.length) =>
      sb \in PathBuilders /\ IsWhole(sb, base.length)
Strings == INSTANCE Folding WITH op <- CreatesString, Inv <- SameLength

LEMMA CreatesStringKeeps ==
  \A base, sb, names, name : (names \in Seq(Int) /\ name \in Int /\ SameLength(base, sb, names))
      => SameLength(base, CreatesString(sb, name), Append(names, name))
<1> SUFFICES ASSUME NEW base, NEW sb, NEW name,
                    base \in PathBuilders, base.length # 0, sb \in PathBuilders,
                    IsWhole(sb, base.length)
             PROVE  /\ CreatesString(sb, name) \in PathBuilders
                    /\ IsWhole(CreatesString(sb, name), base.length)
  BY DEF SameLength
<1> DEFINE n == base.length  longer == DP!append_string(sb, 1)
<1>1. n \in Nat \ {0} /\ sb.length = n
  BY DEF PathBuilders, IsWhole
<1>2. CreatesString(sb, name) = DP!reduceLength(longer, n)
  BY <1>1 DEF CreatesString, DP!createString
<1>3. longer \in PathBuilders /\ IsWhole(longer, n + 1)
  BY <1>1, LengthenedPath
<1> HIDE DEF longer, n
<1>4. n \in 0 .. n + 1 /\ n + 1 \in Nat
  BY <1>1
<1>5. DP!reduceLength(longer, n) \in PathBuilders /\ IsWhole(DP!reduceLength(longer, n), n)
  BY <1>3, <1>4, ReducedPath
<1> QED BY <1>2, <1>5 DEF n

LEMMA CreatesStringsIs ==
  ASSUME NEW n \in Nat \ {0}, dirPath \in PathBuilders, IsWhole(dirPath, n), Matches \in Seq(Int)
  PROVE  CreatesStrings \in PathBuilders /\ IsWhole(CreatesStrings, n)
<1>1. SameLength(dirPath, dirPath, << >>)
  BY DEF SameLength
<1>2. SameLength(dirPath, Strings!Folded(dirPath, Matches), Matches)
  <2>1. \A seq \in Seq(Int) : SameLength(dirPath, Strings!Folded(dirPath, seq), seq)
    BY <1>1, CreatesStringKeeps, Strings!FoldLeftInduction
  <2> QED BY <2>1
<1>3. Strings!Folded(dirPath, Matches) = CreatesStrings
  BY DEF CreatesStrings, Strings!Folded, Strings!FoldLeft, FoldLeft,
         Strings!MapThenFoldSet, MapThenFoldSet, Strings!Max, Max
<1>4. dirPath.length = n
  BY DEF IsWhole
<1> QED BY <1>2, <1>3, <1>4 DEF SameLength

-------------------------------------------------------------------------------
\* A sorted list of the names of a set has each of them once, in order.
IsListOf(r, S) ==
    /\ r \in Seq(S) /\ IsIncreasing(r)
    /\ \A x \in S : \E i \in 1 .. Len(r) : r[i] = x

\* Two ways to name n elements of a set of n are surjective.
LEMMA InjectionsAreOnto ==
  ASSUME NEW n \in Nat, NEW S, IsFiniteSet(S), Cardinality(S) = n, NEW s \in [1 .. n -> S],
         \A i, j \in 1 .. n : i # j => s[i] # s[j]
  PROVE  \A x \in S : \E i \in 1 .. n : s[i] = x
<1>1. s \in Injection(1 .. n, S)
  BY Zenon DEF Injection, IsInjective
<1>2. Cardinality(1 .. n) = n
  <2>1. 1 \in Int /\ n \in Int
    OBVIOUS
  <2> QED BY <2>1, FS_Interval
<1>3. s \in Surjection(1 .. n, S)
  BY <1>1, <1>2, FS_Injection
<1> QED BY <1>3 DEF Surjection

LEMMA ReordersAll ==
  ASSUME NEW n \in Nat, NEW p \in Injections(n)
  PROVE  \A k \in 1 .. n : \E i \in 1 .. n : p[i] = k
<1>1. 1 \in Int /\ n \in Int
  OBVIOUS
<1>2. IsFiniteSet(1 .. n) /\ Cardinality(1 .. n) = n
  BY <1>1, FS_Interval
<1> DEFINE T == 1 .. n
<1>3. p \in [T -> T] /\ \A i, j \in T : p[i] = p[j] => i = j
  BY DEF Injections
<1> HIDE DEF T
<1>4. p \in Injection(T, T)
  BY <1>3, Zenon DEF Injection, IsInjective
<1>5. p \in Surjection(T, T)
  BY <1>2, <1>4, FS_Injection DEF T
<1>6. \A k \in T : \E i \in T : p[i] = k
  BY <1>5, Zenon DEF Surjection
<1> QED BY <1>6 DEF T

LEMMA SortedNames ==
  ASSUME NEW S \in SUBSET Int, IsFiniteSet(S), NEW s \in SetToSeqs(S)
  PROVE  IsListOf(sortPtrArray(s).a, S)
<1> DEFINE n == Cardinality(S)  r == sortPtrArray(s).a
<1>1. n \in Nat
  BY FS_CardinalityType
<1>2. s \in [1 .. n -> S] /\ \A i, j \in 1 .. n : i # j => s[i] # s[j]
  BY DEF SetToSeqs
<1>3. \A x \in S : \E i \in 1 .. n : s[i] = x
  BY <1>1, <1>2, InjectionsAreOnto
<1> HIDE DEF n
<1>4. s \in Seq(Int) /\ Len(s) = n /\ DOMAIN s = 1 .. n
  <2>1. s \in [1 .. n -> Int]
    BY <1>1, <1>2
  <2> QED BY <1>1, <2>1
<1>5. CASE s = << >>
  <2>1. [k \in 1 .. Len(s) |-> k] = << >>
    BY <1>5
  <2> DEFINE base == [a |-> s, stack |-> <<<<1, Len(s)>>>>, slots |-> 2]
  <2>2. Sorts!Folded(base, << >>) = base
    BY Sorts!FoldLeftOfEmpty
  <2>3. Sorts!Folded(base, [k \in 1 .. Len(s) |-> k]) = sortPtrArray(s)
    BY DEF sortPtrArray, Sorts!Folded, Sorts!FoldLeft, FoldLeft, Sorts!MapThenFoldSet,
           MapThenFoldSet, Sorts!Max, Max
  <2>4. r = << >>
    BY <1>5, <2>1, <2>2, <2>3
  <2>5. n = 0
    BY <1>4, <1>5
  <2>6. S = {}
    BY <1>3, <2>5
  <2> HIDE DEF r
  <2>7. IsListOf(r, S)
    BY <2>4, <2>6 DEF IsListOf, IsIncreasing
  <2> QED BY <2>7 DEF r
<1>6. CASE s # << >>
  <2>1. IsOrdered(sortPtrArray(s), s)
    BY <1>4, <1>6, SortPtrArraySorts
  <2>2. /\ r \in Seq(Int) /\ Len(r) = n
        /\ \E p \in Injections(n) : \A i \in 1 .. n : r[i] = s[p[i]]
        /\ \A i, j \in 1 .. n : i < j => r[i] <= r[j]
    BY <1>4, <2>1 DEF IsOrdered
  <2>3. PICK p \in Injections(n) : \A i \in 1 .. n : r[i] = s[p[i]]
    BY <2>2
  <2> HIDE DEF r
  <2>4. p \in [1 .. n -> 1 .. n] /\ \A i, j \in 1 .. n : i # j => p[i] # p[j]
    BY DEF Injections
  <2>5. \A k \in 1 .. n : \E i \in 1 .. n : p[i] = k
    BY <1>1, ReordersAll
  <2>6. \A i \in 1 .. n : r[i] \in S
    BY <1>2, <2>3, <2>4
  <2>7. r \in Seq(S)
    BY <2>2, <2>6
  <2>8. \A i, j \in 1 .. n : i < j => r[i] < r[j]
    <3> SUFFICES ASSUME NEW i \in 1 .. n, NEW j \in 1 .. n, i < j PROVE r[i] < r[j]
      OBVIOUS
    <3>1. p[i] # p[j] /\ p[i] \in 1 .. n /\ p[j] \in 1 .. n
      BY <2>4
    <3>2. r[i] # r[j]
      BY <1>2, <2>3, <3>1
    <3> QED BY <2>2, <3>2
  <2>9. \A x \in S : \E i \in 1 .. n : r[i] = x
    <3> SUFFICES ASSUME NEW x \in S PROVE \E i \in 1 .. n : r[i] = x
      OBVIOUS
    <3>1. PICK k \in 1 .. n : s[k] = x
      BY <1>3
    <3>2. PICK i \in 1 .. n : p[i] = k
      BY <2>5
    <3> QED BY <2>3, <3>1, <3>2
  <2>10. IsListOf(r, S)
    BY <2>2, <2>7, <2>8, <2>9 DEF IsListOf, IsIncreasing
  <2> QED BY <2>10 DEF r
<1> QED BY <1>5, <1>6

\* What is in a directory are the last names of the paths that are one longer.
LEMMA UnderIs ==
  ASSUME NEW paths \in SUBSET (Seq(Names) \ {<< >>}), IsFiniteSet(paths), NEW dir \in Seq(Names)
  PROVE  /\ IsFiniteSet(Under(paths, dir)) /\ Under(paths, dir) \subseteq Names
         /\ \A name \in Names : name \in Under(paths, dir) <=> Append(dir, name) \in paths
<1> DEFINE below == {p \in paths : p # << >> /\ Front(p) = dir}
           f == [p \in below |-> Last(p)]
<1>1. Under(paths, dir) = {Last(p) : p \in below}
  BY DEF Under
<1>2. IsFiniteSet(below)
  BY FS_Subset
<1>3. \A p \in below : p = Append(dir, Last(p)) /\ Last(p) \in Names
  <2> SUFFICES ASSUME NEW p \in below PROVE p = Append(dir, Last(p)) /\ Last(p) \in Names
    OBVIOUS
  <2>1. p \in Seq(Names) /\ p # << >> /\ dir = SubSeq(p, 1, Len(p) - 1) /\ Last(p) = p[Len(p)]
    BY DEF Front, Last
  <2> DEFINE n == Len(p)
  <2>2. n \in Nat /\ n >= 1 /\ p[n] \in Names
    BY <2>1
  <2>3. Len(dir) = n - 1 /\ \A i \in 1 .. n - 1 : dir[i] = p[i]
    <3> DEFINE front == SubSeq(p, 1, n - 1)
    <3> HIDE DEF n
    <3>1. p \in Seq(Names) /\ n = Len(p) /\ n - 1 \in Nat
      BY <2>1, <2>2 DEF n
    <3> HIDE DEF below
    <3>2. Len(front) = n - 1 /\ \A i \in 1 .. n - 1 : front[i] = p[i]
      BY <3>1
    <3> HIDE DEF front
    <3> QED BY <2>1, <3>2 DEF front, n
  <2> DEFINE q == Append(dir, p[n])
  <2>4. q \in Seq(Names) /\ Len(q) = n /\ \A i \in 1 .. n : q[i] = p[i]
    BY <2>2, <2>3
  <2>5. q = p
    <3> HIDE DEF q, n
    <3> QED BY <2>1, <2>4, SeqEqual DEF n
  <2> QED BY <2>1, <2>2, <2>5
<1>4. \A name \in Names : Append(dir, name) \in paths => Append(dir, name) \in below
  <2> SUFFICES ASSUME NEW name \in Names, Append(dir, name) \in paths
               PROVE  Append(dir, name) \in below
    OBVIOUS
  <2> DEFINE q == Append(dir, name)  front == SubSeq(q, 1, Len(dir))
  <2>1. q \in Seq(Names) /\ Len(q) = Len(dir) + 1 /\ Len(dir) \in Nat
        /\ \A i \in 1 .. Len(dir) : q[i] = dir[i]
    OBVIOUS
  <2> HIDE DEF q
  <2>2. front \in Seq(Names) /\ Len(front) = Len(dir) /\ \A i \in 1 .. Len(dir) : front[i] = q[i]
    BY <2>1
  <2>3. front = dir
    <3> HIDE DEF front
    <3> QED BY <2>1, <2>2, SeqEqual
  <2>4. Front(q) = front
    BY <2>1 DEF Front
  <2> QED BY <2>1, <2>3, <2>4 DEF q
<1>5. \A name \in Names : Last(Append(dir, name)) = name
  BY DEF Last
<1>6. f \in Surjection(below, Under(paths, dir))
  BY <1>1 DEF Surjection
<1>7. IsFiniteSet(Under(paths, dir))
  BY <1>2, <1>6, FS_Surjection
<1> HIDE DEF below
<1>8. Under(paths, dir) \subseteq Names
  BY <1>1, <1>3
<1>9. ASSUME NEW name \in Names
      PROVE  name \in Under(paths, dir) <=> Append(dir, name) \in paths
  <2>1. ASSUME name \in Under(paths, dir) PROVE Append(dir, name) \in paths
    <3>1. PICK p \in below : name = Last(p)
      BY <1>1, <2>1
    <3> QED BY <1>3, <3>1 DEF below
  <2>2. ASSUME Append(dir, name) \in paths PROVE name \in Under(paths, dir)
    BY <1>1, <1>4, <1>5, <2>2
  <2> QED BY <2>1, <2>2
<1> QED BY <1>7, <1>8, <1>9

-------------------------------------------------------------------------------
\* What other processes do keeps the tree a tree.
Closed(ds, fs) ==
    \A path \in ds \cup fs :
      /\ path \in Seq(Names) /\ path # << >>
      /\ \A k \in 1 .. Len(path) - 1 : SubSeq(path, 1, k) \in ds

LEMMA TreeIs ==
  ASSUME NEW ds, NEW fs
  PROVE  IsTree([dirs |-> ds, files |-> fs]) <=>
           IsFiniteSet(ds) /\ IsFiniteSet(fs) /\ ds \cap fs = {} /\ Closed(ds, fs)
<1> QED BY DEF IsTree, Closed

LEMMA PrefixesOf ==
  ASSUME NEW dir \in Seq(Names), NEW name \in Names
  PROVE  /\ Append(dir, name) \in Seq(Names) /\ Append(dir, name) # << >>
         /\ Len(Append(dir, name)) - 1 = Len(dir)
         /\ \A k \in 1 .. Len(dir) : SubSeq(Append(dir, name), 1, k) = SubSeq(dir, 1, k)
         /\ SubSeq(dir, 1, Len(dir)) = dir
<1> DEFINE path == Append(dir, name)  n == Len(dir)
<1>1. path \in Seq(Names) /\ Len(path) = n + 1 /\ n \in Nat
      /\ \A i \in 1 .. n : path[i] = dir[i]
  OBVIOUS
<1>2. ASSUME NEW k \in 1 .. n PROVE SubSeq(path, 1, k) = SubSeq(dir, 1, k)
  <2> DEFINE s == SubSeq(path, 1, k)  t == SubSeq(dir, 1, k)
  <2> HIDE DEF path, n
  <2>1. s \in Seq(Names) /\ Len(s) = k /\ \A i \in 1 .. k : s[i] = path[i]
    BY <1>1
  <2>2. t \in Seq(Names) /\ Len(t) = k /\ \A i \in 1 .. k : t[i] = dir[i]
    BY <1>1 DEF n
  <2> HIDE DEF s, t
  <2>3. \A i \in 1 .. k : i \in 1 .. n
    BY <1>1
  <2>4. \A i \in 1 .. Len(s) : s[i] = t[i]
    BY <1>1, <2>1, <2>2, <2>3
  <2>5. s = t
    BY <2>1, <2>2, <2>4, SeqEqual
  <2> QED BY <2>5 DEF s, t
<1>3. SubSeq(dir, 1, n) = dir
  <2> DEFINE t == SubSeq(dir, 1, n)
  <2>1. t \in Seq(Names) /\ Len(t) = n /\ \A i \in 1 .. n : t[i] = dir[i]
    OBVIOUS
  <2> HIDE DEF t
  <2>2. t = dir
    BY <2>1, SeqEqual
  <2> QED BY <2>2 DEF t
<1>4. path # << >> /\ Len(path) - 1 = n
  BY <1>1
<1> HIDE DEF path, n
<1> QED BY <1>1, <1>2, <1>3, <1>4 DEF path, n

LEMMA TreeGrows ==
  ASSUME NEW ds, NEW fs, IsTree([dirs |-> ds, files |-> fs]),
         NEW dir \in ds \cup {<< >>}, NEW name \in Names, Append(dir, name) \notin ds \cup fs
  PROVE  /\ IsTree([dirs |-> ds \cup {Append(dir, name)}, files |-> fs])
         /\ IsTree([dirs |-> ds, files |-> fs \cup {Append(dir, name)}])
<1> DEFINE new == Append(dir, name)
<1>1. IsFiniteSet(ds) /\ IsFiniteSet(fs) /\ ds \cap fs = {} /\ Closed(ds, fs)
  BY TreeIs
<1>2. dir \in Seq(Names) /\ \A k \in 1 .. Len(dir) : SubSeq(dir, 1, k) \in ds
  <2>1. CASE dir = << >>
    BY <2>1
  <2>2. CASE dir \in ds
    <3>1. /\ dir \in Seq(Names)
          /\ \A k \in 1 .. Len(dir) - 1 : SubSeq(dir, 1, k) \in ds
      BY <1>1, <2>2 DEF Closed
    <3>2. SubSeq(dir, 1, Len(dir)) = dir
      BY <3>1, PrefixesOf
    <3>3. \A k \in 1 .. Len(dir) : k \in 1 .. Len(dir) - 1 \/ k = Len(dir)
      BY <3>1
    <3> QED BY <2>2, <3>1, <3>2, <3>3
  <2> QED BY <2>1, <2>2
<1>3. /\ new \in Seq(Names) /\ new # << >>
      /\ \A k \in 1 .. Len(new) - 1 : SubSeq(new, 1, k) \in ds
  <2>1. /\ new \in Seq(Names) /\ new # << >> /\ Len(new) - 1 = Len(dir)
        /\ \A k \in 1 .. Len(dir) : SubSeq(new, 1, k) = SubSeq(dir, 1, k)
    BY <1>2, PrefixesOf
  <2> HIDE DEF new
  <2> QED BY <1>2, <2>1
<1> HIDE DEF new
<1>4. Closed(ds \cup {new}, fs) /\ Closed(ds, fs \cup {new})
  BY <1>1, <1>3, Zenon DEF Closed
<1>5. IsFiniteSet(ds \cup {new}) /\ IsFiniteSet(fs \cup {new})
  BY <1>1, FS_AddElement
<1>6. (ds \cup {new}) \cap fs = {} /\ ds \cap (fs \cup {new}) = {}
  BY <1>1 DEF new
<1> QED BY <1>1, <1>4, <1>5, <1>6, TreeIs DEF new

LEMMA TreeShrinks ==
  ASSUME NEW ds, NEW fs, IsTree([dirs |-> ds, files |-> fs])
  PROVE  /\ \A path : IsTree([dirs |-> ds, files |-> fs \ {path}])
         /\ \A path : Under(ds \cup fs, path) = {} => IsTree([dirs |-> ds \ {path}, files |-> fs])
<1>1. IsFiniteSet(ds) /\ IsFiniteSet(fs) /\ ds \cap fs = {} /\ Closed(ds, fs)
  BY TreeIs
<1>2. ASSUME NEW path PROVE IsTree([dirs |-> ds, files |-> fs \ {path}])
  <2>1. IsFiniteSet(fs \ {path}) /\ ds \cap (fs \ {path}) = {} /\ Closed(ds, fs \ {path})
    BY <1>1, FS_RemoveElement DEF Closed
  <2> QED BY <1>1, <2>1, TreeIs
<1>3. ASSUME NEW path, Under(ds \cup fs, path) = {}
      PROVE  IsTree([dirs |-> ds \ {path}, files |-> fs])
  <2>1. ASSUME NEW p \in ds \cup fs, NEW k \in 1 .. Len(p) - 1, SubSeq(p, 1, k) = path PROVE FALSE
    <3> DEFINE q == SubSeq(p, 1, k + 1)
    <3>1. p \in Seq(Names) /\ Len(p) \in Nat /\ k + 1 \in 1 .. Len(p)
          /\ \A j \in 1 .. Len(p) - 1 : SubSeq(p, 1, j) \in ds
      BY <1>1 DEF Closed
    <3>2. q \in ds \cup fs
      <4>1. CASE k + 1 = Len(p)
        <5>1. q \in Seq(Names) /\ Len(q) = Len(p) /\ \A i \in 1 .. Len(p) : q[i] = p[i]
          BY <3>1, <4>1
        <5> HIDE DEF q
        <5>2. q = p
          BY <3>1, <5>1, SeqEqual
        <5> QED BY <5>2
      <4>2. CASE k + 1 # Len(p)
        <5>1. k + 1 \in 1 .. Len(p) - 1
          BY <3>1, <4>2
        <5> QED BY <3>1, <5>1
      <4> QED BY <4>1, <4>2
    <3>3. q \in Seq(Names) /\ Len(q) = k + 1 /\ \A i \in 1 .. k + 1 : q[i] = p[i]
      BY <3>1
    <3> HIDE DEF q
    <3>4. Front(q) = path
      <4> DEFINE f == SubSeq(q, 1, k)  g == SubSeq(p, 1, k)
      <4>1. f \in Seq(Names) /\ Len(f) = k /\ \A i \in 1 .. k : f[i] = p[i]
        BY <3>3
      <4>2. g \in Seq(Names) /\ Len(g) = k /\ \A i \in 1 .. k : g[i] = p[i]
        BY <3>1
      <4> HIDE DEF f, g
      <4>3. f = g
        BY <4>1, <4>2, SeqEqual
      <4>4. Front(q) = f
        BY <3>3 DEF Front, f
      <4> QED BY <2>1, <4>3, <4>4 DEF g
    <3>5. q # << >>
      BY <3>3
    <3>6. Last(q) \in Under(ds \cup fs, path)
      BY <3>2, <3>4, <3>5 DEF Under
    <3> QED BY <1>3, <3>6
  <2>2. Closed(ds \ {path}, fs)
    <3> SUFFICES ASSUME NEW p \in (ds \ {path}) \cup fs
                 PROVE  /\ p \in Seq(Names) /\ p # << >>
                        /\ \A k \in 1 .. Len(p) - 1 : SubSeq(p, 1, k) \in ds \ {path}
      BY DEF Closed
    <3>1. /\ p \in Seq(Names) /\ p # << >>
          /\ \A k \in 1 .. Len(p) - 1 : SubSeq(p, 1, k) \in ds
      BY <1>1 DEF Closed
    <3>2. \A k \in 1 .. Len(p) - 1 : SubSeq(p, 1, k) # path
      BY <2>1
    <3> QED BY <3>1, <3>2
  <2>3. IsFiniteSet(ds \ {path}) /\ (ds \ {path}) \cap fs = {}
    BY <1>1, FS_RemoveElement
  <2> QED BY <1>1, <2>2, <2>3, TreeIs
<1> QED BY <1>2, <1>3

LEMMA TreeChanges ==
  ASSUME TreeInv, EntryCreated \/ EntryRemoved PROVE TreeInv' /\ kept' \subseteq kept /\ seen \subseteq seen'
<1>1. IsTree([dirs |-> dirs, files |-> files]) /\ kept \subseteq files /\ files \subseteq seen
  BY DEF TreeInv
<1>2. CASE EntryCreated
  <2>1. PICK dir \in dirs \cup {<< >>}, name \in Names :
          /\ Append(dir, name) \notin dirs \cup files
          /\ \/ dirs' = dirs \cup {Append(dir, name)} /\ files' = files
             \/ files' = files \cup {Append(dir, name)} /\ dirs' = dirs
    BY <1>2 DEF EntryCreated
  <2>2. IsTree([dirs |-> dirs', files |-> files'])
    BY <1>1, <2>1, TreeGrows
  <2>3. kept' = kept /\ seen' = seen \cup files' /\ files \subseteq files'
    BY <1>2, <2>1 DEF EntryCreated
  <2> QED BY <1>1, <2>2, <2>3 DEF TreeInv
<1>3. CASE EntryRemoved
  <2>1. IsTree([dirs |-> dirs', files |-> files']) /\ files' \subseteq files
    <3>1. CASE \E path \in files : files' = files \ {path} /\ UNCHANGED dirs
      BY <1>1, <3>1, TreeShrinks
    <3>2. CASE \E path \in dirs : /\ Under(dirs \cup files, path) = {}
                                  /\ dirs' = dirs \ {path} /\ UNCHANGED files
      BY <1>1, <3>2, TreeShrinks
    <3> QED BY <1>3, <3>1, <3>2 DEF EntryRemoved
  <2>2. kept' = kept \cap files' /\ seen' = seen
    BY <1>3 DEF EntryRemoved
  <2> QED BY <1>1, <2>1, <2>2 DEF TreeInv
<1> QED BY <1>2, <1>3

LEMMA TreeKept == ASSUME TreeInv, UNCHANGED Tree PROVE TreeInv'
BY DEF TreeInv, Tree

-------------------------------------------------------------------------------
\* The names in a text that has a '/' at every second place.
Alternates(s) ==
    \A k \in 1 .. Len(s) : /\ 2 * k - 1 <= Len(s) => s[2 * k - 1] = SLASH
                           /\ 2 * k <= Len(s) => s[2 * k] \in Names
EveryOther(path, s) ==
    /\ path \in Seq(Names)
    /\ 2 * Len(path) = Len(s) \/ 2 * Len(path) + 1 = Len(s)
    /\ \A k \in 1 .. Len(path) : path[k] = s[2 * k]
HasEntered(base, path, s) == base = << >> /\ Alternates(s) => EveryOther(path, s)
Enters == INSTANCE Folding WITH op <- Entered, Inv <- HasEntered

LEMMA EnteredKeeps ==
  \A base, path, s, c : (s \in Seq(Int) /\ c \in Int /\ HasEntered(base, path, s))
                           => HasEntered(base, Entered(path, c), Append(s, c))
<1> SUFFICES ASSUME NEW base, NEW path, NEW s \in Seq(Int), NEW c \in Int,
                    HasEntered(base, path, s), base = << >>, Alternates(Append(s, c))
             PROVE  EveryOther(Entered(path, c), Append(s, c))
  BY DEF HasEntered
<1> DEFINE n == Len(s)  longer == Append(s, c)
<1>1. n \in Nat /\ longer \in Seq(Int) /\ Len(longer) = n + 1 /\ longer[n + 1] = c
      /\ \A i \in 1 .. n : longer[i] = s[i]
  OBVIOUS
<1> HIDE DEF longer
<1>a. \A k \in 1 .. n + 1 : /\ 2 * k - 1 <= n + 1 => longer[2 * k - 1] = SLASH
                            /\ 2 * k <= n + 1 => longer[2 * k] \in Names
  BY <1>1 DEF Alternates, longer
<1>2. Alternates(s)
  <2> SUFFICES ASSUME NEW k \in 1 .. n
               PROVE  /\ 2 * k - 1 <= n => s[2 * k - 1] = SLASH
                      /\ 2 * k <= n => s[2 * k] \in Names
    BY DEF Alternates
  <2> HIDE DEF n
  <2>0. k \in 1 .. n + 1
    BY <1>1
  <2>1. ASSUME 2 * k - 1 <= n PROVE s[2 * k - 1] = SLASH
    <3>1. 2 * k - 1 \in 1 .. n /\ 2 * k - 1 <= n + 1
      BY <1>1, <2>1
    <3>2. longer[2 * k - 1] = SLASH
      BY <1>a, <2>0, <3>1
    <3> QED BY <1>1, <3>1, <3>2
  <2>2. ASSUME 2 * k <= n PROVE s[2 * k] \in Names
    <3>1. 2 * k \in 1 .. n /\ 2 * k <= n + 1
      BY <1>1, <2>2
    <3>2. longer[2 * k] \in Names
      BY <1>a, <2>0, <3>1
    <3> QED BY <1>1, <3>1, <3>2
  <2> QED BY <2>1, <2>2
<1>3. /\ path \in Seq(Names) /\ (2 * Len(path) = n \/ 2 * Len(path) + 1 = n)
      /\ \A k \in 1 .. Len(path) : path[k] = s[2 * k]
  BY <1>2 DEF HasEntered, EveryOther
<1> DEFINE p == Len(path)
<1>4. p \in Nat
  BY <1>3
<1>5. CASE 2 * p = n
  <2>1. c = SLASH
    <3>1. p + 1 \in 1 .. n + 1 /\ 2 * (p + 1) - 1 = n + 1
      BY <1>4, <1>5
    <3> QED BY <1>1, <3>1 DEF Alternates, longer
  <2>2. Entered(path, c) = path
    BY <2>1 DEF Entered
  <2>3. \A k \in 1 .. p : path[k] = longer[2 * k]
    <3> SUFFICES ASSUME NEW k \in 1 .. p PROVE path[k] = longer[2 * k]
      OBVIOUS
    <3>1. 2 * k \in 1 .. n
      BY <1>4, <1>5
    <3> QED BY <1>1, <1>3, <3>1
  <2> QED BY <1>1, <1>3, <1>5, <2>2, <2>3 DEF EveryOther, longer
<1>6. CASE 2 * p + 1 = n
  <2>1. c \in Names /\ 2 * (p + 1) = n + 1
    <3>1. p + 1 \in 1 .. n + 1 /\ 2 * (p + 1) = n + 1
      BY <1>4, <1>6
    <3>2. longer[2 * (p + 1)] \in Names
      BY <1>1, <3>1 DEF Alternates, longer
    <3> QED BY <1>1, <3>1, <3>2
  <2> DEFINE q == Append(path, c)
  <2>2. Entered(path, c) = q
    BY <2>1, DirectoryAssumption DEF Entered
  <2>3. q \in Seq(Names) /\ Len(q) = p + 1 /\ q[p + 1] = c /\ \A k \in 1 .. p : q[k] = path[k]
    BY <1>3, <2>1
  <2> HIDE DEF q
  <2>4. \A k \in 1 .. p + 1 : q[k] = longer[2 * k]
    <3> SUFFICES ASSUME NEW k \in 1 .. p + 1 PROVE q[k] = longer[2 * k]
      OBVIOUS
    <3>1. CASE k = p + 1
      BY <1>1, <2>1, <2>3, <3>1
    <3>2. CASE k \in 1 .. p
      <4>1. 2 * k \in 1 .. n
        BY <1>4, <1>6, <3>2
      <4> QED BY <1>1, <1>3, <2>3, <3>2, <4>1
    <3> QED BY <1>4, <3>1, <3>2
  <2> HIDE DEF p
  <2>5. EveryOther(q, longer)
    BY <1>1, <2>1, <2>3, <2>4 DEF EveryOther
  <2> QED BY <2>2, <2>5 DEF longer
<1> QED BY <1>3, <1>5, <1>6

LEMMA NamedIs ==
  ASSUME NEW t \in Seq(Int), NEW n \in Nat, Len(t) = 2 * n + 1,
         \A k \in 1 .. n : t[2 * k] = SLASH /\ t[2 * k + 1] \in Names
  PROVE  Named(t) \in Seq(Names) /\ Len(Named(t)) = n /\ \A k \in 1 .. n : Named(t)[k] = t[2 * k + 1]
<1> DEFINE s == SubSeq(t, Len(Start) + 1, Len(t))
<1>1. s \in Seq(Int) /\ Len(s) = 2 * n /\ \A i \in 1 .. 2 * n : s[i] = t[i + 1]
  <2>1. Len(Start) + 1 = 2
    BY DEF Start
  <2>2. s = SubSeq(t, 2, 2 * n + 1)
    BY <2>1
  <2> HIDE DEF s
  <2> QED BY <2>2
<1>2. Named(t) = FoldLeft(Entered, << >>, s)
  BY DEF Named
<1> HIDE DEF s
<1>3. Alternates(s)
  <2> SUFFICES ASSUME NEW k \in 1 .. Len(s)
               PROVE  /\ 2 * k - 1 <= Len(s) => s[2 * k - 1] = SLASH
                      /\ 2 * k <= Len(s) => s[2 * k] \in Names
    BY DEF Alternates
  <2>1. ASSUME 2 * k - 1 <= Len(s) PROVE k \in 1 .. n /\ s[2 * k - 1] = t[2 * k]
    <3>1. 2 * k - 1 \in 1 .. 2 * n /\ (2 * k - 1) + 1 = 2 * k /\ k \in 1 .. n
      BY <1>1, <2>1
    <3> QED BY <1>1, <3>1
  <2>2. ASSUME 2 * k <= Len(s) PROVE k \in 1 .. n /\ s[2 * k] = t[2 * k + 1]
    <3>1. 2 * k \in 1 .. 2 * n /\ k \in 1 .. n
      BY <1>1, <2>2
    <3> QED BY <1>1, <3>1
  <2> QED BY <2>1, <2>2
<1>4. HasEntered(<< >>, << >>, << >>)
  BY DEF HasEntered, EveryOther
<1>5. HasEntered(<< >>, Enters!Folded(<< >>, s), s)
  <2>1. \A seq \in Seq(Int) : HasEntered(<< >>, Enters!Folded(<< >>, seq), seq)
    BY <1>4, EnteredKeeps, Enters!FoldLeftInduction
  <2> QED BY <1>1, <2>1
<1>6. Enters!Folded(<< >>, s) = FoldLeft(Entered, << >>, s)
  BY DEF Enters!Folded, Enters!FoldLeft, FoldLeft, Enters!MapThenFoldSet, MapThenFoldSet,
         Enters!Max, Max
<1> DEFINE path == Named(t)
<1>7. /\ path \in Seq(Names) /\ (2 * Len(path) = Len(s) \/ 2 * Len(path) + 1 = Len(s))
      /\ \A k \in 1 .. Len(path) : path[k] = s[2 * k]
  BY <1>2, <1>3, <1>5, <1>6 DEF HasEntered, EveryOther
<1> HIDE DEF path
<1>8. Len(path) = n
  <2>1. Len(path) \in Nat
    BY <1>7
  <2> QED BY <1>1, <1>7, <2>1
<1>9. \A k \in 1 .. n : path[k] = t[2 * k + 1]
  <2> SUFFICES ASSUME NEW k \in 1 .. n PROVE path[k] = t[2 * k + 1]
    OBVIOUS
  <2>1. 2 * k \in 1 .. 2 * n
    OBVIOUS
  <2> QED BY <1>1, <1>7, <1>8, <2>1
<1> QED BY <1>7, <1>8, <1>9 DEF path

LEMMA NamesAreNumbers == Names \subseteq Int /\ \A s \in Seq(Names) : s \in Seq(Int)
<1>1. Names \subseteq Int
  BY DirectoryAssumption
<1>2. ASSUME NEW s \in Seq(Names) PROVE s \in Seq(Int)
  <2>1. s \in [1 .. Len(s) -> Names] /\ Len(s) \in Nat
    OBVIOUS
  <2>2. s \in [1 .. Len(s) -> Int]
    BY <1>1, <2>1
  <2> QED BY <2>1, <2>2
<1> QED BY <1>1, <1>2

\* The names that match, in their order.
MatchedOf(r, s) ==
    /\ r \in Seq(Names)
    /\ \A i \in 1 .. Len(r) : r[i] \in Matching /\ \E j \in 1 .. Len(s) : r[i] = s[j]
    /\ \A j \in 1 .. Len(s) : s[j] \in Matching => \E i \in 1 .. Len(r) : r[i] = s[j]
    /\ IsIncreasing(s) => IsIncreasing(r)
AreMatched(base, r, s) == base = << >> => MatchedOf(r, s)
Matchings == INSTANCE Folding WITH op <- Matched, Inv <- AreMatched

LEMMA MatchedKeeps ==
  \A base, r, s, name : (s \in Seq(Names) /\ name \in Names /\ AreMatched(base, r, s))
                           => AreMatched(base, Matched(r, name), Append(s, name))
<1> SUFFICES ASSUME NEW base, NEW r, NEW s \in Seq(Names), NEW name \in Names, MatchedOf(r, s)
             PROVE  MatchedOf(Matched(r, name), Append(s, name))
  BY DEF AreMatched
<1> DEFINE n == Len(s)  longer == Append(s, name)  m == Len(r)  after == Append(r, name)
<1>1. n \in Nat /\ longer \in Seq(Names) /\ Len(longer) = n + 1 /\ longer[n + 1] = name
      /\ \A i \in 1 .. n : longer[i] = s[i]
  OBVIOUS
<1>2. /\ r \in Seq(Names) /\ m \in Nat
      /\ \A i \in 1 .. m : r[i] \in Matching /\ \E j \in 1 .. n : r[i] = s[j]
      /\ \A j \in 1 .. n : s[j] \in Matching => \E i \in 1 .. m : r[i] = s[j]
      /\ IsIncreasing(s) => IsIncreasing(r)
  BY DEF MatchedOf
<1>3. after \in Seq(Names) /\ Len(after) = m + 1 /\ after[m + 1] = name
      /\ \A i \in 1 .. m : after[i] = r[i]
  BY <1>2
<1>4. \A i \in Int : i \in 1 .. n + 1 => i \in 1 .. n \/ i = n + 1
  BY <1>1
<1>5. \A i \in Int : i \in 1 .. m + 1 => i \in 1 .. m \/ i = m + 1
  BY <1>2
<1> HIDE DEF longer, after, n, m
<1>6. ASSUME IsIncreasing(longer)
      PROVE  IsIncreasing(s) /\ \A i \in 1 .. n : s[i] < name
  <2>1. \A i, j \in 1 .. n + 1 : i < j => longer[i] < longer[j]
    BY <1>1, <1>6 DEF IsIncreasing
  <2>2. \A i, j \in 1 .. n : i < j => s[i] < s[j]
    BY <1>1, <2>1
  <2>3. \A i \in 1 .. n : longer[i] < longer[n + 1]
    BY <1>1, <2>1
  <2> QED BY <1>1, <2>2, <2>3 DEF IsIncreasing, n
<1>7. CASE name \in Matching
  <2>1. Matched(r, name) = after
    BY <1>7 DEF Matched, after
  <2>2. \A i \in 1 .. m + 1 : after[i] \in Matching /\ \E j \in 1 .. n + 1 : after[i] = longer[j]
    <3> SUFFICES ASSUME NEW i \in 1 .. m + 1
                 PROVE  after[i] \in Matching /\ \E j \in 1 .. n + 1 : after[i] = longer[j]
      OBVIOUS
    <3>1. CASE i = m + 1
      BY <1>1, <1>3, <1>7, <3>1
    <3>2. CASE i \in 1 .. m
      <4>1. PICK j \in 1 .. n : r[i] = s[j]
        BY <1>2, <3>2
      <4>2. j \in 1 .. n + 1 /\ after[i] = longer[j] /\ after[i] \in Matching
        BY <1>1, <1>2, <1>3, <3>2, <4>1
      <4> QED BY <4>2
    <3> QED BY <1>5, <3>1, <3>2
  <2>3. \A j \in 1 .. n + 1 : longer[j] \in Matching => \E i \in 1 .. m + 1 : after[i] = longer[j]
    <3> SUFFICES ASSUME NEW j \in 1 .. n + 1, longer[j] \in Matching
                 PROVE  \E i \in 1 .. m + 1 : after[i] = longer[j]
      OBVIOUS
    <3>1. CASE j = n + 1
      <4>1. m + 1 \in 1 .. m + 1
        BY <1>2
      <4> QED BY <1>1, <1>3, <3>1, <4>1
    <3>2. CASE j \in 1 .. n
      <4>1. PICK i \in 1 .. m : r[i] = s[j]
        BY <1>1, <1>2, <3>2
      <4>2. i \in 1 .. m + 1 /\ after[i] = longer[j]
        BY <1>1, <1>2, <1>3, <3>2, <4>1
      <4> QED BY <4>2
    <3> QED BY <1>4, <3>1, <3>2
  <2>4. IsIncreasing(longer) => IsIncreasing(after)
    <3> SUFFICES ASSUME IsIncreasing(longer), NEW i \in 1 .. m + 1, NEW j \in 1 .. m + 1, i < j
                 PROVE  after[i] < after[j]
      BY <1>3 DEF IsIncreasing
    <3>1. i \in 1 .. m
      BY <1>2
    <3>2. CASE j \in 1 .. m
      <4>1. r[i] < r[j]
        BY <1>2, <1>6, <3>1, <3>2 DEF IsIncreasing, m
      <4> QED BY <1>3, <3>1, <3>2, <4>1
    <3>3. CASE j = m + 1
      <4>1. PICK k \in 1 .. n : r[i] = s[k]
        BY <1>2, <3>1
      <4>2. s[k] < name
        BY <1>6
      <4> QED BY <1>3, <3>1, <3>3, <4>1, <4>2
    <3> QED BY <1>5, <3>2, <3>3
  <2>5. MatchedOf(after, longer)
    BY <1>1, <1>3, <2>2, <2>3, <2>4, Zenon DEF MatchedOf
  <2> QED BY <2>1, <2>5 DEF longer
<1>8. CASE name \notin Matching
  <2>1. Matched(r, name) = r
    BY <1>8 DEF Matched
  <2>2. \A i \in 1 .. m : r[i] \in Matching /\ \E j \in 1 .. n + 1 : r[i] = longer[j]
    <3> SUFFICES ASSUME NEW i \in 1 .. m
                 PROVE  r[i] \in Matching /\ \E j \in 1 .. n + 1 : r[i] = longer[j]
      OBVIOUS
    <3>1. PICK j \in 1 .. n : r[i] = s[j]
      BY <1>2
    <3>2. j \in 1 .. n + 1 /\ r[i] = longer[j] /\ r[i] \in Matching
      BY <1>1, <1>2, <3>1
    <3> QED BY <3>2
  <2>3. \A j \in 1 .. n + 1 : longer[j] \in Matching => \E i \in 1 .. m : r[i] = longer[j]
    <3> SUFFICES ASSUME NEW j \in 1 .. n + 1, longer[j] \in Matching
                 PROVE  \E i \in 1 .. m : r[i] = longer[j]
      OBVIOUS
    <3>1. j \in 1 .. n
      BY <1>1, <1>4, <1>8
    <3> QED BY <1>1, <1>2, <3>1
  <2>4. MatchedOf(r, longer)
    BY <1>1, <1>2, <1>6, <2>2, <2>3, Zenon DEF MatchedOf, m
  <2> QED BY <2>1, <2>4 DEF longer
<1> QED BY <1>7, <1>8

LEMMA MatchesAre ==
  ASSUME Call.files \in Seq(Names) PROVE MatchedOf(Matches, Call.files)
<1>1. AreMatched(<< >>, << >>, << >>)
  BY DEF AreMatched, MatchedOf, IsIncreasing
<1>2. AreMatched(<< >>, Matchings!Folded(<< >>, Call.files), Call.files)
  <2>1. \A seq \in Seq(Names) : AreMatched(<< >>, Matchings!Folded(<< >>, seq), seq)
    BY <1>1, MatchedKeeps, Matchings!FoldLeftInduction
  <2> QED BY <2>1
<1>3. Matchings!Folded(<< >>, Call.files) = Matches
  BY DEF Matches, Matchings!Folded, Matchings!FoldLeft, FoldLeft, Matchings!MapThenFoldSet,
         MapThenFoldSet, Matchings!Max, Max
<1> QED BY <1>2, <1>3 DEF AreMatched

-------------------------------------------------------------------------------
\* The steps of a walk.
LEMMA DirInitInv == ASSUME DirInit PROVE DirInv
<1>1. text = <<-1>> /\ text = Start /\ calls = << >> /\ dirAt = "open"
      /\ dirPath = createDirPath(Len(Start)) /\ kept = files /\ seen = files
  BY DEF DirInit, Start
<1>2. TreeInv
  <2>1. PICK tree \in Trees : dirs = tree.dirs /\ files = tree.files
    BY DEF DirInit
  <2>2. IsTree(tree)
    BY DirectoryAssumption
  <2>3. IsTree([dirs |-> dirs, files |-> files])
    BY <2>1, <2>2 DEF IsTree
  <2> QED BY <1>1, <2>3 DEF TreeInv
<1>3. dirPath \in PathBuilders /\ IsWhole(dirPath, 1)
  <2> DEFINE size == 1 + DIRPATH_BUFFER_SIZE
  <2>1. size \in Nat /\ size # 0
    BY DirectoryAssumption
  <2>2. Len(Start) = 1
    BY DEF Start
  <2>3. dirPath = [[length |-> 0, size |-> size, room |-> size, nul |-> 0,
                    aborted |-> FALSE, overrun |-> FALSE] EXCEPT !.length = 1, !.nul = 1]
    BY <1>1, <2>2 DEF createDirPath, DP!createStringBuilder_uint32
  <2> HIDE DEF size
  <2>4. dirPath = [length |-> 1, size |-> size, room |-> size, nul |-> 1,
                   aborted |-> FALSE, overrun |-> FALSE]
    BY <2>3
  <2> QED BY <2>1, <2>4 DEF PathBuilders, IsWhole
<1>4. text \in Seq(Int) /\ Len(text) = 1 /\ text # << >> /\ text[1] = Start[1]
  BY <1>1 DEF Start
<1>5. PathInv
  BY <1>1, <1>3, <1>4 DEF PathInv
<1>6. CallsInv
  <2>1. calls \in Seq(Calls) /\ Len(calls) = 0
    BY <1>1
  <2>2. IsPath(text, calls, dirAt = "open")
    BY <1>1, <1>4, <2>1 DEF IsPath
  <2>3. dirAt # "walk"
    BY <1>1
  <2>4. \A k \in 1 .. Len(calls) : calls[k].dirPathLen = 2 * k
    BY <2>1
  <2> QED BY <2>1, <2>2, <2>3, <2>4, Zenon DEF CallsInv
<1> QED BY <1>2, <1>5, <1>6 DEF DirInv

\* The text and its builder after a path was lengthened by a character.
IsLonger(c, next) ==
    /\ text' \in Seq(Int) /\ text' # << >>
    /\ Len(text') = Len(text) + 1 /\ text'[Len(text) + 1] = c
    /\ \A i \in 1 .. Len(text) : text'[i] = text[i]
    /\ dirPath' \in PathBuilders /\ IsWhole(dirPath', Len(text'))
    /\ dirAt' \in {next, "overrun"}

LEMMA Lengthened ==
  ASSUME PathInv, NEW sb \in PathBuilders, IsWhole(sb, Len(text) + 1),
         NEW c \in Int, NEW next, Lengthens(sb, <<c>>, next)
  PROVE  IsLonger(c, next)
<1>1. text \in Seq(Int)
  BY DEF PathInv
<1>2. text' = text \o <<c>> /\ dirPath' = sb /\ dirAt' \in {next, "overrun"}
  BY DEF Lengthens
<1>3. text' \in Seq(Int) /\ Len(text') = Len(text) + 1 /\ text'[Len(text) + 1] = c
      /\ \A i \in 1 .. Len(text) : text'[i] = text[i]
  BY <1>1, <1>2
<1>4. text' # << >>
  <2>1. Len(text) \in Nat
    BY <1>1
  <2> QED BY <1>3, <2>1
<1> QED BY <1>2, <1>3, <1>4 DEF IsLonger

\* Each call is one, and the directory it went into last is one of its own.
LEMMA CallIs ==
  ASSUME CallsInv, NEW k \in 1 .. Len(calls)
  PROVE  /\ calls[k] \in Calls
         /\ calls[k].subdirs \in Seq(Names) /\ calls[k].files \in Seq(Names)
         /\ IsIncreasing(calls[k].subdirs) /\ IsIncreasing(calls[k].files)
         /\ calls[k].next \in 1 .. Len(calls[k].subdirs) + 1
         /\ \A i \in DOMAIN calls[k].subdirs, j \in DOMAIN calls[k].files :
               calls[k].subdirs[i] # calls[k].files[j]
         /\ calls[k].dirPathLen = 2 * k
<1>1. calls[k] \in Calls
  BY DEF CallsInv
<1> QED BY <1>1 DEF Calls, CallsInv

\* The text of a path has the directories of its calls.
LEMMA TextIs ==
  ASSUME PathInv, CallsInv, dirAt \in {"open", "walk"}
  PROVE  /\ text \in Seq(Int) /\ text[1] = Start[1]
         /\ Len(text) = 2 * Len(calls) + IF dirAt = "open" THEN 1 ELSE 0
         /\ \A k \in 1 .. Len(calls) : text[2 * k] = SLASH
         /\ \A k \in 1 .. Len(calls) : 2 * k + 1 <= Len(text) =>
              /\ calls[k].next - 1 \in 1 .. Len(calls[k].subdirs)
              /\ text[2 * k + 1] = calls[k].subdirs[calls[k].next - 1]
              /\ text[2 * k + 1] \in Names
<1>1. IsPath(text, calls, dirAt = "open")
  BY DEF CallsInv
<1>2. ASSUME NEW k \in 1 .. Len(calls), 2 * k + 1 <= Len(text)
      PROVE  /\ calls[k].next - 1 \in 1 .. Len(calls[k].subdirs)
             /\ text[2 * k + 1] = calls[k].subdirs[calls[k].next - 1]
             /\ text[2 * k + 1] \in Names
  <2> DEFINE call == calls[k]
  <2>1. call.next >= 2 /\ text[2 * k + 1] = call.subdirs[call.next - 1]
    BY <1>1, <1>2 DEF IsPath
  <2>2. call.subdirs \in Seq(Names) /\ call.next \in 1 .. Len(call.subdirs) + 1
    BY CallIs
  <2> HIDE DEF call
  <2>3. call.next - 1 \in 1 .. Len(call.subdirs)
    BY <2>1, <2>2
  <2>4. call.subdirs[call.next - 1] \in Names
    BY <2>2, <2>3
  <2> QED BY <2>1, <2>3, <2>4 DEF call
<1> QED BY <1>1, <1>2, Zenon DEF IsPath, PathInv

\* The directory that is to be opened has the name of each call's subdirectory.
LEMMA DirIs ==
  ASSUME PathInv, CallsInv, dirAt = "open"
  PROVE  /\ Named(text) \in Seq(Names) /\ Len(Named(text)) = Len(calls)
         /\ \A k \in 1 .. Len(calls) : Named(text)[k] = text[2 * k + 1]
<1> DEFINE n == Len(calls)
<1>1. n \in Nat
  BY DEF CallsInv
<1>2. text \in Seq(Int) /\ Len(text) = 2 * n + 1
  BY TextIs
<1>3. \A k \in 1 .. n : text[2 * k] = SLASH /\ text[2 * k + 1] \in Names
  <2> SUFFICES ASSUME NEW k \in 1 .. n PROVE text[2 * k] = SLASH /\ text[2 * k + 1] \in Names
    OBVIOUS
  <2>1. 2 * k + 1 <= Len(text)
    BY <1>1, <1>2
  <2> QED BY <2>1, TextIs
<1> HIDE DEF n
<1>4. Named(text) \in Seq(Names) /\ Len(Named(text)) = n
      /\ \A k \in 1 .. n : Named(text)[k] = text[2 * k + 1]
  BY <1>1, <1>2, <1>3, NamedIs
<1> QED BY <1>4 DEF n

\* A call begins with all that is in its directory, in order.
IsOpened(call) ==
    /\ call \in Calls /\ call.next = 1 /\ call.dirPathLen = Len(text) + 1
    /\ IsListOf(call.subdirs, Under(dirs, Named(text)))
    /\ IsListOf(call.files, Under(files, Named(text)))
    /\ calls' = Append(calls, call)

LEMMA Opened ==
  ASSUME DirInv, OpenDirectory
  PROVE  /\ dirAt = "open" /\ Named(text) \in Seq(Names)
         /\ Named(text) = << >> \/ Named(text) \in dirs
         /\ \E call : IsOpened(call)
         /\ IsLonger(SLASH, "walk") /\ UNCHANGED Tree /\ walk' = walk
         /\ walk = "find" => found' = found
<1> DEFINE dir == Named(text)  S == Under(dirs, dir)  F == Under(files, dir)
<1>1. PathInv /\ CallsInv /\ TreeInv /\ dirAt = "open" /\ text \in Seq(Int)
  BY DEF DirInv, OpenDirectory, PathInv
<1>2. dir \in Seq(Names)
  BY <1>1, DirIs
<1>3. IsFiniteSet(dirs) /\ IsFiniteSet(files) /\ dirs \cap files = {} /\ Closed(dirs, files)
  BY <1>1, TreeIs DEF TreeInv
<1>4. dirs \in SUBSET (Seq(Names) \ {<< >>}) /\ files \in SUBSET (Seq(Names) \ {<< >>})
  BY <1>3 DEF Closed
<1>5. /\ IsFiniteSet(S) /\ S \subseteq Names
      /\ \A name \in Names : name \in S <=> Append(dir, name) \in dirs
  BY <1>2, <1>3, <1>4, UnderIs
<1>6. /\ IsFiniteSet(F) /\ F \subseteq Names
      /\ \A name \in Names : name \in F <=> Append(dir, name) \in files
  BY <1>2, <1>3, <1>4, UnderIs
<1>7. S \cap F = {}
  BY <1>3, <1>5, <1>6
<1> HIDE DEF S, F
<1>8. PICK s \in SetToSeqs(S), f \in SetToSeqs(F) :
        /\ dir = << >> \/ dir \in dirs
        /\ calls' = Append(calls, [subdirs |-> sortPtrArray(s).a, files |-> sortPtrArray(f).a,
                                   next |-> 1, dirPathLen |-> Len(text) + 1])
        /\ walk = "find" => found' = found
  BY DEF OpenDirectory, readDirectory, S, F
<1> DEFINE subdirs == sortPtrArray(s).a  fs == sortPtrArray(f).a
           call == [subdirs |-> subdirs, files |-> fs, next |-> 1, dirPathLen |-> Len(text) + 1]
<1>9. IsListOf(subdirs, S) /\ IsListOf(fs, F)
  <2>1. S \in SUBSET Int /\ F \in SUBSET Int
    BY <1>5, <1>6, DirectoryAssumption
  <2> QED BY <1>5, <1>6, <2>1, SortedNames
<1>10. calls' = Append(calls, call)
  BY <1>8
<1> HIDE DEF subdirs, fs
<1>11. call \in Calls
  <2>1. subdirs \in Seq(S) /\ fs \in Seq(F) /\ IsIncreasing(subdirs) /\ IsIncreasing(fs)
    BY <1>9 DEF IsListOf
  <2>2. subdirs \in Seq(Names) /\ fs \in Seq(Names)
    BY <1>5, <1>6, <2>1
  <2>3. \A i \in DOMAIN subdirs, j \in DOMAIN fs : subdirs[i] # fs[j]
    <3> SUFFICES ASSUME NEW i \in DOMAIN subdirs, NEW j \in DOMAIN fs PROVE subdirs[i] # fs[j]
      OBVIOUS
    <3>1. subdirs[i] \in S /\ fs[j] \in F
      BY <2>1
    <3> QED BY <1>7, <3>1
  <2>4. Len(text) + 1 \in Nat /\ 1 \in 1 .. Len(subdirs) + 1
    BY <1>1, <2>1
  <2> QED BY <2>1, <2>2, <2>3, <2>4 DEF Calls
<1>12. call.next = 1 /\ call.dirPathLen = Len(text) + 1 /\ call.subdirs = subdirs /\ call.files = fs
  OBVIOUS
<1> HIDE DEF call
<1>13. IsOpened(call)
  BY <1>9, <1>10, <1>11, <1>12, Zenon DEF IsOpened, S, F
<1>14. IsLonger(SLASH, "walk")
  <2> DEFINE sb == DP!append_char(dirPath)  n == Len(text)
  <2>1. n \in Nat \ {0} /\ dirPath \in PathBuilders /\ IsWhole(dirPath, n)
    <3>1. Len(text) \in Nat /\ Len(text) # 0
      BY <1>1, TextIs DEF PathInv
    <3> QED BY <1>1, <3>1 DEF PathInv
  <2> HIDE DEF n
  <2>2. sb \in PathBuilders /\ IsWhole(sb, n + 1)
    BY <2>1, LengthenedPath
  <2>3. Lengthens(sb, <<SLASH>>, "walk")
    BY DEF OpenDirectory
  <2> HIDE DEF sb
  <2>4. SLASH \in Int
    BY DEF SLASH
  <2> QED BY <1>1, <2>2, <2>3, <2>4, Lengthened DEF n
<1>15. UNCHANGED Tree /\ walk' = walk
  BY DEF OpenDirectory
<1> QED BY <1>1, <1>2, <1>8, <1>13, <1>14, <1>15

\* Going into a subdirectory, a call puts its name behind the path.
LEMMA Descended ==
  ASSUME DirInv, Descend
  PROVE  LET n == Len(calls) IN
         /\ n \in Nat \ {0} /\ dirAt = "walk"
         /\ calls[n].next <= Len(calls[n].subdirs)
         /\ IsLonger(calls[n].subdirs[calls[n].next], "open")
         /\ calls' = [calls EXCEPT ![n].next = @ + 1]
         /\ UNCHANGED Tree /\ walk' = walk /\ found' = found
<1> DEFINE n == Len(calls)  name == calls[n].subdirs[calls[n].next]
<1>1. PathInv /\ CallsInv /\ dirAt = "walk"
  BY DEF DirInv, Descend
<1>2. calls \in Seq(Calls) /\ n \in Nat \ {0} /\ Call = calls[n]
  BY <1>1 DEF CallsInv, Call, Last
<1>3. calls[n].next <= Len(calls[n].subdirs)
  BY <1>2 DEF Descend
<1>4. name \in Int
  <2> DEFINE call == calls[n]
  <2>1. call.subdirs \in Seq(Names) /\ call.next \in 1 .. Len(call.subdirs) + 1
    BY <1>1, <1>2, CallIs
  <2>2. call.next <= Len(call.subdirs)
    BY <1>3
  <2> HIDE DEF call
  <2>3. call.subdirs[call.next] \in Names
    BY <2>1, <2>2
  <2> QED BY <2>3, DirectoryAssumption DEF call
<1> DEFINE sb == DP!append_string(dirPath, 1)  m == Len(text)
<1>5. m \in Nat \ {0} /\ dirPath \in PathBuilders /\ IsWhole(dirPath, m)
  <2>1. Len(text) \in Nat /\ Len(text) # 0
    BY <1>1, TextIs DEF PathInv
  <2> QED BY <1>1, <2>1 DEF PathInv
<1> HIDE DEF m
<1>6. sb \in PathBuilders /\ IsWhole(sb, m + 1)
  BY <1>5, LengthenedPath
<1>7. Lengthens(sb, <<name>>, "open")
  BY <1>2 DEF Descend
<1> HIDE DEF sb, name
<1>8. IsLonger(name, "open")
  BY <1>1, <1>4, <1>6, <1>7, Lengthened DEF m
<1>9. calls' = [calls EXCEPT ![n].next = @ + 1] /\ UNCHANGED Tree /\ walk' = walk /\ found' = found
  BY DEF Descend
<1> QED BY <1>1, <1>2, <1>3, <1>8, <1>9 DEF name

\* The end of a call leaves its text cut to the path of its caller.
LEMMA Returned ==
  ASSUME DirInv, Return
  PROVE  LET n == Len(calls)
             m == IF n = 1 THEN 1 ELSE 2 * (n - 1)
         IN
         /\ n \in Nat \ {0} /\ dirAt = "walk"
         /\ text' \in Seq(Int) /\ Len(text') = m /\ m \in 1 .. Len(text)
         /\ \A i \in 1 .. m : text'[i] = text[i]
         /\ dirPath' \in PathBuilders /\ IsWhole(dirPath', m)
         /\ dirAt' \in {IF n = 1 THEN "done" ELSE "walk", "overrun"}
         /\ calls' \in Seq(Calls) /\ Len(calls') = n - 1
         /\ \A k \in 1 .. n - 1 : calls'[k] = calls[k]
         /\ UNCHANGED Tree /\ walk' = walk
<1> DEFINE n == Len(calls)
           m == IF n = 1 THEN 1 ELSE 2 * (n - 1)
           sb == IF walk = "find" THEN CreatesStrings ELSE dirPath
<1>1. PathInv /\ CallsInv /\ dirAt = "walk"
  BY DEF DirInv, Return
<1>2. calls \in Seq(Calls) /\ n \in Nat \ {0} /\ Call = calls[n]
  BY <1>1 DEF CallsInv, Call, Last
<1>3. text \in Seq(Int) /\ Len(text) = 2 * n
  BY <1>1, TextIs
<1>4. Cut(Call.dirPathLen - 1) = m
  <2>1. n \in 1 .. n /\ calls[n].dirPathLen = 2 * n
    BY <1>1, <1>2 DEF CallsInv
  <2> HIDE DEF n
  <2>a. n # 1 => n - 1 \in 1 .. n
    BY <1>2
  <2>b. \A k \in 1 .. n : calls[k].dirPathLen = 2 * k
    BY <1>1 DEF CallsInv, n
  <2>2. n # 1 => n - 1 \in 1 .. n /\ calls[n - 1].dirPathLen = 2 * (n - 1)
    BY <2>a, <2>b
  <2>3. Cut(Call.dirPathLen - 1) = IF n = 1 THEN 2 * n - 1 ELSE calls[n - 1].dirPathLen
    BY <1>2, <2>1 DEF Cut, n
  <2> QED BY <2>2, <2>3
<1>5. m \in 1 .. 2 * n
  <2> HIDE DEF n, sb
  <2>1. n \in Nat \ {0}
    BY <1>2
  <2> QED BY <2>1
<1>6. sb \in PathBuilders /\ IsWhole(sb, 2 * n)
  <2>1. dirPath \in PathBuilders /\ IsWhole(dirPath, 2 * n)
    BY <1>1, <1>3 DEF PathInv
  <2>2. Matches \in Seq(Int)
    <3>1. Call.files \in Seq(Names)
      BY <1>1, <1>2, CallIs
    <3>2. Matches \in Seq(Names)
      BY <3>1, MatchesAre DEF MatchedOf
    <3> HIDE DEF sb
    <3> QED BY <3>2, NamesAreNumbers
  <2>3. 2 * n \in Nat \ {0}
    BY <1>2
  <2>4. CreatesStrings \in PathBuilders /\ IsWhole(CreatesStrings, 2 * n)
    BY <2>1, <2>2, <2>3, CreatesStringsIs
  <2> QED BY <2>1, <2>4
<1>7. /\ text' = SubSeq(text, 1, m) /\ dirPath' = DP!reduceLength(sb, m)
      /\ dirAt' \in {IF n = 1 THEN "done" ELSE "walk", "overrun"}
      /\ calls' = Front(calls) /\ UNCHANGED Tree /\ walk' = walk
  BY <1>4 DEF Return
<1> HIDE DEF sb, m
<1>8. dirPath' \in PathBuilders /\ IsWhole(dirPath', m)
  <2>1. 2 * n \in Nat /\ m \in 0 .. 2 * n
    BY <1>2, <1>5
  <2> QED BY <1>6, <1>7, <2>1, ReducedPath
<1> HIDE DEF n
<1>9. text' \in Seq(Int) /\ Len(text') = m /\ \A i \in 1 .. m : text'[i] = text[i]
  BY <1>2, <1>3, <1>5, <1>7
<1>10. calls' \in Seq(Calls) /\ Len(calls') = n - 1 /\ \A k \in 1 .. n - 1 : calls'[k] = calls[k]
  <2>1. calls' = SubSeq(calls, 1, n - 1)
    BY <1>7 DEF Front, n
  <2>2. n = Len(calls) /\ n \in Nat \ {0} /\ calls \in Seq(Calls)
    BY <1>2 DEF n
  <2> QED BY <2>1, <2>2
<1> QED BY <1>1, <1>2, <1>3, <1>5, <1>7, <1>8, <1>9, <1>10 DEF n, m

\* Each step keeps the path, the calls and the tree together.
LEMMA OpenDirectoryKeepsInv == ASSUME DirInv, OpenDirectory PROVE DirInv'
<1> DEFINE n == Len(calls)
<1>1. /\ PathInv /\ CallsInv /\ TreeInv /\ dirAt = "open" /\ UNCHANGED Tree
      /\ IsLonger(SLASH, "walk")
  BY Opened DEF DirInv
<1>2. PICK call : IsOpened(call)
  BY Opened
<1>3. /\ text \in Seq(Int) /\ text[1] = Start[1] /\ Len(text) = 2 * n + 1
      /\ \A k \in 1 .. n : text[2 * k] = SLASH
      /\ \A k \in 1 .. n : 2 * k + 1 <= Len(text) =>
           calls[k].next - 1 \in 1 .. Len(calls[k].subdirs) /\
           text[2 * k + 1] = calls[k].subdirs[calls[k].next - 1]
  BY <1>1, TextIs
<1>4. calls \in Seq(Calls) /\ n \in Nat /\ \A k \in 1 .. n : calls[k].dirPathLen = 2 * k
  BY <1>1 DEF CallsInv
<1>5. /\ calls' \in Seq(Calls) /\ Len(calls') = n + 1 /\ calls'[n + 1] = call
      /\ \A k \in 1 .. n : calls'[k] = calls[k]
  BY <1>2, <1>4 DEF IsOpened
<1>6. call.dirPathLen = Len(text) + 1
  BY <1>2 DEF IsOpened
<1>7. PathInv'
  BY <1>1 DEF PathInv, IsLonger
<1> HIDE DEF n
<1>8. /\ text' \in Seq(Int) /\ Len(text') = 2 * n + 2 /\ text'[2 * n + 2] = SLASH
      /\ \A i \in 1 .. 2 * n + 1 : text'[i] = text[i]
      /\ dirAt' \in {"walk", "overrun"}
  BY <1>1, <1>3, <1>4 DEF IsLonger
<1>9. IsPath(text', calls', FALSE)
  <2>1. Len(text') = 2 * Len(calls') + 0
    BY <1>4, <1>5, <1>8
  <2>2. text'[1] = Start[1]
    BY <1>3, <1>4, <1>8
  <2>3. ASSUME NEW k \in 1 .. Len(calls') PROVE text'[2 * k] = SLASH
    <3>1. CASE k = n + 1
      BY <1>4, <1>8, <3>1
    <3>2. CASE k # n + 1
      <4>1. k \in 1 .. n /\ 2 * k \in 1 .. 2 * n + 1
        BY <1>4, <1>5, <3>2
      <4> QED BY <1>3, <1>8, <4>1
    <3> QED BY <3>1, <3>2
  <2>4. ASSUME NEW k \in 1 .. Len(calls'), 2 * k + 1 <= Len(text')
        PROVE  calls'[k].next >= 2 /\ text'[2 * k + 1] = calls'[k].subdirs[calls'[k].next - 1]
    <3>1. k \in 1 .. n /\ 2 * k + 1 \in 1 .. 2 * n + 1
      BY <1>4, <1>5, <1>8, <2>4
    <3>2. 2 * k + 1 <= Len(text)
      BY <1>3, <3>1
    <3>3. calls[k].next - 1 \in 1 .. Len(calls[k].subdirs)
          /\ text[2 * k + 1] = calls[k].subdirs[calls[k].next - 1]
      BY <1>3, <3>1, <3>2
    <3>4. calls[k].next \in Int
      BY <1>1, <3>1, CallIs DEF n
    <3>5. calls[k].next >= 2
      BY <3>3, <3>4
    <3> QED BY <1>5, <1>8, <3>1, <3>3, <3>5
  <2> QED BY <2>1, <2>2, <2>3, <2>4 DEF IsPath
<1>10. \A k \in 1 .. Len(calls') : calls'[k].dirPathLen = 2 * k
  <2> SUFFICES ASSUME NEW k \in 1 .. n + 1 PROVE calls'[k].dirPathLen = 2 * k
    BY <1>5
  <2>1. CASE k = n + 1
    BY <1>3, <1>4, <1>5, <1>6, <2>1
  <2>2. CASE k # n + 1
    <3>1. k \in 1 .. n
      BY <1>4, <2>2
    <3> QED BY <1>4, <1>5, <3>1
  <2> QED BY <2>1, <2>2
<1>11. calls' # << >>
  BY <1>4, <1>5
<1>12. (dirAt' = "open") = FALSE
  BY <1>8
<1>13. CallsInv'
  BY <1>5, <1>9, <1>10, <1>11, <1>12 DEF CallsInv
<1> QED BY <1>1, <1>7, <1>13, TreeKept DEF DirInv

LEMMA DescendKeepsInv == ASSUME DirInv, Descend PROVE DirInv'
<1> DEFINE n == Len(calls)  name == calls[n].subdirs[calls[n].next]
<1>1. /\ PathInv /\ CallsInv /\ TreeInv /\ dirAt = "walk" /\ UNCHANGED Tree
      /\ IsLonger(name, "open")
      /\ n \in Nat \ {0} /\ calls[n].next <= Len(calls[n].subdirs)
      /\ calls' = [calls EXCEPT ![n].next = @ + 1]
  BY Descended DEF DirInv
<1>2. /\ text \in Seq(Int) /\ text[1] = Start[1] /\ Len(text) = 2 * n
      /\ \A k \in 1 .. n : text[2 * k] = SLASH
      /\ \A k \in 1 .. n : 2 * k + 1 <= Len(text) =>
           calls[k].next - 1 \in 1 .. Len(calls[k].subdirs) /\
           text[2 * k + 1] = calls[k].subdirs[calls[k].next - 1]
  BY <1>1, TextIs
<1> DEFINE call == [calls[n] EXCEPT !.next = @ + 1]
<1>3. /\ call \in Calls /\ call.dirPathLen = calls[n].dirPathLen
      /\ call.next = calls[n].next + 1 /\ call.subdirs = calls[n].subdirs
  <2> DEFINE old == calls[n]  next == old.next + 1
  <2>1. old \in Calls /\ old.next <= Len(old.subdirs)
    BY <1>1, CallIs
  <2> HIDE DEF old
  <2>2. next \in 1 .. Len(old.subdirs) + 1 /\ next \in Nat
    BY <2>1 DEF Calls
  <2> HIDE DEF next
  <2>3. call = [old EXCEPT !.next = next]
    BY DEF old, next
  <2>4. call \in [subdirs : Seq(Names), files : Seq(Names), next : Nat, dirPathLen : Nat]
        /\ call.subdirs = old.subdirs /\ call.files = old.files /\ call.next = next
        /\ call.dirPathLen = old.dirPathLen
    BY <2>1, <2>2, <2>3 DEF Calls
  <2> HIDE DEF call
  <2>5. call \in Calls
    BY <2>1, <2>2, <2>4 DEF Calls
  <2> QED BY <2>4, <2>5 DEF old, next
<1>4. calls \in Seq(Calls) /\ \A k \in 1 .. n : calls[k].dirPathLen = 2 * k
  BY <1>1 DEF CallsInv
<1>5. calls' = [calls EXCEPT ![n] = call]
  BY <1>1, <1>4
<1> HIDE DEF call, name
<1>6. /\ calls' \in Seq(Calls) /\ Len(calls') = n /\ calls'[n] = call
      /\ \A k \in 1 .. n : k # n => calls'[k] = calls[k]
  BY <1>1, <1>3, <1>4, <1>5, SMTT(30)
<1>7. PathInv'
  BY <1>1 DEF PathInv, IsLonger
<1>8. /\ text' \in Seq(Int) /\ Len(text') = 2 * n + 1 /\ text'[2 * n + 1] = name
      /\ \A i \in 1 .. 2 * n : text'[i] = text[i]
      /\ dirAt' \in {"open", "overrun"}
  BY <1>1, <1>2 DEF IsLonger
<1>9. IsPath(text', calls', TRUE)
  <2> HIDE DEF n
  <2>1. Len(text') = 2 * Len(calls') + 1
    BY <1>1, <1>6, <1>8
  <2>2. text'[1] = Start[1]
    <3>1. 1 \in 1 .. 2 * n
      BY <1>1
    <3> QED BY <1>2, <1>8, <3>1
  <2>3. ASSUME NEW k \in 1 .. Len(calls') PROVE text'[2 * k] = SLASH
    <3>1. k \in 1 .. n /\ 2 * k \in 1 .. 2 * n
      BY <1>1, <1>6
    <3> QED BY <1>2, <1>8, <3>1
  <2>4. ASSUME NEW k \in 1 .. Len(calls'), 2 * k + 1 <= Len(text')
        PROVE  calls'[k].next >= 2 /\ text'[2 * k + 1] = calls'[k].subdirs[calls'[k].next - 1]
    <3>1. CASE k = n
      <4>1. calls[n].next \in 1 .. Len(calls[n].subdirs) + 1
        <5>1. n \in 1 .. Len(calls)
          BY <1>1 DEF n
        <5> QED BY <1>1, <5>1, CallIs
      <4>2. call.next >= 2 /\ call.next - 1 = calls[n].next
        BY <1>3, <4>1
      <4> QED BY <1>3, <1>6, <1>8, <3>1, <4>2 DEF name
    <3>2. CASE k # n
      <4>1. k \in 1 .. n /\ 2 * k + 1 \in 1 .. 2 * n
        BY <1>1, <1>6, <3>2
      <4>2. 2 * k + 1 <= Len(text)
        BY <1>2, <4>1
      <4>3. calls[k].next - 1 \in 1 .. Len(calls[k].subdirs)
            /\ text[2 * k + 1] = calls[k].subdirs[calls[k].next - 1]
        BY <1>2, <4>1, <4>2
      <4>4. calls[k].next \in Int
        BY <1>1, <4>1, CallIs DEF n
      <4>5. calls[k].next >= 2
        BY <4>3, <4>4
      <4> QED BY <1>6, <1>8, <3>2, <4>1, <4>3, <4>5
    <3> QED BY <3>1, <3>2
  <2> QED BY <2>1, <2>2, <2>3, <2>4 DEF IsPath
<1>10. \A k \in 1 .. Len(calls') : calls'[k].dirPathLen = 2 * k
  BY <1>3, <1>4, <1>6
<1>11. dirAt' # "walk" /\ (dirAt' \in {"open", "walk"} => (dirAt' = "open") = TRUE)
  BY <1>8
<1>12. CallsInv'
  BY <1>6, <1>9, <1>10, <1>11 DEF CallsInv
<1> QED BY <1>1, <1>7, <1>12, TreeKept DEF DirInv

LEMMA ReturnKeepsInv == ASSUME DirInv, Return PROVE DirInv'
<1> DEFINE n == Len(calls)
           m == IF n = 1 THEN 1 ELSE 2 * (n - 1)
<1>1. /\ n \in Nat \ {0} /\ dirAt = "walk"
      /\ text' \in Seq(Int) /\ Len(text') = m /\ m \in 1 .. Len(text)
      /\ \A i \in 1 .. m : text'[i] = text[i]
      /\ dirPath' \in PathBuilders /\ IsWhole(dirPath', m)
      /\ dirAt' \in {IF n = 1 THEN "done" ELSE "walk", "overrun"}
      /\ calls' \in Seq(Calls) /\ Len(calls') = n - 1
      /\ \A k \in 1 .. n - 1 : calls'[k] = calls[k]
      /\ UNCHANGED Tree /\ walk' = walk
  BY Returned
<1>2. PathInv /\ CallsInv /\ TreeInv
  BY DEF DirInv
<1>3. /\ text \in Seq(Int) /\ text[1] = Start[1] /\ Len(text) = 2 * n
      /\ \A k \in 1 .. n : text[2 * k] = SLASH
      /\ \A k \in 1 .. n : 2 * k + 1 <= Len(text) =>
           calls[k].next - 1 \in 1 .. Len(calls[k].subdirs) /\
           text[2 * k + 1] = calls[k].subdirs[calls[k].next - 1]
  BY <1>1, <1>2, TextIs
<1>4. \A k \in 1 .. n : calls[k].dirPathLen = 2 * k /\ calls[k].next \in Int
  BY <1>2, CallIs
<1> HIDE DEF n
<1>5. text'[1] = Start[1] /\ text' # << >>
  <2>1. m \in Nat \ {0} /\ 1 \in 1 .. m
    BY <1>1
  <2>2. text'[1] = text[1] /\ Len(text') # 0
    BY <1>1, <2>1
  <2> QED BY <1>3, <2>2
<1>6. dirAt' = "done" => text' = Start /\ calls' = << >>
  <2> SUFFICES ASSUME dirAt' = "done" PROVE text' = Start /\ calls' = << >>
    OBVIOUS
  <2>1. n = 1 /\ m = 1
    BY <1>1
  <2>2. Start = <<Start[1]>> /\ Start[1] \in Int
    BY DEF Start
  <2> QED BY <1>1, <1>5, <2>1, <2>2
<1>7. PathInv'
  BY <1>1, <1>5, <1>6 DEF PathInv
<1>8. ASSUME n # 1 PROVE IsPath(text', calls', FALSE) /\ calls' # << >>
  <2>1. m = 2 * (n - 1) /\ Len(text') = 2 * Len(calls') + 0
    BY <1>1, <1>8
  <2>2. ASSUME NEW k \in 1 .. Len(calls') PROVE text'[2 * k] = SLASH
    <3>1. k \in 1 .. n /\ 2 * k \in 1 .. m
      BY <1>1, <2>1
    <3> QED BY <1>1, <1>3, <3>1
  <2>3. ASSUME NEW k \in 1 .. Len(calls'), 2 * k + 1 <= Len(text')
        PROVE  calls'[k].next >= 2 /\ text'[2 * k + 1] = calls'[k].subdirs[calls'[k].next - 1]
    <3>a. n \in Nat \ {0} /\ Len(calls') = n - 1 /\ Len(text') = 2 * (n - 1)
          /\ Len(text) = 2 * n
      BY <1>1, <1>3, <2>1
    <3>b. k \in 1 .. n - 1 /\ 2 * k + 1 <= 2 * (n - 1)
      BY <2>3, <3>a
    <3>1. k \in 1 .. n - 1 /\ k \in 1 .. n /\ 2 * k + 1 \in 1 .. m /\ 2 * k + 1 <= Len(text)
      BY <2>1, <3>a, <3>b
    <3>2. calls[k].next - 1 \in 1 .. Len(calls[k].subdirs)
          /\ text[2 * k + 1] = calls[k].subdirs[calls[k].next - 1]
      BY <1>3, <3>1
    <3>3. calls[k].next >= 2
      BY <1>4, <3>1, <3>2
    <3> QED BY <1>1, <3>1, <3>2, <3>3
  <2>4. calls' # << >>
    BY <1>1, <1>8
  <2> QED BY <1>5, <2>1, <2>2, <2>3, <2>4 DEF IsPath
<1>9. \A k \in 1 .. Len(calls') : calls'[k].dirPathLen = 2 * k
  <2> SUFFICES ASSUME NEW k \in 1 .. n - 1 PROVE calls'[k].dirPathLen = 2 * k
    BY <1>1
  <2>1. k \in 1 .. n /\ calls'[k] = calls[k]
    BY <1>1
  <2> QED BY <1>4, <2>1
<1>10. dirAt' # "open" /\ (dirAt' = "walk" => n # 1)
  BY <1>1
<1>11. (dirAt' = "open") = FALSE
  BY <1>10
<1>12. CallsInv'
  BY <1>1, <1>8, <1>9, <1>10, <1>11 DEF CallsInv
<1> QED BY <1>1, <1>2, <1>7, <1>12, TreeKept DEF DirInv

LEMMA DirStepKeepsInv == ASSUME DirInv, [DirNext]_dirVars PROVE DirInv'
<1>1. PathInv /\ CallsInv /\ TreeInv
  BY DEF DirInv
<1>2. CASE OpenFails
  <2>1. dirAt = "open" /\ dirAt' = "aborted" /\ UNCHANGED <<Tree, text, dirPath, calls>>
    BY <1>2 DEF OpenFails
  <2>2. PathInv' /\ CallsInv'
    BY <1>1, <2>1 DEF PathInv, CallsInv
  <2> QED BY <1>1, <2>1, <2>2, TreeKept DEF DirInv
<1>3. CASE OpenDirectory
  BY <1>3, OpenDirectoryKeepsInv
<1>4. CASE Descend
  BY <1>4, DescendKeepsInv
<1>5. CASE Return
  BY <1>5, ReturnKeepsInv
<1>6. CASE printDirectory
  <2>1. dirAt = "done" /\ text = Start /\ calls = << >> /\ calls' = calls /\ UNCHANGED Tree
    BY <1>1, <1>6 DEF printDirectory, PathInv
  <2>2. PathInv' /\ dirAt' \in {"printed", "overrun"}
    <3>1. CASE dirAt' = "printed" /\ UNCHANGED <<text, dirPath>>
      BY <1>1, <2>1, <3>1 DEF PathInv
    <3>2. CASE Lengthens(DP!append_char(dirPath), <<SLASH>>, "printed")
      <4> DEFINE sb == DP!append_char(dirPath)
      <4>1. text \in Seq(Int) /\ Len(text) = 1
        BY <1>1, <2>1 DEF PathInv, Start
      <4>2. dirPath \in PathBuilders /\ IsWhole(dirPath, 1)
        BY <1>1, <2>1, <4>1 DEF PathInv
      <4>3. sb \in PathBuilders /\ IsWhole(sb, 1 + 1)
        BY <4>2, LengthenedPath
      <4> HIDE DEF sb
      <4>4. SLASH \in Int /\ Len(text) + 1 = 1 + 1
        BY <4>1 DEF SLASH
      <4>5. IsLonger(SLASH, "printed")
        BY <1>1, <3>2, <4>3, <4>4, Lengthened DEF sb
      <4>6. text' = Append(Start, SLASH)
        BY <2>1, <3>2 DEF Lengthens, Start
      <4> QED BY <4>5, <4>6 DEF PathInv, IsLonger
    <3> QED BY <1>6, <3>1, <3>2 DEF printDirectory
  <2>3. CallsInv'
    BY <1>1, <2>1, <2>2 DEF CallsInv
  <2> QED BY <1>1, <2>1, <2>2, <2>3, TreeKept DEF DirInv
<1>7. CASE EntryCreated \/ EntryRemoved
  <2>1. UNCHANGED <<text, dirPath, calls, dirAt>>
    BY <1>7 DEF EntryCreated, EntryRemoved, Changes
  <2>2. PathInv' /\ CallsInv'
    BY <1>1, <2>1 DEF PathInv, CallsInv
  <2>3. TreeInv'
    BY <1>1, <1>7, TreeChanges
  <2> QED BY <2>2, <2>3 DEF DirInv
<1>8. CASE UNCHANGED dirVars
  BY <1>8 DEF dirVars, DirInv, TreeInv, PathInv, CallsInv
<1> QED BY <1>2, <1>3, <1>4, <1>5, <1>6, <1>7, <1>8 DEF DirNext

\* A walk leaves the path it was given as it was and whole, whatever the tree is and
\* however long the names' path becomes (directory.c:195-199, 274, 299).
THEOREM WalksRestoreThePath == DirSpec => []PathIsRestored
<1>1. DirInv => PathIsRestored
  <2> SUFFICES ASSUME DirInv PROVE PathIsRestored
    OBVIOUS
  <2>1. PathInv /\ CallsInv
    BY DEF DirInv
  <2>2. dirAt = "walk" => Len(text) = Call.dirPathLen
    <3> SUFFICES ASSUME dirAt = "walk" PROVE Len(text) = Call.dirPathLen
      OBVIOUS
    <3> DEFINE n == Len(calls)
    <3>1. Len(text) = 2 * n + 0
      BY <2>1, TextIs
    <3>2. n \in Nat \ {0} /\ calls[n] = Call
      BY <2>1 DEF CallsInv, Call, Last
    <3> QED BY <2>1, <3>1, <3>2, CallIs
  <2>3. dirAt # "overrun" => dirPath.length = Len(text) /\ dirPath.nul = Len(text)
    BY <2>1 DEF PathInv, IsWhole
  <2> QED BY <2>1, <2>2, <2>3 DEF PathIsRestored, PathInv
<1> QED BY <1>1, DirInitInv, DirStepKeepsInv, PTL DEF DirSpec

-------------------------------------------------------------------------------
(* What find has still to come to, while it walks.                         *)

\* The directories from that of the first call to that of call k.
IsIn(path, k) == Len(path) >= k /\ \A j \in 1 .. k - 1 : path[j] = text[2 * j + 1]

\* The paths that call k has still to come to, itself or through a subdirectory.
IsLeftTo(k, path) ==
    /\ IsIn(path, k)
    /\ IF Len(path) = k THEN \E i \in DOMAIN calls[k].files : path[k] = calls[k].files[i]
       ELSE \E i \in DOMAIN calls[k].subdirs : i >= calls[k].next /\ path[k] = calls[k].subdirs[i]

\* Those below the directory that is to be opened, and all of them.
IsBelow(path) == dirAt = "open" /\ IsIn(path, Len(calls) + 1)
IsToCome(path) == (\E k \in DOMAIN calls : IsLeftTo(k, path)) \/ IsBelow(path)

Paths == Seq(Names)

\* The files that call k lists.
FilesOf(k) == {path \in Paths : Len(path) = k /\ IsLeftTo(k, path)}

\* What find knows while it walks: no match is passed over, what it found and the files
\* it has listed were there, and all it found is before all it has still to come to.
NothingPassed == \A path \in kept : IsMatch(path) => path \in ToSet(found) \/ IsToCome(path)
FoundIsSeen ==
    /\ found \in Seq(Paths)
    /\ \A i \in DOMAIN found : found[i] \in seen /\ IsMatch(found[i])
    /\ \A k \in DOMAIN calls : FilesOf(k) \subseteq seen
FoundInOrder ==
    /\ \A i, j \in DOMAIN found : i < j => Before(found[i], found[j])
    /\ \A i \in DOMAIN found : \A path \in Paths : IsToCome(path) => Before(found[i], path)
FindsSoFar == NothingPassed /\ FoundIsSeen /\ FoundInOrder
FindInv == walk = "find" /\ dirAt \in {"open", "walk", "done"} => FindsSoFar

\* A call's share of it rests on the path up to its directory.
LEMMA LeftKept ==
  ASSUME NEW k \in Nat, calls'[k] = calls[k], \A i \in 1 .. 2 * k - 1 : text'[i] = text[i]
  PROVE  \A path : IsLeftTo(k, path)' <=> IsLeftTo(k, path)
<1> SUFFICES ASSUME NEW path PROVE IsLeftTo(k, path)' <=> IsLeftTo(k, path)
  OBVIOUS
<1>1. \A j \in 1 .. k - 1 : text'[2 * j + 1] = text[2 * j + 1]
  <2> SUFFICES ASSUME NEW j \in 1 .. k - 1 PROVE text'[2 * j + 1] = text[2 * j + 1]
    OBVIOUS
  <2>1. 2 * j + 1 \in 1 .. 2 * k - 1
    OBVIOUS
  <2> QED BY <2>1
<1>2. IsIn(path, k)' <=> IsIn(path, k)
  BY <1>1 DEF IsIn
<1> QED BY <1>2 DEF IsLeftTo

\* An entry of the directory that is opened is one that the new call comes to.
LEMMA OpenedComesTo ==
  ASSUME DirInv, NEW call, IsOpened(call), dirAt = "open", NEW path \in Paths,
         IsIn(path, Len(calls) + 1)
  PROVE  /\ path \in files => IF Len(path) = Len(calls) + 1
                              THEN \E i \in DOMAIN call.files : path[Len(path)] = call.files[i]
                              ELSE \E i \in DOMAIN call.subdirs :
                                      i >= 1 /\ path[Len(calls) + 1] = call.subdirs[i]
         /\ Len(path) = Len(calls) + 1 =>
              \A i \in DOMAIN call.files : path[Len(path)] = call.files[i] => path \in files
<1> DEFINE n == Len(calls)  dir == Named(text)  name == path[n + 1]
<1>1. PathInv /\ CallsInv /\ TreeInv
  BY DEF DirInv
<1>2. dir \in Seq(Names) /\ Len(dir) = n /\ \A k \in 1 .. n : dir[k] = text[2 * k + 1]
  BY <1>1, DirIs
<1>3. n \in Nat
  BY <1>1 DEF CallsInv
<1>4. path \in Seq(Names) /\ Len(path) >= n + 1 /\ \A j \in 1 .. n : path[j] = text[2 * j + 1]
  <2>1. (n + 1) - 1 = n
    BY <1>3
  <2> QED BY <2>1 DEF IsIn, Paths
<1> HIDE DEF dir, n
<1>5. name \in Names
  BY <1>3, <1>4
<1>6. SubSeq(path, 1, n + 1) = Append(dir, name)
  <2> DEFINE s == SubSeq(path, 1, n + 1)  t == Append(dir, name)
  <2>1. s \in Seq(Names) /\ Len(s) = n + 1 /\ \A i \in 1 .. n + 1 : s[i] = path[i]
    BY <1>3, <1>4
  <2>2. t \in Seq(Names) /\ Len(t) = n + 1 /\ t[n + 1] = name /\ \A i \in 1 .. n : t[i] = dir[i]
    BY <1>2, <1>3, <1>5
  <2> HIDE DEF s, t
  <2>3. \A i \in 1 .. n + 1 : s[i] = t[i]
    <3> SUFFICES ASSUME NEW i \in 1 .. n + 1 PROVE s[i] = t[i]
      OBVIOUS
    <3>1. CASE i = n + 1
      BY <2>1, <2>2, <3>1
    <3>2. CASE i # n + 1
      <4>1. i \in 1 .. n
        BY <1>3, <3>2
      <4> QED BY <1>2, <1>4, <2>1, <2>2, <4>1
    <3> QED BY <3>1, <3>2
  <2>4. s = t
    BY <2>1, <2>2, <2>3, SeqEqual
  <2> QED BY <2>4 DEF s, t
<1>7. Len(path) = n + 1 => path = Append(dir, name)
  <2> SUFFICES ASSUME Len(path) = n + 1 PROVE path = SubSeq(path, 1, n + 1)
    BY <1>6
  <2> DEFINE s == SubSeq(path, 1, n + 1)
  <2>1. s \in Seq(Names) /\ Len(s) = n + 1 /\ \A i \in 1 .. n + 1 : s[i] = path[i]
    BY <1>3, <1>4
  <2> HIDE DEF s
  <2>2. s = path
    BY <1>4, <2>1, SeqEqual
  <2> QED BY <2>2 DEF s
<1>8. IsFiniteSet(dirs) /\ IsFiniteSet(files) /\ Closed(dirs, files)
  BY <1>1, TreeIs DEF TreeInv
<1>9. dirs \in SUBSET (Seq(Names) \ {<< >>}) /\ files \in SUBSET (Seq(Names) \ {<< >>})
  BY <1>8 DEF Closed
<1>10. /\ name \in Under(dirs, dir) <=> Append(dir, name) \in dirs
       /\ name \in Under(files, dir) <=> Append(dir, name) \in files
  BY <1>2, <1>5, <1>8, <1>9, UnderIs
<1>11. /\ call.subdirs \in Seq(Under(dirs, dir)) /\ call.files \in Seq(Under(files, dir))
       /\ \A x \in Under(dirs, dir) : \E i \in 1 .. Len(call.subdirs) : call.subdirs[i] = x
       /\ \A x \in Under(files, dir) : \E i \in 1 .. Len(call.files) : call.files[i] = x
  BY DEF IsOpened, IsListOf, dir
<1>12. DOMAIN call.subdirs = 1 .. Len(call.subdirs) /\ DOMAIN call.files = 1 .. Len(call.files)
  BY <1>11
<1>13. ASSUME path \in files, Len(path) = n + 1
       PROVE  \E i \in DOMAIN call.files : path[Len(path)] = call.files[i]
  <2>1. name \in Under(files, dir)
    BY <1>7, <1>10, <1>13
  <2>2. PICK i \in 1 .. Len(call.files) : call.files[i] = name
    BY <1>11, <2>1
  <2> QED BY <1>12, <1>13, <2>2
<1>14. ASSUME path \in files, Len(path) # n + 1
       PROVE  \E i \in DOMAIN call.subdirs : i >= 1 /\ name = call.subdirs[i]
  <2>1. n + 1 \in 1 .. Len(path) - 1
    BY <1>3, <1>4, <1>14
  <2>2. SubSeq(path, 1, n + 1) \in dirs
    BY <1>8, <1>14, <2>1 DEF Closed
  <2>3. name \in Under(dirs, dir)
    BY <1>6, <1>10, <2>2
  <2>4. PICK i \in 1 .. Len(call.subdirs) : call.subdirs[i] = name
    BY <1>11, <2>3
  <2> QED BY <1>12, <2>4
<1>15. ASSUME Len(path) = n + 1, NEW i \in DOMAIN call.files, path[Len(path)] = call.files[i]
       PROVE  path \in files
  <2>1. call.files[i] \in Under(files, dir)
    BY <1>11
  <2>2. name \in Under(files, dir)
    BY <1>15, <2>1
  <2> QED BY <1>7, <1>10, <1>15, <2>2
<1> HIDE DEF name
<1>16. path \in files => IF Len(path) = n + 1
                         THEN \E i \in DOMAIN call.files : path[Len(path)] = call.files[i]
                         ELSE \E i \in DOMAIN call.subdirs : i >= 1 /\ path[n + 1] = call.subdirs[i]
  BY <1>13, <1>14 DEF name
<1>17. Len(path) = n + 1 =>
         \A i \in DOMAIN call.files : path[Len(path)] = call.files[i] => path \in files
  BY <1>15
<1> QED BY <1>16, <1>17 DEF n

LEMMA OpenDirectoryComesTo ==
  ASSUME DirInv, OpenDirectory, NEW n, n = Len(calls)
  PROVE  /\ \A path \in Paths : IsToCome(path)' => IsToCome(path)
         /\ \A path \in Paths : path \in files /\ IsToCome(path) => IsToCome(path)'
         /\ \A k \in DOMAIN calls' : k \in DOMAIN calls \/ FilesOf(k)' \subseteq files
         /\ \A k \in DOMAIN calls : FilesOf(k)' = FilesOf(k)
<1>1. /\ PathInv /\ CallsInv /\ dirAt = "open" /\ IsLonger(SLASH, "walk") /\ UNCHANGED Tree
  BY Opened DEF DirInv
<1>2. PICK call : IsOpened(call)
  BY Opened
<1>3. calls \in Seq(Calls) /\ n \in Nat /\ Len(text) = 2 * n + 1 /\ call \in Calls
  BY <1>1, <1>2, TextIs DEF CallsInv, IsOpened
<1>4. /\ Len(calls') = n + 1 /\ calls'[n + 1] = call /\ DOMAIN calls = 1 .. n
      /\ DOMAIN calls' = 1 .. n + 1
      /\ \A k \in 1 .. n : calls'[k] = calls[k]
  BY <1>2, <1>3 DEF IsOpened
<1>5. \A i \in 1 .. 2 * n + 1 : text'[i] = text[i]
  BY <1>1, <1>3 DEF IsLonger
<1>6. ~ (dirAt' = "open")
  BY <1>1 DEF IsLonger
<1>7. call.next = 1
  BY <1>2 DEF IsOpened
<1>8. ASSUME NEW k \in 1 .. n PROVE \A path : IsLeftTo(k, path)' <=> IsLeftTo(k, path)
  <2>1. k \in Nat /\ \A i \in 1 .. 2 * k - 1 : text'[i] = text[i]
    BY <1>3, <1>5
  <2> QED BY <1>4, <2>1, LeftKept
<1>9. ASSUME NEW path
      PROVE  IsIn(path, n + 1)' <=> IsIn(path, n + 1)
  <2>1. \A j \in 1 .. (n + 1) - 1 : text'[2 * j + 1] = text[2 * j + 1]
    <3> SUFFICES ASSUME NEW j \in 1 .. n PROVE text'[2 * j + 1] = text[2 * j + 1]
      BY <1>3
    <3>1. 2 * j + 1 \in 1 .. 2 * n + 1
      BY <1>3
    <3> QED BY <1>5, <3>1
  <2> QED BY <2>1 DEF IsIn
<1>10. ASSUME NEW path
       PROVE  IsToCome(path)' <=> (\E k \in 1 .. n : IsLeftTo(k, path)) \/ IsLeftTo(n + 1, path)'
  <2>1. \A k \in Int : k \in 1 .. n + 1 <=> k \in 1 .. n \/ k = n + 1
    BY <1>3
  <2>2. IsToCome(path)' <=> \E k \in 1 .. n + 1 : IsLeftTo(k, path)'
    BY <1>4, <1>6 DEF IsToCome, IsBelow
  <2>3. (\E k \in 1 .. n + 1 : IsLeftTo(k, path)')
          <=> (\E k \in 1 .. n : IsLeftTo(k, path)') \/ IsLeftTo(n + 1, path)'
    BY <1>3, <2>1
  <2>4. (\E k \in 1 .. n : IsLeftTo(k, path)') <=> (\E k \in 1 .. n : IsLeftTo(k, path))
    BY <1>8
  <2> QED BY <2>2, <2>3, <2>4
<1>11. ASSUME NEW path
       PROVE  IsToCome(path) <=> (\E k \in 1 .. n : IsLeftTo(k, path)) \/ IsIn(path, n + 1)
  BY <1>1, <1>4 DEF IsToCome, IsBelow
<1>12. ASSUME NEW path
       PROVE  IsLeftTo(n + 1, path)' <=>
                /\ IsIn(path, n + 1)
                /\ IF Len(path) = n + 1
                   THEN \E i \in DOMAIN call.files : path[n + 1] = call.files[i]
                   ELSE \E i \in DOMAIN call.subdirs : i >= 1 /\ path[n + 1] = call.subdirs[i]
  BY <1>4, <1>7, <1>9 DEF IsLeftTo
<1>13. ASSUME NEW path \in Paths, path \in files, IsToCome(path) PROVE IsToCome(path)'
  <2>1. CASE IsIn(path, n + 1)
    <3>1. IF Len(path) = n + 1
          THEN \E i \in DOMAIN call.files : path[Len(path)] = call.files[i]
          ELSE \E i \in DOMAIN call.subdirs : i >= 1 /\ path[n + 1] = call.subdirs[i]
      BY <1>1, <1>2, <1>13, <2>1, OpenedComesTo
    <3>2. IsLeftTo(n + 1, path)'
      BY <1>12, <2>1, <3>1
    <3> QED BY <1>10, <3>2
  <2>2. CASE \E k \in 1 .. n : IsLeftTo(k, path)
    BY <1>10, <2>2
  <2> QED BY <1>11, <1>13, <2>1, <2>2
<1>14. ASSUME NEW path \in FilesOf(n + 1)' PROVE path \in files
  <2>1. path \in Paths /\ Len(path) = n + 1 /\ IsLeftTo(n + 1, path)'
    BY <1>14 DEF FilesOf, Paths
  <2>2. IsIn(path, n + 1) /\ \E i \in DOMAIN call.files : path[n + 1] = call.files[i]
    BY <1>12, <2>1
  <2>3. IsIn(path, Len(calls) + 1) /\ Len(path) = Len(calls) + 1
    BY <2>1, <2>2
  <2>4. \A i \in DOMAIN call.files : path[Len(path)] = call.files[i] => path \in files
    BY <1>1, <1>2, <2>1, <2>3, OpenedComesTo
  <2> QED BY <2>1, <2>2, <2>4
<1>15. \A path \in Paths : IsToCome(path)' => IsToCome(path)
  BY <1>10, <1>11, <1>12
<1>16. \A k \in 1 .. n + 1 : k \in 1 .. n \/ k = n + 1
  BY <1>3
<1>17. \A k \in 1 .. n : FilesOf(k)' = FilesOf(k)
  BY <1>8 DEF FilesOf, Paths
<1> QED BY <1>4, <1>13, <1>14, <1>15, <1>16, <1>17

LEMMA DescendComesTo ==
  ASSUME DirInv, Descend, dirAt' # "overrun", NEW n, n = Len(calls)
  PROVE  /\ \A path \in Paths : IsToCome(path)' <=> IsToCome(path)
         /\ DOMAIN calls' = DOMAIN calls
         /\ \A k \in DOMAIN calls : FilesOf(k)' = FilesOf(k)
<1> DEFINE name == calls[n].subdirs[calls[n].next]
<1>1. /\ PathInv /\ CallsInv /\ dirAt = "walk" /\ IsLonger(name, "open")
      /\ n \in Nat \ {0} /\ calls[n].next <= Len(calls[n].subdirs)
      /\ calls' = [calls EXCEPT ![n].next = @ + 1]
  BY Descended DEF DirInv
<1>2. calls \in Seq(Calls) /\ Len(text) = 2 * n
  BY <1>1, TextIs DEF CallsInv
<1> DEFINE call == calls[n]
<1>3. call.subdirs \in Seq(Names) /\ call.next \in 1 .. Len(call.subdirs) + 1 /\ call \in Calls
  BY <1>1, CallIs
<1>4. call.next <= Len(call.subdirs)
  BY <1>1
<1>5. /\ DOMAIN calls = 1 .. n /\ DOMAIN calls' = 1 .. n /\ Len(calls') = n
      /\ \A k \in 1 .. n : k # n => calls'[k] = calls[k]
      /\ calls'[n] = [call EXCEPT !.next = @ + 1]
  <2> DEFINE new == [call EXCEPT !.next = @ + 1]
  <2>1. calls' = [calls EXCEPT ![n] = new] /\ DOMAIN calls = 1 .. n
    BY <1>1, <1>2
  <2> HIDE DEF new
  <2>2. n \in 1 .. n
    BY <1>1
  <2>3. DOMAIN calls' = 1 .. n /\ calls'[n] = new
        /\ \A k \in 1 .. n : k # n => calls'[k] = calls[k]
    BY <2>1, <2>2
  <2>4. Len(calls') = n
    BY <1>1, <2>3
  <2> QED BY <2>1, <2>3, <2>4 DEF new
<1>6. /\ calls'[n].next = call.next + 1 /\ calls'[n].subdirs = call.subdirs
      /\ calls'[n].files = call.files
  <2> DEFINE old == call  new == [old EXCEPT !.next = @ + 1]
  <2>1. old \in Calls /\ calls'[n] = new
    BY <1>3, <1>5
  <2> HIDE DEF call
  <2>2. new.next = old.next + 1 /\ new.subdirs = old.subdirs /\ new.files = old.files
    BY <2>1 DEF Calls
  <2> QED BY <2>1, <2>2
<1>7. text'[2 * n + 1] = name /\ \A i \in 1 .. 2 * n : text'[i] = text[i]
  BY <1>1, <1>2 DEF IsLonger
<1>8. name = call.subdirs[call.next]
  OBVIOUS
<1>9. dirAt' = "open" /\ dirAt # "open"
  BY <1>1 DEF IsLonger
<1> HIDE DEF call, name
<1>10. ASSUME NEW k \in 1 .. n, k # n PROVE \A path : IsLeftTo(k, path)' <=> IsLeftTo(k, path)
  <2>1. k \in Nat /\ \A i \in 1 .. 2 * k - 1 : text'[i] = text[i]
    BY <1>1, <1>7, <1>10
  <2> QED BY <1>5, <1>10, <2>1, LeftKept
<1>11. ASSUME NEW path PROVE IsIn(path, n)' <=> IsIn(path, n)
  <2>1. \A j \in 1 .. n - 1 : text'[2 * j + 1] = text[2 * j + 1]
    <3> SUFFICES ASSUME NEW j \in 1 .. n - 1 PROVE text'[2 * j + 1] = text[2 * j + 1]
      OBVIOUS
    <3>1. 2 * j + 1 \in 1 .. 2 * n
      BY <1>1
    <3> QED BY <1>7, <3>1
  <2> QED BY <2>1 DEF IsIn
<1>12. ASSUME NEW path \in Paths
       PROVE  IsIn(path, n + 1)' <=> IsIn(path, n) /\ Len(path) # n /\ path[n] = name
  <2>1. Len(path) \in Nat
    BY DEF Paths
  <2>2. Len(path) >= n + 1 <=> Len(path) >= n /\ Len(path) # n
    BY <1>1, <2>1
  <2>3. \A j \in Int : j \in 1 .. n <=> j \in 1 .. n - 1 \/ j = n
    BY <1>1
  <2>4. (n + 1) - 1 = n
    BY <1>1
  <2>5. IsIn(path, n + 1)' <=> Len(path) >= n + 1 /\ \A j \in 1 .. n : path[j] = text'[2 * j + 1]
    BY <2>4 DEF IsIn
  <2>6. IsIn(path, n)' <=> Len(path) >= n /\ \A j \in 1 .. n - 1 : path[j] = text'[2 * j + 1]
    BY DEF IsIn
  <2>7. (\A j \in 1 .. n : path[j] = text'[2 * j + 1])
          <=> (\A j \in 1 .. n - 1 : path[j] = text'[2 * j + 1]) /\ path[n] = text'[2 * n + 1]
    BY <1>1, <2>3
  <2> QED BY <1>7, <1>11, <2>2, <2>5, <2>6, <2>7
<1> DEFINE Files(path) == \E i \in DOMAIN call.files : path[n] = call.files[i]
           From(path, l) == \E i \in DOMAIN call.subdirs : i >= l /\ path[n] = call.subdirs[i]
<1>13. \A path : IsLeftTo(n, path) <=>
                   IsIn(path, n) /\ IF Len(path) = n THEN Files(path) ELSE From(path, call.next)
  BY DEF IsLeftTo, call
<1>14. \A path : IsLeftTo(n, path)' <=>
                   IsIn(path, n) /\ IF Len(path) = n THEN Files(path) ELSE From(path, call.next + 1)
  BY <1>6, <1>11 DEF IsLeftTo
<1>15. \A path : From(path, call.next) <=> From(path, call.next + 1) \/ path[n] = name
  <2> SUFFICES ASSUME NEW path
               PROVE  From(path, call.next) <=> From(path, call.next + 1) \/ path[n] = name
    OBVIOUS
  <2>1. call.next \in DOMAIN call.subdirs /\ call.next >= call.next
    BY <1>3, <1>4
  <2>2. \A i \in DOMAIN call.subdirs : i >= call.next <=> i >= call.next + 1 \/ i = call.next
    BY <1>3
  <2> QED BY <1>8, <2>1, <2>2
<1> HIDE DEF Files, From
<1>16. \A path : (\E k \in 1 .. n : k # n /\ IsLeftTo(k, path)')
                   <=> (\E k \in 1 .. n : k # n /\ IsLeftTo(k, path))
  BY <1>10
<1>17. ASSUME NEW path \in Paths PROVE IsToCome(path)' <=> IsToCome(path)
  <2>1. IsToCome(path) <=> \E k \in 1 .. n : IsLeftTo(k, path)
    BY <1>5, <1>9 DEF IsToCome, IsBelow
  <2>2. IsToCome(path)' <=> (\E k \in 1 .. n : IsLeftTo(k, path)') \/ IsIn(path, n + 1)'
    BY <1>5, <1>9 DEF IsToCome, IsBelow
  <2>0. n \in 1 .. n
    BY <1>1
  <2>3. (\E k \in 1 .. n : IsLeftTo(k, path))
          <=> (\E k \in 1 .. n : k # n /\ IsLeftTo(k, path)) \/ IsLeftTo(n, path)
    BY <2>0
  <2>4. (\E k \in 1 .. n : IsLeftTo(k, path)')
          <=> (\E k \in 1 .. n : k # n /\ IsLeftTo(k, path)') \/ IsLeftTo(n, path)'
    BY <2>0
  <2>5. IsLeftTo(n, path) <=> IsLeftTo(n, path)' \/ IsIn(path, n + 1)'
    BY <1>12, <1>13, <1>14, <1>15
  <2> QED BY <1>16, <2>1, <2>2, <2>3, <2>4, <2>5
<1>18. ASSUME NEW k \in 1 .. n PROVE FilesOf(k)' = FilesOf(k)
  <2>1. CASE k = n
    <3>1. \A path \in Paths : Len(path) = n => (IsLeftTo(n, path)' <=> IsLeftTo(n, path))
      BY <1>13, <1>14
    <3> QED BY <2>1, <3>1 DEF FilesOf, Paths
  <2>2. CASE k # n
    BY <1>10, <2>2 DEF FilesOf, Paths
  <2> QED BY <2>1, <2>2
<1> QED BY <1>5, <1>17, <1>18

\* The files of a directory that match, as the paths that find returns.
Listed == [k \in DOMAIN Matches |-> Named(Append(text, Matches[k]))]

LEMMA ListedIs ==
  ASSUME DirInv, dirAt = "walk", NEW n, n = Len(calls)
  PROVE  /\ n \in Nat \ {0} /\ Listed \in Seq(Paths)
         /\ \A i \in DOMAIN Listed :
              /\ Listed[i] \in FilesOf(n) /\ IsMatch(Listed[i])
              /\ \A j \in 1 .. n - 1 : Listed[i][j] = text[2 * j + 1]
         /\ \A path \in FilesOf(n) : IsMatch(path) => path \in ToSet(Listed)
         /\ \A i, j \in DOMAIN Listed : i < j => Before(Listed[i], Listed[j])
<1> DEFINE call == calls[n]
<1>1. PathInv /\ CallsInv
  BY DEF DirInv
<1>2. n \in Nat \ {0} /\ Call = call
  BY <1>1 DEF CallsInv, Call, Last
<1>3. /\ text \in Seq(Int) /\ Len(text) = 2 * n
      /\ \A k \in 1 .. n : text[2 * k] = SLASH
      /\ \A k \in 1 .. n : 2 * k + 1 <= Len(text) => text[2 * k + 1] \in Names
  BY <1>1, TextIs
<1>4. call.files \in Seq(Names) /\ IsIncreasing(call.files)
  <2>1. n \in 1 .. Len(calls)
    BY <1>2
  <2> QED BY <1>1, <2>1, CallIs
<1> HIDE DEF call
<1> DEFINE r == Matches  s == call.files
<1>5. /\ r \in Seq(Names) /\ IsIncreasing(r)
      /\ \A i \in 1 .. Len(r) : r[i] \in Matching /\ \E j \in 1 .. Len(s) : r[i] = s[j]
      /\ \A j \in 1 .. Len(s) : s[j] \in Matching => \E i \in 1 .. Len(r) : r[i] = s[j]
  <2>1. MatchedOf(r, s)
    BY <1>2, <1>4, MatchesAre
  <2> HIDE DEF r, s
  <2> QED BY <1>4, <2>1 DEF MatchedOf, s
<1>6. DOMAIN r = 1 .. Len(r) /\ DOMAIN s = 1 .. Len(s) /\ Len(r) \in Nat
  BY <1>4, <1>5
<1> HIDE DEF r
<1>7. Listed = [k \in 1 .. Len(r) |-> Named(Append(text, r[k]))]
  BY <1>6 DEF Listed, r
<1>8. ASSUME NEW i \in 1 .. Len(r)
      PROVE  LET path == Named(Append(text, r[i])) IN
             /\ path \in Seq(Names) /\ Len(path) = n /\ path[n] = r[i]
             /\ \A j \in 1 .. n - 1 : path[j] = text[2 * j + 1]
  <2> DEFINE t == Append(text, r[i])  path == Named(t)
  <2>1. r[i] \in Names /\ r[i] \in Int
    BY <1>5, NamesAreNumbers
  <2>2. t \in Seq(Int) /\ Len(t) = 2 * n + 1 /\ t[2 * n + 1] = r[i]
        /\ \A j \in 1 .. 2 * n : t[j] = text[j]
    <3> DEFINE c == r[i]  l == 2 * n
    <3>1. text \in Seq(Int) /\ Len(text) = l /\ c \in Int
      BY <1>3, <2>1
    <3> HIDE DEF c, l, path, s
    <3>2. t = Append(text, c)
      BY DEF c
    <3> HIDE DEF t
    <3>3. t \in Seq(Int) /\ Len(t) = l + 1 /\ t[l + 1] = c /\ \A j \in 1 .. l : t[j] = text[j]
      BY <3>1, <3>2
    <3> QED BY <3>3 DEF c, l
  <2> HIDE DEF t
  <2>3. \A j \in 1 .. n - 1 : t[2 * j + 1] = text[2 * j + 1] /\ text[2 * j + 1] \in Names
    <3> SUFFICES ASSUME NEW j \in 1 .. n - 1
                 PROVE  t[2 * j + 1] = text[2 * j + 1] /\ text[2 * j + 1] \in Names
      OBVIOUS
    <3>1. 2 * j + 1 \in 1 .. 2 * n /\ j \in 1 .. n /\ 2 * j + 1 <= 2 * n
      BY <1>2
    <3> QED BY <1>3, <2>2, <3>1
  <2>4. \A j \in 1 .. n : t[2 * j] = SLASH /\ t[2 * j + 1] \in Names
    <3> SUFFICES ASSUME NEW j \in 1 .. n PROVE t[2 * j] = SLASH /\ t[2 * j + 1] \in Names
      OBVIOUS
    <3>1. 2 * j \in 1 .. 2 * n
      BY <1>2
    <3>2. CASE j = n
      BY <1>3, <2>1, <2>2, <3>1, <3>2
    <3>3. CASE j # n
      <4>1. j \in 1 .. n - 1
        BY <1>2, <3>3
      <4> QED BY <1>3, <2>2, <2>3, <3>1, <4>1
    <3> QED BY <3>2, <3>3
  <2>5. path \in Seq(Names) /\ Len(path) = n /\ \A k \in 1 .. n : path[k] = t[2 * k + 1]
    BY <1>2, <2>2, <2>4, NamedIs
  <2> HIDE DEF path
  <2>6. path[n] = r[i]
    <3>1. n \in 1 .. n
      BY <1>2
    <3> QED BY <2>2, <2>5, <3>1
  <2>7. \A j \in 1 .. n - 1 : path[j] = text[2 * j + 1]
    <3> SUFFICES ASSUME NEW j \in 1 .. n - 1 PROVE path[j] = text[2 * j + 1]
      OBVIOUS
    <3>1. j \in 1 .. n
      BY <1>2
    <3> QED BY <2>3, <2>5, <3>1
  <2> QED BY <2>5, <2>6, <2>7 DEF path, t
<1>9. /\ DOMAIN Listed = 1 .. Len(r)
      /\ \A i \in 1 .. Len(r) :
           /\ Listed[i] \in Seq(Names) /\ Len(Listed[i]) = n /\ Listed[i][n] = r[i]
           /\ \A j \in 1 .. n - 1 : Listed[i][j] = text[2 * j + 1]
  BY <1>7, <1>8
<1>10. Listed \in Seq(Paths)
  BY <1>6, <1>7, <1>9 DEF Paths
<1>11. \A path : IsLeftTo(n, path) /\ Len(path) = n <=>
                   /\ Len(path) = n /\ (\A j \in 1 .. n - 1 : path[j] = text[2 * j + 1])
                   /\ \E i \in 1 .. Len(s) : path[n] = s[i]
  <2>1. \A path : Len(path) = n => Len(path) >= n
    BY <1>2
  <2> QED BY <1>6, <2>1 DEF IsLeftTo, IsIn, call
<1> HIDE DEF s
<1>12. ASSUME NEW i \in 1 .. Len(r)
       PROVE  Listed[i] \in FilesOf(n) /\ IsMatch(Listed[i])
  <2>1. Listed[i] \in Paths /\ Len(Listed[i]) = n /\ IsLeftTo(n, Listed[i])
    <3>1. \E j \in 1 .. Len(s) : Listed[i][n] = s[j]
      BY <1>5, <1>9
    <3> QED BY <1>9, <1>11, <3>1 DEF Paths
  <2>2. Last(Listed[i]) \in Matching
    BY <1>5, <1>9 DEF Last
  <2> QED BY <2>1, <2>2 DEF FilesOf, IsMatch
<1>13. ASSUME NEW path \in FilesOf(n), IsMatch(path) PROVE path \in ToSet(Listed)
  <2>1. path \in Seq(Names) /\ Len(path) = n /\ IsLeftTo(n, path)
    BY DEF FilesOf, Paths
  <2>2. (\A j \in 1 .. n - 1 : path[j] = text[2 * j + 1]) /\ \E i \in 1 .. Len(s) : path[n] = s[i]
    BY <1>11, <2>1
  <2>3. path[n] \in Matching
    BY <1>13, <2>1 DEF IsMatch, Last
  <2>4. PICK i \in 1 .. Len(r) : r[i] = path[n]
    BY <1>5, <2>2, <2>3
  <2> DEFINE q == Listed[i]
  <2>5. q \in Seq(Names) /\ Len(q) = n /\ q[n] = path[n] /\ \A j \in 1 .. n - 1 : q[j] = path[j]
    BY <1>9, <2>2, <2>4
  <2>6. i \in DOMAIN Listed
    BY <1>9
  <2> HIDE DEF q
  <2>7. \A j \in 1 .. n : q[j] = path[j]
    <3> SUFFICES ASSUME NEW j \in 1 .. n PROVE q[j] = path[j]
      OBVIOUS
    <3>1. j = n \/ j \in 1 .. n - 1
      BY <1>2
    <3> QED BY <2>5, <3>1
  <2>8. q = path
    BY <2>1, <2>5, <2>7, SeqEqual
  <2> QED BY <2>6, <2>8 DEF ToSet, q
<1>14. ASSUME NEW i \in 1 .. Len(r), NEW j \in 1 .. Len(r), i < j
       PROVE  Before(Listed[i], Listed[j])
  <2> DEFINE p == Listed[i]  q == Listed[j]
  <2>1. /\ p \in Seq(Names) /\ Len(p) = n /\ p[n] = r[i]
        /\ q \in Seq(Names) /\ Len(q) = n /\ q[n] = r[j]
        /\ \A k \in 1 .. n - 1 : p[k] = q[k]
    BY <1>9
  <2>2. r[i] < r[j] /\ r[i] \in Int /\ r[j] \in Int
    BY <1>5, <1>14, NamesAreNumbers DEF IsIncreasing
  <2> HIDE DEF p, q
  <2>3. n \in DOMAIN p \cap DOMAIN q
    BY <1>2, <2>1
  <2>4. p[n] # q[n] /\ p[n] < q[n]
    BY <2>1, <2>2
  <2>5. Before(p, q)
    BY <2>1, <2>3, <2>4 DEF Before
  <2> QED BY <2>5 DEF p, q
<1> QED BY <1>2, <1>9, <1>10, <1>12, <1>13, <1>14

\* The end of a call leaves to its callers what they had to come to, and all of it
\* is behind the files of the call.
LEMMA ReturnComesTo ==
  ASSUME DirInv, Return, NEW n, n = Len(calls), dirAt' # "overrun", walk = "find"
  PROVE  /\ \A path \in Paths : IsToCome(path)' => IsToCome(path)
         /\ \A path \in Paths : IsToCome(path) => IsToCome(path)' \/ path \in FilesOf(n)
         /\ \A path \in FilesOf(n) : IsToCome(path)
         /\ \A k \in DOMAIN calls' : k \in DOMAIN calls /\ FilesOf(k)' = FilesOf(k)
         /\ \A i \in DOMAIN Listed : \A path \in Paths :
               IsToCome(path)' => Before(Listed[i], path)
<1> DEFINE m == IF n = 1 THEN 1 ELSE 2 * (n - 1)
<1>1. PathInv /\ CallsInv
  BY DEF DirInv
<1>2. /\ n \in Nat \ {0} /\ dirAt = "walk" /\ dirAt' \in {"done", "walk"}
      /\ \A i \in 1 .. m : text'[i] = text[i]
      /\ calls' \in Seq(Calls) /\ Len(calls') = n - 1
      /\ \A k \in 1 .. n - 1 : calls'[k] = calls[k]
  BY Returned
<1>3. calls \in Seq(Calls) /\ Len(text) = 2 * n
  BY <1>1, <1>2, TextIs DEF CallsInv
<1>4. DOMAIN calls = 1 .. n /\ DOMAIN calls' = 1 .. n - 1
  BY <1>2, <1>3
<1>5. ASSUME NEW k \in 1 .. n - 1 PROVE \A path : IsLeftTo(k, path)' <=> IsLeftTo(k, path)
  <2>1. n # 1 /\ m = 2 * (n - 1)
    BY <1>2
  <2>2. k \in Nat /\ \A i \in 1 .. 2 * k - 1 : text'[i] = text[i]
    <3>1. \A i \in 1 .. 2 * k - 1 : i \in 1 .. 2 * (n - 1)
      BY <1>2
    <3> QED BY <1>2, <2>1, <3>1
  <2> QED BY <1>2, <2>2, LeftKept
<1> HIDE DEF m
<1>6. ASSUME NEW path PROVE IsToCome(path)' <=> \E k \in 1 .. n - 1 : IsLeftTo(k, path)
  <2>1. IsToCome(path)' <=> \E k \in 1 .. n - 1 : IsLeftTo(k, path)'
    BY <1>2, <1>4 DEF IsToCome, IsBelow
  <2> QED BY <1>5, <2>1
<1>7. ASSUME NEW path PROVE IsToCome(path) <=> \E k \in 1 .. n : IsLeftTo(k, path)
  BY <1>2, <1>4 DEF IsToCome, IsBelow
<1>8. \A k \in 1 .. n : k \in 1 .. n - 1 \/ k = n
  BY <1>2
<1>9. 1 .. n - 1 \subseteq 1 .. n /\ n \in 1 .. n
  BY <1>2
<1>10. ASSUME NEW path \in Paths, IsLeftTo(n, path) PROVE path \in FilesOf(n)
  <2>1. calls[n].next > Len(calls[n].subdirs) /\ calls[n] = Call
    <3>1. calls[n] = Call
      BY DEF Call, Last
    <3> QED BY <3>1 DEF Return, IsRecursive
  <2>2. calls[n].subdirs \in Seq(Names) /\ calls[n].next \in Int
    BY <1>1, <1>9, CallIs
  <2> DEFINE subdirs == calls[n].subdirs  next == calls[n].next
  <2>3. subdirs \in Seq(Names) /\ next \in Int /\ next > Len(subdirs)
    BY <2>1, <2>2
  <2> HIDE DEF subdirs, next
  <2>4. ~ \E i \in DOMAIN subdirs : i >= next
    BY <2>3
  <2>5. Len(path) = n
    BY <1>10, <2>4 DEF IsLeftTo, subdirs, next
  <2> QED BY <1>10, <2>5 DEF FilesOf
<1>11. ASSUME NEW i \in DOMAIN Listed, NEW path \in Paths, IsToCome(path)'
       PROVE  Before(Listed[i], path)
  <2> DEFINE p == Listed[i]
  <2>1. PICK k \in 1 .. n - 1 : IsLeftTo(k, path)
    BY <1>6, <1>11
  <2>2. p \in Seq(Names) /\ Len(p) = n /\ \A j \in 1 .. n - 1 : p[j] = text[2 * j + 1]
    BY <1>2, ListedIs DEF FilesOf, Paths
  <2>3. path \in Seq(Names) /\ Len(path) >= k /\ \A j \in 1 .. k - 1 : path[j] = text[2 * j + 1]
    BY <2>1 DEF IsLeftTo, IsIn, Paths
  <2> DEFINE subdirs == calls[k].subdirs  fs == calls[k].files  next == calls[k].next
  <2>4. k \in 1 .. n /\ k \in 1 .. n - 1 /\ 2 * k + 1 <= Len(text)
    BY <1>2, <1>3
  <2>5. next - 1 \in 1 .. Len(subdirs) /\ text[2 * k + 1] = subdirs[next - 1]
    BY <1>1, <1>2, <2>4, TextIs
  <2>6. /\ subdirs \in Seq(Names) /\ fs \in Seq(Names) /\ next \in 1 .. Len(subdirs) + 1
        /\ IsIncreasing(subdirs)
        /\ \A a \in DOMAIN subdirs, b \in DOMAIN fs : subdirs[a] # fs[b]
    BY <1>1, <2>4, CallIs
  <2>7. IF Len(path) = k THEN \E a \in DOMAIN fs : path[k] = fs[a]
        ELSE \E a \in DOMAIN subdirs : a >= next /\ path[k] = subdirs[a]
    BY <2>1 DEF IsLeftTo
  <2> HIDE DEF p, subdirs, fs, next
  <2>8. k \in DOMAIN p \cap DOMAIN path /\ Len(p) # k
    BY <1>2, <2>2, <2>3, <2>4
  <2>9. \A j \in 1 .. k - 1 : p[j] = path[j]
    <3> SUFFICES ASSUME NEW j \in 1 .. k - 1 PROVE p[j] = path[j]
      OBVIOUS
    <3>1. j \in 1 .. n - 1
      BY <1>2, <2>4
    <3> QED BY <2>2, <2>3, <3>1
  <2>10. p[k] = subdirs[next - 1] /\ next - 1 \in DOMAIN subdirs
    BY <2>2, <2>4, <2>5, <2>6, SMTT(30)
  <2>11. CASE Len(path) = k
    <3>1. PICK a \in DOMAIN fs : path[k] = fs[a]
      BY <2>7, <2>11
    <3>2. p[k] # path[k]
      BY <2>6, <2>10, <3>1
    <3>3. ~ ((Len(p) = k) = (Len(path) = k)) /\ Len(path) = k
      BY <2>8, <2>11
    <3> QED BY <2>8, <2>9, <3>2, <3>3 DEF Before, p
  <2>12. CASE Len(path) # k
    <3>1. PICK a \in DOMAIN subdirs : a >= next /\ path[k] = subdirs[a]
      BY <2>7, <2>12
    <3>2. next - 1 < a /\ a \in 1 .. Len(subdirs)
      BY <2>6, <3>1
    <3>3. subdirs[next - 1] < subdirs[a] /\ subdirs[next - 1] \in Names /\ subdirs[a] \in Names
      BY <2>5, <2>6, <3>2 DEF IsIncreasing
    <3>a. subdirs[next - 1] \in Int /\ subdirs[a] \in Int
      BY <3>3, NamesAreNumbers
    <3>4. p[k] < path[k] /\ p[k] # path[k]
      BY <2>10, <3>1, <3>3, <3>a
    <3>5. (Len(p) = k) = (Len(path) = k)
      BY <2>8, <2>12
    <3> QED BY <2>8, <2>9, <3>4, <3>5 DEF Before, p
  <2> QED BY <2>11, <2>12
<1>12. \A path \in FilesOf(n) : IsToCome(path)
  BY <1>7, <1>9 DEF FilesOf
<1>13. \A k \in 1 .. n - 1 : FilesOf(k)' = FilesOf(k)
  BY <1>5 DEF FilesOf, Paths
<1>14. \A path \in Paths : IsToCome(path)' => IsToCome(path)
  BY <1>6, <1>7, <1>9
<1>15. \A path \in Paths : IsToCome(path) => IsToCome(path)' \/ path \in FilesOf(n)
  BY <1>6, <1>7, <1>8, <1>10
<1> QED BY <1>4, <1>9, <1>11, <1>12, <1>13, <1>14, <1>15

LEMMA PathsAreOf == ASSUME TreeInv PROVE files \subseteq Paths /\ kept \subseteq files /\ files \subseteq seen
<1>1. Closed(dirs, files)
  BY TreeIs DEF TreeInv
<1> QED BY <1>1 DEF Closed, Paths, TreeInv

LEMMA DirInitFindInv == ASSUME DirInit PROVE FindInv
<1>1. found = << >> /\ calls = << >> /\ dirAt = "open" /\ kept = files /\ DirInv
  BY DirInitInv DEF DirInit
<1>2. Len(calls) = 0 /\ DOMAIN calls = {} /\ DOMAIN found = {} /\ found \in Seq(Paths)
  BY <1>1
<1>3. ASSUME NEW path \in kept PROVE IsToCome(path)
  <2>1. path \in Seq(Names) /\ path # << >>
    <3>1. Closed(dirs, files)
      BY <1>1, TreeIs DEF DirInv, TreeInv
    <3> QED BY <1>1, <3>1 DEF Closed
  <2>2. Len(path) >= 1
    BY <2>1
  <2>3. IsIn(path, Len(calls) + 1)
    BY <1>2, <2>2 DEF IsIn
  <2> QED BY <1>1, <2>3 DEF IsToCome, IsBelow
<1>4. NothingPassed
  BY <1>3 DEF NothingPassed
<1>5. FoundIsSeen
  BY <1>2 DEF FoundIsSeen
<1>6. FoundInOrder
  BY <1>2 DEF FoundInOrder
<1> QED BY <1>4, <1>5, <1>6 DEF FindInv, FindsSoFar

\* Each step of find keeps what it found and what it has still to come to together.
LEMMA OpenDirectoryFinds ==
  ASSUME DirInv, OpenDirectory, walk = "find", FindsSoFar PROVE FindsSoFar'
<1>1. UNCHANGED <<kept, seen, files>> /\ found' = found
  BY Opened DEF Tree
<1>2. files \subseteq Paths /\ kept \subseteq files /\ files \subseteq seen
  BY PathsAreOf DEF DirInv
<1>3. /\ \A path \in Paths : IsToCome(path)' => IsToCome(path)
      /\ \A path \in Paths : path \in files /\ IsToCome(path) => IsToCome(path)'
      /\ \A k \in DOMAIN calls' : k \in DOMAIN calls \/ FilesOf(k)' \subseteq files
      /\ \A k \in DOMAIN calls : FilesOf(k)' = FilesOf(k)
  BY OpenDirectoryComesTo
<1>4. NothingPassed'
  <2> SUFFICES ASSUME NEW path \in kept, IsMatch(path)
               PROVE  path \in ToSet(found) \/ IsToCome(path)'
    BY <1>1 DEF NothingPassed, IsMatch
  <2>1. path \in ToSet(found) \/ IsToCome(path)
    BY DEF FindsSoFar, NothingPassed
  <2> QED BY <1>2, <1>3, <2>1
<1>5. FoundIsSeen'
  <2>1. \A k \in DOMAIN calls' : FilesOf(k)' \subseteq seen
    BY <1>2, <1>3 DEF FindsSoFar, FoundIsSeen
  <2>2. found \in Seq(Paths) /\ \A i \in DOMAIN found : found[i] \in seen /\ IsMatch(found[i])
    BY DEF FindsSoFar, FoundIsSeen
  <2> QED BY <1>1, <2>1, <2>2 DEF FoundIsSeen, IsMatch, Paths
<1>6. FoundInOrder'
  BY <1>1, <1>3 DEF FindsSoFar, FoundInOrder, Before, Paths
<1> QED BY <1>4, <1>5, <1>6 DEF FindsSoFar

LEMMA DescendFinds ==
  ASSUME DirInv, Descend, dirAt' # "overrun", FindsSoFar PROVE FindsSoFar'
<1>1. UNCHANGED <<kept, seen, files>> /\ found' = found
  BY Descended DEF Tree
<1>2. files \subseteq Paths /\ kept \subseteq files
  BY PathsAreOf DEF DirInv
<1>3. /\ \A path \in Paths : IsToCome(path)' <=> IsToCome(path)
      /\ DOMAIN calls' = DOMAIN calls
      /\ \A k \in DOMAIN calls : FilesOf(k)' = FilesOf(k)
  BY DescendComesTo
<1>4. NothingPassed'
  <2> SUFFICES ASSUME NEW path \in kept, IsMatch(path)
               PROVE  path \in ToSet(found) \/ IsToCome(path)'
    BY <1>1 DEF NothingPassed, IsMatch
  <2>1. path \in ToSet(found) \/ IsToCome(path)
    BY DEF FindsSoFar, NothingPassed
  <2> QED BY <1>2, <1>3, <2>1
<1>5. FoundIsSeen'
  <2>1. \A k \in DOMAIN calls' : FilesOf(k)' \subseteq seen
    BY <1>3 DEF FindsSoFar, FoundIsSeen
  <2>2. found \in Seq(Paths) /\ \A i \in DOMAIN found : found[i] \in seen /\ IsMatch(found[i])
    BY DEF FindsSoFar, FoundIsSeen
  <2> QED BY <1>1, <2>1, <2>2 DEF FoundIsSeen, IsMatch, Paths
<1>6. FoundInOrder'
  BY <1>1, <1>3 DEF FindsSoFar, FoundInOrder, Before, Paths
<1> QED BY <1>4, <1>5, <1>6 DEF FindsSoFar

LEMMA ReturnFinds ==
  ASSUME DirInv, Return, dirAt' # "overrun", walk = "find", FindsSoFar PROVE FindsSoFar'
<1> DEFINE n == Len(calls)  new == Listed
<1>1. UNCHANGED <<kept, seen, files>> /\ dirAt = "walk"
  BY Returned DEF Tree
<1>2. found' = found \o new
  BY DEF Return, Listed
<1>3. files \subseteq Paths /\ kept \subseteq files
  BY PathsAreOf DEF DirInv
<1>4. /\ n \in Nat \ {0} /\ new \in Seq(Paths)
      /\ \A i \in DOMAIN new : new[i] \in FilesOf(n) /\ IsMatch(new[i])
      /\ \A path \in FilesOf(n) : IsMatch(path) => path \in ToSet(new)
      /\ \A i, j \in DOMAIN new : i < j => Before(new[i], new[j])
  BY <1>1, ListedIs
<1>5. /\ \A path \in Paths : IsToCome(path)' => IsToCome(path)
      /\ \A path \in Paths : IsToCome(path) => IsToCome(path)' \/ path \in FilesOf(n)
      /\ \A path \in FilesOf(n) : IsToCome(path)
      /\ \A k \in DOMAIN calls' : k \in DOMAIN calls /\ FilesOf(k)' = FilesOf(k)
      /\ \A i \in DOMAIN new : \A path \in Paths : IsToCome(path)' => Before(new[i], path)
  BY ReturnComesTo
<1>6. n \in DOMAIN calls /\ FilesOf(n) \subseteq Paths
  <2>1. calls \in Seq(Calls)
    BY DEF DirInv, CallsInv
  <2> QED BY <1>4, <2>1 DEF FilesOf
<1>7. /\ found \in Seq(Paths)
      /\ \A i \in DOMAIN found : found[i] \in seen /\ IsMatch(found[i])
      /\ \A k \in DOMAIN calls : FilesOf(k) \subseteq seen
  BY DEF FindsSoFar, FoundIsSeen
<1>8. /\ \A i, j \in DOMAIN found : i < j => Before(found[i], found[j])
      /\ \A i \in DOMAIN found : \A path \in Paths : IsToCome(path) => Before(found[i], path)
  BY DEF FindsSoFar, FoundInOrder
<1>9. \A path \in kept : IsMatch(path) => path \in ToSet(found) \/ IsToCome(path)
  BY DEF FindsSoFar, NothingPassed
<1> HIDE DEF new, n
<1> DEFINE a == Len(found)  all == found \o new
<1>10. /\ a \in Nat /\ Len(new) \in Nat /\ DOMAIN found = 1 .. a /\ DOMAIN new = 1 .. Len(new)
  BY <1>4, <1>7
<1>11. /\ all \in Seq(Paths) /\ DOMAIN all = 1 .. a + Len(new)
       /\ \A i \in 1 .. a : all[i] = found[i]
       /\ \A i \in 1 .. Len(new) : all[a + i] = new[i]
  BY <1>4, <1>7
<1> HIDE DEF a, all
<1>12. \A i \in DOMAIN all : \/ i \in DOMAIN found /\ all[i] = found[i]
                             \/ i - a \in DOMAIN new /\ i > a /\ all[i] = new[i - a]
  <2> SUFFICES ASSUME NEW i \in 1 .. a + Len(new)
               PROVE  \/ i \in 1 .. a /\ all[i] = found[i]
                      \/ i - a \in 1 .. Len(new) /\ i > a /\ all[i] = new[i - a]
    BY <1>10, <1>11
  <2>1. CASE i \in 1 .. a
    BY <1>11, <2>1
  <2>2. CASE i \notin 1 .. a
    <3>1. i - a \in 1 .. Len(new) /\ i > a /\ a + (i - a) = i
      BY <1>10, <2>2
    <3> QED BY <1>11, <3>1
  <2> QED BY <2>1, <2>2
<1>13. ToSet(found) \subseteq ToSet(all) /\ ToSet(new) \subseteq ToSet(all)
  <2>1. ASSUME NEW i \in DOMAIN found PROVE found[i] \in ToSet(all)
    <3>1. i \in DOMAIN all /\ all[i] = found[i]
      BY <1>10, <1>11
    <3> QED BY <3>1 DEF ToSet
  <2>2. ASSUME NEW i \in DOMAIN new PROVE new[i] \in ToSet(all)
    <3>1. a + i \in DOMAIN all /\ all[a + i] = new[i]
      BY <1>10, <1>11
    <3> QED BY <3>1 DEF ToSet
  <2> QED BY <2>1, <2>2 DEF ToSet
<1>14. found' = all
  BY <1>2 DEF all
<1>15. NothingPassed'
  <2> SUFFICES ASSUME NEW path \in kept, IsMatch(path)
               PROVE  path \in ToSet(all) \/ IsToCome(path)'
    BY <1>1, <1>14 DEF NothingPassed, IsMatch
  <2>1. CASE path \in ToSet(found)
    BY <1>13, <2>1
  <2>2. CASE IsToCome(path)
    <3>1. IsToCome(path)' \/ path \in FilesOf(n)
      BY <1>3, <1>5, <2>2
    <3> QED BY <1>4, <1>13, <3>1
  <2> QED BY <1>9, <2>1, <2>2
<1>16. FoundIsSeen'
  <2>1. \A k \in DOMAIN calls' : FilesOf(k)' \subseteq seen
    BY <1>5, <1>7
  <2>2. \A i \in DOMAIN all : all[i] \in seen /\ IsMatch(all[i])
    <3> SUFFICES ASSUME NEW i \in DOMAIN all PROVE all[i] \in seen /\ IsMatch(all[i])
      OBVIOUS
    <3>1. CASE i \in DOMAIN found /\ all[i] = found[i]
      BY <1>7, <3>1
    <3>2. CASE i - a \in DOMAIN new /\ all[i] = new[i - a]
      BY <1>4, <1>6, <1>7, <3>2
    <3> QED BY <1>12, <3>1, <3>2
  <2> QED BY <1>1, <1>11, <1>14, <2>1, <2>2 DEF FoundIsSeen, IsMatch, Paths
<1>17. ASSUME NEW i \in DOMAIN all, NEW j \in DOMAIN all, i < j PROVE Before(all[i], all[j])
  <2>0. i \in Int /\ j \in Int
    BY <1>10, <1>11
  <2>1. CASE i \in DOMAIN found /\ all[i] = found[i]
    <3>1. CASE j \in DOMAIN found /\ all[j] = found[j]
      BY <1>8, <1>17, <2>1, <3>1
    <3>2. CASE j - a \in DOMAIN new /\ all[j] = new[j - a]
      BY <1>4, <1>5, <1>6, <1>8, <2>1, <3>2
    <3> QED BY <1>12, <3>1, <3>2
  <2>2. CASE i - a \in DOMAIN new /\ i > a /\ all[i] = new[i - a]
    <3>1. j \notin DOMAIN found
      BY <1>10, <1>17, <2>0, <2>2
    <3>2. j - a \in DOMAIN new /\ all[j] = new[j - a]
      BY <1>12, <3>1
    <3>3. i - a < j - a
      BY <1>10, <1>17, <2>0
    <3> QED BY <1>4, <2>2, <3>2, <3>3
  <2> QED BY <1>12, <2>1, <2>2
<1>18. ASSUME NEW i \in DOMAIN all, NEW path \in Paths, IsToCome(path)' PROVE Before(all[i], path)
  <2>1. IsToCome(path)
    BY <1>5, <1>18
  <2>2. CASE i \in DOMAIN found /\ all[i] = found[i]
    BY <1>8, <2>1, <2>2
  <2>3. CASE i - a \in DOMAIN new /\ all[i] = new[i - a]
    BY <1>5, <1>18, <2>3
  <2> QED BY <1>12, <2>2, <2>3
<1>19. FoundInOrder'
  BY <1>14, <1>17, <1>18 DEF FoundInOrder, Before, Paths
<1> QED BY <1>15, <1>16, <1>19 DEF FindsSoFar

LEMMA FindStepKeepsInv == ASSUME DirInv, FindInv, [DirNext]_dirVars PROVE FindInv'
<1> SUFFICES ASSUME walk' = "find", dirAt' \in {"open", "walk", "done"} PROVE FindsSoFar'
  BY DEF FindInv
<1>1. ~ OpenFails
  BY DEF OpenFails
<1>2. CASE OpenDirectory
  <2>1. walk = "find" /\ dirAt = "open"
    BY <1>2 DEF OpenDirectory
  <2> QED BY <1>2, <2>1, OpenDirectoryFinds DEF FindInv
<1>3. CASE Descend
  <2>1. walk = "find" /\ dirAt = "walk"
    BY <1>3 DEF Descend
  <2> QED BY <1>3, <2>1, DescendFinds DEF FindInv
<1>4. CASE Return
  <2>1. walk = "find" /\ dirAt = "walk"
    BY <1>4 DEF Return
  <2> QED BY <1>4, <2>1, ReturnFinds DEF FindInv
<1>5. ~ printDirectory
  BY DEF printDirectory
<1>6. CASE EntryCreated \/ EntryRemoved
  <2>1. UNCHANGED <<walk, text, calls, found, dirAt>>
    BY <1>6 DEF EntryCreated, EntryRemoved, Changes
  <2>2. FindsSoFar
    BY <2>1 DEF FindInv
  <2>3. kept' \subseteq kept /\ seen \subseteq seen'
    BY <1>6, TreeChanges DEF DirInv
  <2>4. NothingPassed'
    <3>1. \A path : IsToCome(path)' <=> IsToCome(path)
      BY <2>1 DEF IsToCome, IsLeftTo, IsBelow, IsIn
    <3> QED BY <2>1, <2>2, <2>3, <3>1 DEF FindsSoFar, NothingPassed, IsMatch
  <2>5. FoundIsSeen'
    <3>1. \A k \in DOMAIN calls : FilesOf(k)' = FilesOf(k)
      BY <2>1 DEF FilesOf, IsLeftTo, IsIn, Paths
    <3> QED BY <2>1, <2>2, <2>3, <3>1 DEF FindsSoFar, FoundIsSeen, IsMatch, Paths
  <2>6. FoundInOrder'
    <3>1. \A path : IsToCome(path)' <=> IsToCome(path)
      BY <2>1 DEF IsToCome, IsLeftTo, IsBelow, IsIn
    <3> QED BY <2>1, <2>2, <3>1 DEF FindsSoFar, FoundInOrder, Before, Paths
  <2> QED BY <2>4, <2>5, <2>6 DEF FindsSoFar
<1>7. CASE UNCHANGED dirVars
  <2>1. UNCHANGED <<walk, text, calls, found, dirAt, kept, seen>>
    BY <1>7 DEF dirVars
  <2>2. FindsSoFar
    BY <2>1 DEF FindInv
  <2>3. \A path : IsToCome(path)' <=> IsToCome(path)
    BY <2>1 DEF IsToCome, IsLeftTo, IsBelow, IsIn
  <2>4. \A k \in DOMAIN calls : FilesOf(k)' = FilesOf(k)
    BY <2>1 DEF FilesOf, IsLeftTo, IsIn, Paths
  <2>5. NothingPassed' /\ FoundIsSeen'
    BY <2>1, <2>2, <2>3, <2>4 DEF FindsSoFar, NothingPassed, FoundIsSeen, IsMatch, Paths
  <2>6. FoundInOrder'
    BY <2>1, <2>2, <2>3 DEF FindsSoFar, FoundInOrder, Before, Paths
  <2> QED BY <2>5, <2>6 DEF FindsSoFar
<1> QED BY <1>1, <1>2, <1>3, <1>4, <1>5, <1>6, <1>7 DEF DirNext

\* However the tree changes under it, find lists no path twice and none that was never
\* a match, every match that was there all the time, and all in the order of the names
\* (directory.c:255-301).
THEOREM FindListsTheMatches == DirSpec => []FindsTheFiles
<1>1. DirInv /\ FindInv => FindsTheFiles
  <2> SUFFICES ASSUME DirInv, FindInv, walk = "find", dirAt = "done"
               PROVE  /\ {p \in kept : IsMatch(p)} \subseteq ToSet(found)
                      /\ \A i \in DOMAIN found : found[i] \in seen /\ IsMatch(found[i])
                      /\ \A i, j \in DOMAIN found : i < j => Before(found[i], found[j])
    BY DEF FindsTheFiles
  <2>1. NothingPassed /\ FoundIsSeen /\ FoundInOrder
    BY DEF FindInv, FindsSoFar
  <2>2. calls = << >>
    BY DEF DirInv, PathInv
  <2>3. \A path : ~ IsToCome(path)
    <3>1. DOMAIN calls = {}
      BY <2>2
    <3> QED BY <3>1 DEF IsToCome, IsBelow
  <2> QED BY <2>1, <2>3 DEF NothingPassed, FoundIsSeen, FoundInOrder
<1>2. DirInit => DirInv /\ FindInv
  BY DirInitInv, DirInitFindInv
<1>3. DirInv /\ FindInv /\ [DirNext]_dirVars => (DirInv /\ FindInv)'
  BY DirStepKeepsInv, FindStepKeepsInv
<1> QED BY <1>1, <1>2, <1>3, PTL DEF DirSpec

================================================================================
