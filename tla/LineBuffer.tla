----------------------------- MODULE LineBuffer -----------------------------
(***************************************************************************)
(* text/linebuffer: a page that is filled from a descriptor and gives out  *)
(* the lines in it, each where it lies.  What is left without a newline    *)
(* moves to the front, and the next read goes behind it.  The reader calls *)
(* populateLineBuffer and getLine in any order while another process       *)
(* writes behind the file, as it does to a log.                            *)
(***************************************************************************)
EXTENDS Integers, Sequences

CONSTANTS
    BufferSize,     \* C196BC72_BUFFER_SIZE
    NEWLINE, NUL,   \* two characters
    Texts,          \* what is written at a time
    MaxFile         \* bound: the length of the file

VARIABLES
    file,           \* what the descriptor leads to
    position,       \* how much of it was read
    buffer,         \* the first "size" characters of lineBuffer->buffer
    length,         \* lineBuffer->length: how much of them was given out
    line,           \* what getLine returned, if it was the last call
    numBytes,       \* what populateLineBuffer returned
    taken           \* how much of the file the lines given out make

readerVars == <<position, buffer, length, line, numBytes, taken>>
lineVars == <<file, readerVars>>

SYSTEM_ERROR_CODE == -1
NotCalled == 1          \* populateLineBuffer was not called yet
NULL == [found |-> FALSE, text |-> << >>]
Line(text) == [found |-> TRUE, text |-> text]

Smaller(n, m) == IF n < m THEN n ELSE m

initLineBuffer ==
    /\ file \in Texts /\ position = 0
    /\ buffer = << >> /\ length = 0
    /\ line = NULL /\ numBytes = NotCalled
    /\ taken = 0

IsRunning == numBytes # SYSTEM_ERROR_CODE

\* read(): at the end of the file, and into no room at all, it takes nothing;
\* otherwise as much as it likes.  Whoever is answered 0 cannot tell them apart.
Reads ==
    LET most == Smaller(BufferSize - Len(buffer), Len(file) - position)
    IN  {n \in 0 .. most : n = 0 => most = 0}

populateLineBuffer ==
    /\ IsRunning
    /\ \E n \in Reads :
         /\ buffer' = buffer \o SubSeq(file, position + 1, position + n)
         /\ position' = position + n
         /\ numBytes' = n
    /\ line' = NULL
    /\ UNCHANGED <<file, length, taken>>

populateFails ==
    /\ IsRunning
    /\ numBytes' = SYSTEM_ERROR_CODE
    /\ UNCHANGED <<file, position, buffer, length, line, taken>>

\* Where the search for the newline stops: there, or at a NUL.
Stops == {i \in length + 1 .. Len(buffer) : buffer[i] \in {NEWLINE, NUL}}
IsFirst(i) == i \in Stops /\ \A k \in Stops : i <= k

\* A mutant for the runs: the copy begins with what was given out.
KeptFromStart == SubSeq(buffer, 1, Len(buffer) - length)

Kept == SubSeq(buffer, length + 1, Len(buffer))

LineFound(i) ==
    /\ IsFirst(i) /\ buffer[i] = NEWLINE
    /\ line' = Line(SubSeq(buffer, length + 1, i - 1))
    /\ buffer' = [buffer EXCEPT ![i] = NUL]
    /\ length' = i
    /\ taken' = taken + (i - length)

StoppedAtNul(i) ==
    /\ IsFirst(i) /\ buffer[i] = NUL
    /\ line' = NULL
    /\ UNCHANGED <<buffer, length, taken>>

NewlineNotFound ==
    /\ Stops = {} /\ length < Len(buffer)
    /\ line' = NULL
    /\ buffer' = Kept
    /\ length' = 0
    /\ UNCHANGED taken

\* length = size: nothing is moved, the next read goes behind what is there.
NothingLeft ==
    /\ length = Len(buffer)
    /\ line' = NULL
    /\ UNCHANGED <<buffer, length, taken>>

getLine ==
    /\ IsRunning
    /\ \/ \E i \in length + 1 .. Len(buffer) : LineFound(i) \/ StoppedAtNul(i)
       \/ NewlineNotFound
       \/ NothingLeft
    /\ UNCHANGED <<file, position, numBytes>>

\* The same search in a FileBuffer from its dataOffset.  Its count of bytes is
\* looked at after the first character: with none left it runs on into
\* whatever is behind.
getLineFromFileBuffer(data, dataOffset, behind) ==
    LET text == IF dataOffset < Len(data) THEN SubSeq(data, dataOffset + 1, Len(data)) ELSE behind
        ends == {i \in DOMAIN text : text[i] \in {NEWLINE, NUL}}
    IN  IF \E i \in ends : text[i] = NEWLINE /\ \A k \in ends : i <= k
        THEN Line(SubSeq(text, 1, (CHOOSE i \in ends : \A k \in ends : i <= k) - 1))
        ELSE NULL

\* The process that writes the file.
Appended ==
    /\ \E text \in Texts :
         /\ Len(file) + Len(text) <= MaxFile
         /\ file' = file \o text
    /\ UNCHANGED readerVars

LineNext == populateLineBuffer \/ populateFails \/ getLine \/ Appended

LineSpec == initLineBuffer /\ [][LineNext]_lineVars

------------------------------------------------------------------------------
\* What is in the buffer and was not given out is what follows in the file.
NothingIsLost ==
    SubSeq(buffer, length + 1, Len(buffer)) = SubSeq(file, taken + 1, position)

\* The line given out is the last one of what was taken: it begins where the
\* file or another line does, and ends before its newline.
IsLineOfFile ==
    line.found =>
      LET first == taken - Len(line.text) IN
      /\ first >= 1
      /\ SubSeq(file, first, taken) = Append(line.text, NEWLINE)
      /\ first = 1 \/ file[first - 1] = NEWLINE
      /\ \A k \in DOMAIN line.text : line.text[k] # NEWLINE

\* The same bytes in a FileBuffer hold the same next line.
SameInAFileBuffer ==
    length < Len(buffer) =>
      LET next == getLineFromFileBuffer(buffer, length, << >>) IN
      next.found =>
         /\ SubSeq(file, taken + 1, taken + Len(next.text) + 1) = Append(next.text, NEWLINE)
         /\ \A k \in DOMAIN next.text : next.text[k] # NEWLINE

\* However the file arrives, in whatever parts and while it grows, its lines are
\* given out one after another, none lost, repeated or cut in two
\* (linebuffer.linux-x86_64.asm:138-238, 242-352).
LinesAreTheFiles == NothingIsLost /\ IsLineOfFile /\ SameInAFileBuffer
=============================================================================
