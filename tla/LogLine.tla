------------------------------ MODULE LogLine ------------------------------
(***************************************************************************)
(* log/logline.c: a line of the firewall's log, taken apart in place.  The *)
(* fields of a LogLine point into the line's buffer, which the next line   *)
(* overwrites; cloneLogLine copies the part they point to and points the   *)
(* clone's fields into the copy.  A character or a word of a line is one   *)
(* cell, and so is a label such as "SRC=".                                 *)
(***************************************************************************)
EXTENDS Integers, Sequences, SequencesExt

CONSTANTS
    Lines,      \* the lines of the log: sequences of cells that end with Nul
    MaxClones   \* bound: clones made

Nul == 0
Space == 1
In == 2      Out == 3     Mac == 4    Src == 5
Dst == 6     Proto == 7   Type == 8   Spt == 9   Dpt == 10
Labels == <<In, Out, Mac, Src, Dst, Proto>>
ICMP == 11   ICMPv6 == 12   Two == 13   Igmp == 14

Buffer  == 0     \* where the line is
Literal == -1    \* the string IGMP of the program
NoBlock == -2

Pointer(block, at) == [block |-> block, at |-> at]
NULL == Pointer(NoBlock, 0)
Unset == Pointer(NoBlock, 1)    \* whatever malloc left there
IGMP == Pointer(Literal, 1)

VARIABLES
    memory,     \* the line's buffer and the clones' own memory
    logLine,    \* the LogLine of the line in the buffer, if it has been taken apart
    clones,     \* the clones, destroyed ones included
    meant,      \* what each clone's LogLine said when it was cloned
    crashed

vars == <<memory, logLine, clones, meant, crashed>>

------------------------------------------------------------------------------
EndOfField(text, at) ==
    CHOOSE k \in at .. Len(text) :
       text[k] \in {Space, Nul} /\ \A j \in at .. k - 1 : text[j] \notin {Space, Nul}

\* search: where the value behind the label begins, 0 if it is not there.
search(label, text, from) ==
    LET found == {k \in from .. Len(text) :
                     text[k] = label /\ \A j \in from .. k : text[j] # Nul}
    IN  IF found = {} THEN 0 ELSE 1 + CHOOSE k \in found : \A j \in found : k <= j

\* terminateField writes a NUL where the field ends and goes on behind it.
terminateField(at, line) ==
    LET end == EndOfField(line.text, at)
    IN  [line EXCEPT !.text[end] = Nul, !.position = end + 1, !.fields = Append(@, at)]

\* Without the label the pointer is NULL, and terminateField writes through it;
\* only the MAC address may be missing.
TakeField(line, label) ==
    LET at == search(label, line.text, line.position)
    IN  IF line.failed THEN line
        ELSE IF at # 0 THEN terminateField(at, line)
        ELSE IF label = Mac THEN [line EXCEPT !.fields = Append(@, 0)]
        ELSE [line EXCEPT !.failed = TRUE]

TakeFields(line, labels) == FoldLeft(TakeField, line, labels)

\* Which fields follow depends on the protocol, and every one must be there.
PortLabels(protocol) ==
    IF protocol \in {ICMP, ICMPv6} THEN <<Type>> ELSE IF protocol = Two THEN << >> ELSE <<Spt, Dpt>>

At(k) == IF k = 0 THEN NULL ELSE Pointer(Buffer, k)

LogLineOf(line, head) ==
    LET f == line.fields
        port(k) == IF k <= Len(f) THEN line.text[f[k]] ELSE 0
    IN  [in |-> At(f[1]), out |-> At(f[2]), macAddress |-> At(f[3]), sourceIPAddr |-> At(f[4]),
         destIPAddr |-> At(f[5]),
         protocol |-> IF line.text[f[6]] = Two THEN IGMP ELSE At(f[6]),
         sourcePort |-> port(7), destPort |-> port(8),
         lineLength |-> head.position - f[1], count |-> 1]

initLogLine(text) ==
    LET new  == [text |-> text, position |-> 1, fields |-> << >>, failed |-> FALSE]
        head == TakeFields(new, Labels)
        line == IF head.failed THEN head
                ELSE TakeFields(head, PortLabels(head.text[head.fields[6]]))
    IN  IF line.failed
        THEN crashed' = TRUE /\ UNCHANGED <<memory, logLine, clones, meant>>
        ELSE /\ memory' = [memory EXCEPT ![Buffer] = line.text]
             /\ logLine' = <<LogLineOf(line, head)>>
             /\ UNCHANGED <<clones, meant, crashed>>

------------------------------------------------------------------------------
TextAt(p) ==
    IF p.block = NoBlock THEN << >>
    ELSE LET text == memory[p.block] IN SubSeq(text, p.at, EndOfField(text, p.at) - 1)

\* What a LogLine says, of its MAC address only if the line had one.
Says(l, hasMac) ==
    <<TextAt(l.in), TextAt(l.out), IF hasMac THEN TextAt(l.macAddress) ELSE << >>,
      TextAt(l.sourceIPAddr), TextAt(l.destIPAddr), TextAt(l.protocol), l.sourcePort,
      l.destPort, l.count>>

\* A mutant for the runs: the text of the clone's protocol stays the line's.
CloneOfKeepingProtocol(l, block) ==
    LET moved(p) == Pointer(block, p.at - l.in.at + 1)
    IN  [l EXCEPT !.in = moved(@), !.out = moved(@), !.sourceIPAddr = moved(@),
                  !.destIPAddr = moved(@), !.macAddress = IF @ = NULL THEN Unset ELSE moved(@)]

\* The fields of the clone are as far from its "in" as they were before; one
\* without a MAC address keeps what malloc left in its place.
CloneOf(l, block) ==
    LET moved(p) == Pointer(block, p.at - l.in.at + 1)
    IN  [l EXCEPT !.in = moved(@), !.out = moved(@), !.sourceIPAddr = moved(@),
                  !.destIPAddr = moved(@),
                  !.macAddress = IF @ \in {NULL, Unset} THEN Unset ELSE moved(@),
                  !.protocol = IF TextAt(@) = <<Igmp>> THEN IGMP ELSE moved(@)]

cloneLogLine(l, said) ==
    LET block == Len(clones) + 1
    IN  /\ Len(clones) < MaxClones
        /\ clones' = Append(clones, CloneOf(l, block))
        /\ memory' = [memory EXCEPT
               ![block] = SubSeq(memory[l.in.block], l.in.at, l.in.at + l.lineLength - 1)]
        /\ meant' = Append(meant, said)
        /\ UNCHANGED <<logLine, crashed>>

HasMac(l) == l.macAddress \notin {NULL, Unset}

\* The memory is freed with the LogLine; its clones have their own.
destroyLogLine(k) ==
    /\ memory[k] # << >>
    /\ memory' = [memory EXCEPT ![k] = << >>]
    /\ UNCHANGED <<logLine, clones, meant, crashed>>

------------------------------------------------------------------------------
Init ==
    /\ memory = [b \in Literal .. MaxClones |-> IF b = Literal THEN <<Igmp, Nul>> ELSE << >>]
    /\ logLine = << >>
    /\ clones = << >>
    /\ meant = << >>
    /\ crashed = FALSE

Next ==
    /\ ~crashed
    /\ \/ \E text \in Lines : initLogLine(text)
       \/ logLine # << >> /\ cloneLogLine(logLine[1], [said |-> Says(logLine[1], TRUE), mac |-> HasMac(logLine[1])])
       \/ \E k \in DOMAIN clones : memory[k] # << >> /\ cloneLogLine(clones[k], meant[k])
       \/ \E k \in DOMAIN clones : destroyLogLine(k)

Spec == Init /\ [][Next]_vars

------------------------------------------------------------------------------
\* A clone goes on saying what its line said, whatever line is read into the
\* buffer after it and whichever LogLine is destroyed.
CloneIsIndependent ==
    \A k \in DOMAIN clones :
       memory[k] # << >> => Says(clones[k], meant[k].mac) = meant[k].said
=============================================================================
