----------------------------- MODULE System_proofs -----------------------------
(***************************************************************************)
(* Proofs about the three parts of the library that read what another      *)
(* process writes: a program that is executed, the kernel behind a socket, *)
(* and the lines of a file that grows.                                     *)
(*                                                                         *)
(* For a pipe and a buffer of any size and any amount of output: a caller  *)
(* gets all the output of the program it executes, or none.                *)
(*                                                                         *)
(* For tables of any size, cut into datagrams in any way, an ioBuffer of   *)
(* any length and any number of queries: what a query reads is the answer  *)
(* to its own request.  The property is about one step; the invariant says *)
(* why no other answer can be there, in the dump that the kernel has still *)
(* to send, in the datagrams it has queued, and when no query runs.        *)
(* What a finished query leaves in the device is what the tables say of    *)
(* it.  The invariant: the rows of the answer are cut into those that the  *)
(* query has come to, those of each datagram on the socket and those still *)
(* to send, and the device holds what is right for the first of them.      *)
(*                                                                         *)
(* For every size of a LineBuffer, all texts and every way the file        *)
(* arrives and grows: the lines that are given out are those of the file,  *)
(* one after another.  The invariant compares buffer and file character by *)
(* character; that what was taken ends with a newline is what it adds.     *)
(***************************************************************************)
EXTENDS Process, NetworkDevice, LineBuffer, SequenceTheorems, FiniteSetTheorems, TLAPS

-------------------------------------------------------------------------------
(* The execution of a program.                                             *)

\* The sizes of the pipe and of the buffer, and how much a program prints.
ProcessAssumption ==
    /\ Capacity \in Nat
    /\ BufLen \in Nat \ {0}
    /\ Outputs \subseteq Nat

Alive == {"forked", "redirected", "running"}

ProcessTypeOK ==
    /\ parent \in {"called", "forked", "reading", "waiting",
                   "returned", "exited", "aborted"}
    /\ child \in {"none", "ended"} \union Alive
    /\ content \in Nat /\ total \in Nat /\ printed \in Nat
    /\ caller \in Callers

\* The StringBuilder is never smaller than the buffer, and never written past.
BuilderFits ==
    /\ output \in [length : Nat, size : {BufLen}, room : Nat, nul : Nat,
                   aborted : BOOLEAN, overrun : {FALSE}]
    /\ BufLen <= output.room

\* What was printed is in the pipe or was read.
NothingLost == ~output.aborted => output.length + content = printed

\* A child that has not ended holds the pipe open.
ChildHoldsThePipe ==
    /\ child \in Alive => "child write" \in ends
    /\ child = "none" => parent \in {"called", "exited"}
    /\ parent = "called" => child = "none"

\* Only a program that printed everything ended well.
SuccessIsWhole == status = "success" => child = "ended" /\ printed = total

\* What the parent knows where it is.
ParentKnows ==
    /\ output.aborted => parent = "aborted"
    /\ parent = "waiting" /\ caller # "waits first" => child = "ended" /\ content = 0
    /\ parent = "reading" /\ caller = "waits first" => status = "success"
    /\ parent = "returned" => status = "success" /\ content = 0

\* The inductive invariant.
ProcessInv ==
    /\ ProcessTypeOK /\ BuilderFits /\ NothingLost
    /\ ChildHoldsThePipe /\ SuccessIsWhole /\ ParentKnows

-------------------------------------------------------------------------------
\* A block that was read either aborts the program or is at the end of the text,
\* for which there was room.
LEMMA AppendBytesIs ==
  ASSUME ProcessAssumption, BuilderFits, ~output.aborted, NEW n \in Nat \ {0},
         output' = SB!appendBytes(output, n)
  PROVE  /\ BuilderFits'
         /\ ~output'.aborted => output'.length = output.length + n
<1> DEFINE newLength == output.length + n + 1
           room == newLength + (newLength \div 2)
           nul == IF output.nul = output.length THEN output.length + n ELSE output.nul
           resized == [output EXCEPT !.room = room,
                                     !.overrun = @ \/ room < output.length]
           stopped == [output EXCEPT !.aborted = TRUE]
<1>1. /\ output \in [length : Nat, size : {BufLen}, room : Nat, nul : Nat,
                     aborted : BOOLEAN, overrun : {FALSE}]
      /\ BufLen <= output.room /\ BufLen \in Nat
      /\ output.length \in Nat /\ output.room \in Nat /\ output.nul \in Nat
      /\ output.size = BufLen /\ output.overrun = FALSE
  BY DEF BuilderFits, ProcessAssumption
<1>2. newLength \in Nat /\ room \in Nat /\ newLength <= room
      /\ output.length + n < newLength /\ ~(room < output.length)
  BY <1>1
<1>3. CASE newLength >= output.size /\ output.length = 0
  <2>1. output' = stopped
    BY <1>1, <1>3 DEF SB!appendBytes, SB!resizeStringBuilder, SB!Written
  <2> QED
    BY <1>1, <2>1 DEF BuilderFits
<1>4. CASE newLength >= output.size /\ output.length # 0
  <2>1. /\ resized.aborted = FALSE /\ resized.length = output.length
        /\ resized.room = room /\ resized.overrun = FALSE /\ resized.nul = output.nul
        /\ resized.size = BufLen
        /\ resized \in [length : Nat, size : {BufLen}, room : Nat, nul : Nat,
                        aborted : BOOLEAN, overrun : {FALSE}]
    <3> HIDE DEF room
    <3> QED
      BY <1>1, <1>2
  <2>2. output' = SB!Written(resized, n)
    BY <1>4 DEF SB!appendBytes, SB!resizeStringBuilder, SB!OneAndAHalf
  <2> HIDE DEF resized
  <2>3. ~(output.length + n >= room) /\ BufLen <= room
    <3> HIDE DEF newLength
    <3> QED
      BY <1>1, <1>2, <1>4
  <2>4. output' = [resized EXCEPT !.length = output.length + n,
                                  !.nul = nul,
                                  !.overrun = FALSE]
    BY <2>1, <2>2, <2>3 DEF SB!Written
  <2>5. nul \in Nat /\ output.length + n \in Nat
    BY <1>1
  <2> HIDE DEF nul, room, newLength
  <2> QED
    BY <1>2, <2>1, <2>3, <2>4, <2>5 DEF BuilderFits
<1>5. CASE ~(newLength >= output.size)
  <2>1. ~(output.length + n >= output.room)
    BY <1>1, <1>2, <1>5
  <2>2. output' = [output EXCEPT !.length = output.length + n,
                                 !.nul = nul,
                                 !.overrun = FALSE]
    BY <1>1, <1>5, <2>1 DEF SB!appendBytes, SB!Written
  <2>3. nul \in Nat /\ output.length + n \in Nat
    BY <1>1
  <2> HIDE DEF nul
  <2> QED
    BY <1>1, <2>2, <2>3 DEF BuilderFits
<1> QED
  BY <1>3, <1>4, <1>5

\* Nothing was printed yet.
LEMMA ProcessInitInv ==
  ASSUME ProcessAssumption, ProcessInit
  PROVE  ProcessInv
BY DEF ProcessAssumption, ProcessInit, SB!createStringBuilder_uint32, ProcessInv,
   ProcessTypeOK, BuilderFits, NothingLost, ChildHoldsThePipe, SuccessIsWhole, ParentKnows, Alive

\* The steps of the parent that read nothing.
LEMMA ParentInv ==
  ASSUME ProcessInv, Fork \/ ParentForked \/ ParentReadFails \/ waitForChild
  PROVE  ProcessInv'
<1>1. UNCHANGED <<status, content, total, printed, output, caller>>
  BY DEF Fork, ParentForked, ParentReadFails, waitForChild
<1>2. (BuilderFits /\ NothingLost)'
  BY <1>1 DEF ProcessInv, BuilderFits, NothingLost
<1>3. CASE Fork
  BY <1>1, <1>2, <1>3 DEF Fork, ProcessInv, ProcessTypeOK, ChildHoldsThePipe, SuccessIsWhole,
     ParentKnows, Alive, Callers
<1>4. CASE ParentForked
  BY <1>1, <1>2, <1>4 DEF ParentForked, closeWrite, ProcessInv, ProcessTypeOK, ChildHoldsThePipe,
     SuccessIsWhole, ParentKnows, Alive, Callers
<1>5. CASE ParentReadFails
  BY <1>1, <1>2, <1>5 DEF ParentReadFails, ParentExits, ParentEnds, ProcessInv, ProcessTypeOK,
     ChildHoldsThePipe, SuccessIsWhole, ParentKnows, Alive, Callers
<1>6. CASE waitForChild
  BY <1>1, <1>2, <1>6 DEF waitForChild, ParentExits, ParentEnds, ProcessInv, ProcessTypeOK,
     ChildHoldsThePipe, SuccessIsWhole, ParentKnows, Alive, Callers
<1> QED
  BY <1>3, <1>4, <1>5, <1>6

\* The end of the output is seen only when the child has ended; what is read before
\* moves from the pipe to the text.
LEMMA ReadInv ==
  ASSUME ProcessAssumption, ProcessInv, ParentReads
  PROVE  ProcessInv'
<1>1. /\ parent = "reading"
      /\ content > 0 \/ IsDrained
      /\ UNCHANGED <<child, status, total, printed, caller>>
      /\ ~output.aborted
  BY DEF ParentReads, ProcessInv, ParentKnows
<1>2. PICK n \in 0 .. BufLen :
        /\ n <= content /\ (n = 0 => content = 0)
        /\ content' = content - n
        /\ output' = IF n = 0 THEN output ELSE SB!appendBytes(output, n)
        /\ IF output'.aborted THEN ParentExits("aborted")
           ELSE IF EndOfFile(n) THEN ReadToTheEnd
                ELSE UNCHANGED <<parent, ends>>
  BY DEF ParentReads
<1>3. n \in Nat /\ content \in Nat /\ content' \in Nat /\ printed \in Nat
  BY <1>2 DEF ProcessInv, ProcessTypeOK, ProcessAssumption
<1>4. "child write" \in ends' <=> "child write" \in ends
  BY <1>2 DEF ParentExits, ParentEnds, ReadToTheEnd
<1>5. parent' \in {"reading", "aborted", "waiting", "returned"}
  BY <1>1, <1>2 DEF ParentExits, ReadToTheEnd
<1>6. (ProcessTypeOK /\ ChildHoldsThePipe /\ SuccessIsWhole)'
  BY <1>1, <1>3, <1>4, <1>5 DEF ProcessInv, ProcessTypeOK, ChildHoldsThePipe, SuccessIsWhole
<1>7. CASE n = 0
  <2>1. content = 0 /\ content' = 0 /\ output' = output /\ ReadToTheEnd
    BY <1>1, <1>2, <1>3, <1>7 DEF EndOfFile
  <2>2. child = "ended"
    <3>1. "child write" \notin ends
      <4>1. ~(content > 0)
        BY <2>1
      <4>2. ends \cap {"parent write", "child write", "child stdout"} = {}
        BY <1>1, <4>1, Zenon DEF IsDrained
      <4> QED
        BY <4>2, Zenon
    <3>2. child \notin Alive /\ child # "none"
      BY <1>1, <3>1 DEF ProcessInv, ChildHoldsThePipe
    <3> QED
      BY <3>2 DEF ProcessInv, ProcessTypeOK
  <2>3. (BuilderFits /\ NothingLost)'
    BY <1>1, <2>1 DEF ProcessInv, BuilderFits, NothingLost
  <2>4. ParentKnows'
    BY <1>1, <2>1, <2>2 DEF ProcessInv, ParentKnows, ReadToTheEnd
  <2> QED
    BY <1>6, <2>3, <2>4 DEF ProcessInv
<1>8. CASE n # 0
  <2>1. /\ BuilderFits'
        /\ ~output'.aborted => output'.length = output.length + n
    BY <1>1, <1>2, <1>3, <1>8, AppendBytesIs DEF ProcessInv
  <2>2. NothingLost'
    <3>1. output.length \in Nat /\ output.length + content = printed
      BY <1>1 DEF ProcessInv, BuilderFits, NothingLost
    <3> QED
      BY <1>1, <1>2, <1>3, <2>1, <3>1 DEF NothingLost
  <2>3. ParentKnows'
    <3>1. CASE output'.aborted
      BY <1>2, <3>1 DEF ParentKnows, ParentExits
    <3>2. CASE ~output'.aborted
      <4>1. parent' = parent
        BY <1>2, <1>8, <3>2 DEF EndOfFile
      <4> QED
        BY <1>1, <3>2, <4>1 DEF ProcessInv, ParentKnows
    <3> QED
      BY <3>1, <3>2
  <2> QED
    BY <1>6, <2>1, <2>2, <2>3 DEF ProcessInv
<1> QED
  BY <1>7, <1>8

\* A child that is alive ends, or prints what it has not printed before.
LEMMA ChildInv ==
  ASSUME ProcessAssumption, ProcessInv, Child \/ ChildFails
  PROVE  ProcessInv'
<1>1. UNCHANGED <<parent, total, output, caller>> /\ child \in Alive
  BY DEF Child, ChildFails, ChildRedirects, ChildExecutes, ChildPrints, ChildExits, Alive
<1>2. BuilderFits'
  BY <1>1 DEF ProcessInv, BuilderFits
<1>3. CASE ChildRedirects
  BY <1>1, <1>2, <1>3 DEF ChildRedirects, redirected, ProcessInv, ProcessTypeOK, NothingLost,
     ChildHoldsThePipe, SuccessIsWhole, ParentKnows, Alive
<1>4. CASE ChildExecutes
  BY <1>1, <1>2, <1>4 DEF ChildExecutes, ExecFails, ChildEnds, ProcessInv, ProcessTypeOK, NothingLost,
     ChildHoldsThePipe, SuccessIsWhole, ParentKnows, Alive
<1>5. CASE ChildPrints /\ NoReader
  BY <1>1, <1>2, <1>5 DEF ChildPrints, ChildEnds, ProcessInv, ProcessTypeOK, NothingLost,
     ChildHoldsThePipe, SuccessIsWhole, ParentKnows, Alive
<1>6. CASE ChildPrints /\ ~NoReader
  <2>1. PICK n \in 1 .. Capacity :
          /\ content' = content + n /\ printed' = printed + n
          /\ UNCHANGED <<child, status, ends>>
    BY <1>6 DEF ChildPrints
  <2>2. /\ n \in Nat /\ content \in Nat /\ printed \in Nat /\ output.length \in Nat
    BY <2>1 DEF ProcessAssumption, ProcessInv, ProcessTypeOK, BuilderFits
  <2>3. NothingLost'
    BY <1>1, <2>1, <2>2 DEF ProcessInv, NothingLost
  <2>4. status # "success" /\ child # "ended"
    BY <1>1 DEF ProcessInv, SuccessIsWhole, Alive
  <2>5. (ProcessTypeOK /\ ChildHoldsThePipe /\ SuccessIsWhole)'
    <3>1. content' \in Nat /\ printed' \in Nat
      BY <2>1, <2>2
    <3> QED
      BY <1>1, <2>1, <2>4, <3>1 DEF ProcessInv, ProcessTypeOK, ChildHoldsThePipe, SuccessIsWhole
  <2>6. ParentKnows'
    BY <1>1, <2>1, <2>4 DEF ProcessInv, ParentKnows
  <2> QED
    BY <1>2, <2>3, <2>5, <2>6 DEF ProcessInv
<1>7. CASE ChildExits
  BY <1>1, <1>2, <1>7 DEF ChildExits, ChildEnds, ProcessInv, ProcessTypeOK, NothingLost,
     ChildHoldsThePipe, SuccessIsWhole, ParentKnows, Alive
<1>8. CASE ChildFails
  BY <1>1, <1>2, <1>8 DEF ChildFails, ChildEnds, ProcessInv, ProcessTypeOK, NothingLost,
     ChildHoldsThePipe, SuccessIsWhole, ParentKnows, Alive
<1> QED
  BY <1>3, <1>4, <1>5, <1>6, <1>7, <1>8 DEF Child

\* A pipe and a buffer of any size: execute returns all the program printed, in as
\* many reads as it took and however its steps interleave with the program's, and
\* only when the program ended well (lang/system.c:88-156).
THEOREM OutputIsWholeTheorem ==
  ASSUME ProcessAssumption
  PROVE  ProcessSpec => []OutputIsWhole
<1>1. ProcessInit => ProcessInv
  BY ProcessInitInv
<1>2. ProcessInv /\ [ProcessNext]_processVars => ProcessInv'
  <2> SUFFICES ASSUME ProcessInv, [ProcessNext]_processVars PROVE ProcessInv'
    OBVIOUS
  <2>1. CASE ProcessNext
    BY <2>1, ParentInv, ReadInv, ChildInv DEF ProcessNext, Parent
  <2>2. CASE UNCHANGED processVars
    BY <2>2 DEF processVars, ProcessInv, ProcessTypeOK, BuilderFits, NothingLost, ChildHoldsThePipe,
       SuccessIsWhole, ParentKnows
  <2> QED
    BY <2>1, <2>2
<1>3. ProcessInv => OutputIsWhole
  <2> SUFFICES ASSUME ProcessInv, parent = "returned"
               PROVE  /\ status = "success" /\ printed = total
                      /\ output.length = total /\ ~output.overrun
    BY DEF OutputIsWhole
  <2>1. /\ status = "success" /\ content = 0 /\ ~output.aborted /\ printed = total
    BY DEF ProcessInv, ParentKnows, SuccessIsWhole
  <2>2. output.length \in Nat /\ output.overrun = FALSE
    BY DEF ProcessInv, BuilderFits
  <2> QED
    BY <2>1, <2>2 DEF ProcessInv, NothingLost
<1> QED
  BY <1>1, <1>2, <1>3, PTL DEF ProcessSpec

-------------------------------------------------------------------------------
(* The queries on a socket.                                                *)

CONSTANT Entries    \* the rows that a kernel's tables may have

RowType(q) == IF q \in AddressQueries THEN "RTM_NEWADDR" ELSE "RTM_NEWROUTE"

\* A kernel's tables are sequences of rows of their type; None is no query.
TablesAssumption ==
    /\ None \notin Queries
    /\ \A t \in Tables :
          /\ t["RTM_GETADDR"] \in Seq({m \in Entries : m.type = "RTM_NEWADDR"})
          /\ t["RTM_GETROUTE"] \in Seq({m \in Entries : m.type = "RTM_NEWROUTE"})

\* What the answer to a query is made of.
AnswerRows(q) == {m \in Entries : m.type = RowType(q) /\ m.family = Family(q)}
Answer(q) == AnswerRows(q) \union {NLMSG_DONE}

SocketTypeOK ==
    /\ socket \in [fd : Int, family : {"NETLINK_ROUTE"}, ioBuffer : Nat \ {0}]
    /\ kernel.tables \in Tables
    /\ kernel = [tables |-> kernel.tables, left |-> kernel.left,
                 coalesces |-> kernel.coalesces]
    /\ query \in Queries \union {None}

\* Nothing of an answer is left on the socket when no query runs.
IdleIsQuiet == query = None => inbox = <<>> /\ kernel.left = None

\* What the kernel has still to send is of the query that runs.
DumpIsOfTheQuery ==
    kernel.left # None => query # None /\ kernel.left \in Seq(AnswerRows(query))

\* So is what it sent, and the datagram that ends the query is the last one.
InboxIsOfTheQuery ==
    query # None =>
        /\ inbox \in Seq(Seq(Answer(query)))
        /\ \A i \in 1 .. Len(inbox) :
              /\ inbox[i] # <<>>
              /\ EndsTheAnswer(inbox[i]) => i = Len(inbox) /\ kernel.left = None

\* The inductive invariant.
SocketInv == SocketTypeOK /\ IdleIsQuiet /\ DumpIsOfTheQuery /\ InboxIsOfTheQuery

\* The selection of a dump is a loop over the table, for either family.
IsOf(family, S) == {m \in S : m.family = family}
Selected(family, rows, m) == IF m.family = family THEN Append(rows, m) ELSE rows
AreOf(family, rows, s) == \A S : s \in Seq(S) => rows \in Seq(IsOf(family, S))

IPv4Selected(rows, m) == Selected("AF_INET", rows, m)
IPv6Selected(rows, m) == Selected("AF_INET6", rows, m)
AreIPv4(base, rows, s) == AreOf("AF_INET", rows, s)
AreIPv6(base, rows, s) == AreOf("AF_INET6", rows, s)
IPv4Rows == INSTANCE Folding WITH op <- IPv4Selected, Inv <- AreIPv4
IPv6Rows == INSTANCE Folding WITH op <- IPv6Selected, Inv <- AreIPv6

\* A sequence that was appended to has elements of S if the longer one has.
LEMMA ShorterSeq ==
  ASSUME NEW S, NEW T, NEW s \in Seq(T), NEW e \in T, Append(s, e) \in Seq(S)
  PROVE  s \in Seq(S) /\ e \in S
<1> DEFINE longer == Append(s, e)
<1>1. Len(longer) = Len(s) + 1 /\ Len(s) \in Nat
  OBVIOUS
<1>2. \A i \in 1 .. Len(s) : longer[i] = s[i]
  OBVIOUS
<1>3. longer[Len(s) + 1] = e
  OBVIOUS
<1>4. \A i \in 1 .. Len(s) + 1 : longer[i] \in S
  <2>1. longer \in Seq(S)
    OBVIOUS
  <2> HIDE DEF longer
  <2> QED BY <1>1, <2>1
<1> HIDE DEF longer
<1>5. e \in S
  BY <1>1, <1>3, <1>4
<1>6. \A i \in 1 .. Len(s) : s[i] \in S
  BY <1>1, <1>2, <1>4
<1>7. s \in Seq(S)
  BY <1>1, <1>6, IsASeq
<1> QED BY <1>5, <1>7

\* One row more of the table leaves what is selected of the family.
LEMMA OneMoreRow ==
  ASSUME NEW family, NEW S, NEW s \in Seq(S), NEW e \in S, NEW rows,
         AreOf(family, rows, s)
  PROVE  AreOf(family, Selected(family, rows, e), Append(s, e))
<1> SUFFICES ASSUME NEW T, Append(s, e) \in Seq(T)
             PROVE  Selected(family, rows, e) \in Seq(IsOf(family, T))
  BY DEF AreOf
<1>1. s \in Seq(T) /\ e \in T
  BY ShorterSeq
<1>2. rows \in Seq(IsOf(family, T))
  BY <1>1 DEF AreOf
<1>3. e.family = family => e \in IsOf(family, T)
  BY <1>1 DEF IsOf
<1> QED BY <1>2, <1>3 DEF Selected

\* What the kernel selects for a request is of the type and the family that it
\* asks for.
LEMMA RowsAre ==
  ASSUME NEW type, NEW S, kernel.tables[type] \in Seq(S)
  PROVE  /\ Rows(type, "AF_INET") \in Seq(IsOf("AF_INET", S))
         /\ Rows(type, "AF_INET6") \in Seq(IsOf("AF_INET6", S))
<1> DEFINE table == kernel.tables[type]
<1>1. Rows(type, "AF_INET") = IPv4Rows!Folded(<<>>, table)
  BY DEF IPv4Rows!Folded, IPv4Rows!FoldLeft, FoldLeft, IPv4Rows!MapThenFoldSet,
         MapThenFoldSet, IPv4Rows!Max, Max, Rows, IPv4Selected, Selected
<1>2. Rows(type, "AF_INET6") = IPv6Rows!Folded(<<>>, table)
  BY DEF IPv6Rows!Folded, IPv6Rows!FoldLeft, FoldLeft, IPv6Rows!MapThenFoldSet,
         MapThenFoldSet, IPv6Rows!Max, Max, Rows, IPv6Selected, Selected
<1>3. \A family : AreOf(family, <<>>, <<>>)
  BY DEF AreOf
<1>4. AreIPv4(<<>>, IPv4Rows!Folded(<<>>, table), table)
  <2>1. AreIPv4(<<>>, <<>>, <<>>)
    BY <1>3 DEF AreIPv4
  <2>2. \A a, s, e : (s \in Seq(S) /\ e \in S /\ AreIPv4(<<>>, a, s))
                        => AreIPv4(<<>>, IPv4Selected(a, e), Append(s, e))
    BY OneMoreRow DEF AreIPv4, IPv4Selected
  <2> QED BY <2>1, <2>2, IPv4Rows!FoldLeftInduction
<1>5. AreIPv6(<<>>, IPv6Rows!Folded(<<>>, table), table)
  <2>1. AreIPv6(<<>>, <<>>, <<>>)
    BY <1>3 DEF AreIPv6
  <2>2. \A a, s, e : (s \in Seq(S) /\ e \in S /\ AreIPv6(<<>>, a, s))
                        => AreIPv6(<<>>, IPv6Selected(a, e), Append(s, e))
    BY OneMoreRow DEF AreIPv6, IPv6Selected
  <2> QED BY <2>1, <2>2, IPv6Rows!FoldLeftInduction
<1> HIDE DEF table
<1>6. table \in Seq(S)
  BY DEF table
<1> QED BY <1>1, <1>2, <1>4, <1>5, <1>6 DEF AreIPv4, AreIPv6, AreOf

\* A request is for a dump of the rows that its query wants.
LEMMA RequestsAre ==
  ASSUME TablesAssumption, kernel.tables \in Tables, NEW q \in Queries
  PROVE  /\ "NLF_ROOT" \in Request(q).flags
         /\ Rows(Request(q).type, Request(q).family) \in Seq(AnswerRows(q))
<1> DEFINE type == IF q \in AddressQueries THEN "RTM_GETADDR" ELSE "RTM_GETROUTE"
           S == {m \in Entries : m.type = RowType(q)}
<1>1. /\ "NLF_ROOT" \in Request(q).flags
      /\ Request(q).type = type /\ Request(q).family = Family(q)
  BY DEF Request, NetlinkAddressRequest, NetlinkRouteRequest
<1>2. kernel.tables[type] \in Seq(S)
  <2>1. CASE q \in AddressQueries
    BY <2>1 DEF TablesAssumption, RowType
  <2>2. CASE q \notin AddressQueries
    BY <2>2 DEF TablesAssumption, RowType
  <2> QED BY <2>1, <2>2
<1> HIDE DEF type, S
<1>3. /\ Rows(type, "AF_INET") \in Seq(IsOf("AF_INET", S))
      /\ Rows(type, "AF_INET6") \in Seq(IsOf("AF_INET6", S))
  BY <1>2, RowsAre
<1>4. Rows(type, Family(q)) \in Seq(IsOf(Family(q), S))
  BY <1>3 DEF Family
<1>5. IsOf(Family(q), S) = AnswerRows(q)
  BY DEF IsOf, S, AnswerRows
<1> QED BY <1>1, <1>4, <1>5

\* A row is no NLMSG_DONE.
LEMMA RowIsNoEnd ==
  ASSUME NEW q, NEW m \in AnswerRows(q)
  PROVE  m # NLMSG_DONE /\ m \in Answer(q)
BY DEF AnswerRows, Answer, RowType, NLMSG_DONE

\* Nothing has been asked yet.
LEMMA DeviceInitInv ==
  ASSUME TablesAssumption, Init
  PROVE  SocketInv
<1>1. PICK n \in BufLens : socket = createNetlinkSocket("NETLINK_ROUTE", n)
  BY DEF Init, NetlinkInit
<1>2. PICK t \in Tables, c \in BOOLEAN :
          kernel = [tables |-> t, left |-> None, coalesces |-> c]
  BY DEF Init, NetlinkInit
<1>3. inbox = <<>> /\ query = None
  BY DEF Init, NetlinkInit
<1>4. n \in Nat \ {0}
  BY NetlinkAssumption
<1>5. SocketTypeOK
  BY <1>1, <1>2, <1>3, <1>4 DEF SocketTypeOK, createNetlinkSocket
<1> QED
  BY <1>2, <1>3, <1>5 DEF SocketInv, IdleIsQuiet, DumpIsOfTheQuery, InboxIsOfTheQuery

\* An empty socket whose kernel sends nothing keeps the invariant.
LEMMA QuietInv ==
  ASSUME SocketInv, inbox' = <<>>, kernel' = [kernel EXCEPT !.left = None],
         query' \in Queries \union {None},
         \/ socket' = socket
         \/ \E fd \in Int : socket' = [socket EXCEPT !.fd = fd]
  PROVE  SocketInv'
<1>1. /\ kernel'.tables = kernel.tables /\ kernel'.left = None
      /\ kernel' = [tables |-> kernel'.tables, left |-> kernel'.left,
                    coalesces |-> kernel'.coalesces]
  BY DEF SocketInv, SocketTypeOK
<1>2. socket' \in [fd : Int, family : {"NETLINK_ROUTE"}, ioBuffer : Nat \ {0}]
  BY DEF SocketInv, SocketTypeOK
<1>3. SocketTypeOK'
  BY <1>1, <1>2 DEF SocketInv, SocketTypeOK
<1>4. <<>> \in Seq(Seq(Answer(query'))) /\ 1 .. Len(<<>>) = {}
  OBVIOUS
<1>5. InboxIsOfTheQuery'
  BY <1>4 DEF InboxIsOfTheQuery
<1> QED
  BY <1>1, <1>3, <1>5 DEF SocketInv, IdleIsQuiet, DumpIsOfTheQuery

\* Nothing that the invariant is about changed.
LEMMA SameSocketInv ==
  ASSUME SocketInv, UNCHANGED <<kernel, inbox, query>>,
         \/ socket' = socket
         \/ \E fd \in Int : socket' = [socket EXCEPT !.fd = fd]
  PROVE  SocketInv'
<1>1. socket' \in [fd : Int, family : {"NETLINK_ROUTE"}, ioBuffer : Nat \ {0}]
  BY DEF SocketInv, SocketTypeOK
<1>2. SocketTypeOK'
  BY <1>1 DEF SocketInv, SocketTypeOK
<1> QED
  BY <1>2 DEF SocketInv, IdleIsQuiet, DumpIsOfTheQuery, InboxIsOfTheQuery

\* The ioctls, and opening, binding and closing the socket while no query runs.
LEMMA IdleInv ==
  ASSUME SocketInv, getNetworkDeviceIndex \/ getEthernetMTU \/ getEthernetStatus
                    \/ Open \/ Bind \/ Close
  PROVE  SocketInv'
<1>1. query' = query /\ query \in Queries \union {None}
  BY DEF getNetworkDeviceIndex, getEthernetMTU, getEthernetStatus, Open, Bind, Close,
         SocketInv, SocketTypeOK
<1>2. /\ \/ socket' = socket
         \/ \E fd \in Int : socket' = [socket EXCEPT !.fd = fd]
      /\ \/ UNCHANGED <<kernel, inbox>>
         \/ inbox' = <<>> /\ kernel' = [kernel EXCEPT !.left = None]
  <2>1. CASE getNetworkDeviceIndex
    BY <2>1 DEF getNetworkDeviceIndex, Exit
  <2>2. CASE getEthernetMTU
    BY <2>2 DEF getEthernetMTU, Exit
  <2>3. CASE getEthernetStatus
    BY <2>3 DEF getEthernetStatus, netlinkVars
  <2>4. CASE Open
    BY <2>4 DEF Open, open, Exit
  <2>5. CASE Bind
    BY <2>5 DEF Bind, bind, setExtendedACKReporting, Exit
  <2>6. CASE Close
    <3>1. /\ socket' = [socket EXCEPT !.fd = 0] /\ inbox' = <<>>
          /\ kernel' = [kernel EXCEPT !.left = None]
      BY <2>6 DEF Close, close
    <3>2. \E fd \in Int : socket' = [socket EXCEPT !.fd = fd]
      <4> WITNESS 0 \in Int
      <4> QED BY <3>1
    <3> QED BY <3>1, <3>2
  <2> QED BY <2>1, <2>2, <2>3, <2>4, <2>5, <2>6
<1> QED BY <1>1, <1>2, QuietInv, SameSocketInv

\* A query starts on an empty socket.
LEMMA AskInv ==
  ASSUME TablesAssumption, SocketInv, NEW q \in Queries, Ask(q)
  PROVE  SocketInv'
<1>1. /\ query' = q /\ q # None /\ socket' = socket /\ sendMessage(Request(q))
      /\ query = None /\ inbox = <<>> /\ kernel.left = None
  BY DEF Ask, sendMessage, IsIdle, SocketInv, IdleIsQuiet, TablesAssumption
<1>2. CASE Exit
  BY <1>1, <1>2, QuietInv DEF Exit
<1>3. CASE Answered(Request(q))
  <2> DEFINE rows == Rows(Request(q).type, Request(q).family)
  <2>1. "NLF_ROOT" \in Request(q).flags /\ rows \in Seq(AnswerRows(q))
    BY RequestsAre DEF SocketInv, SocketTypeOK
  <2>2. kernel' = [kernel EXCEPT !.left = rows] /\ inbox' = <<>>
    BY <1>1, <1>3, <2>1 DEF Answered
  <2> HIDE DEF rows
  <2>3. /\ kernel'.tables = kernel.tables /\ kernel'.left = rows
        /\ kernel' = [tables |-> kernel'.tables, left |-> kernel'.left,
                      coalesces |-> kernel'.coalesces]
    BY <2>2 DEF SocketInv, SocketTypeOK
  <2>4. SocketTypeOK'
    BY <1>1, <2>3 DEF SocketInv, SocketTypeOK
  <2>5. DumpIsOfTheQuery'
    BY <1>1, <2>1, <2>3 DEF DumpIsOfTheQuery
  <2>6. InboxIsOfTheQuery'
    <3>1. <<>> \in Seq(Seq(Answer(q))) /\ 1 .. Len(<<>>) = {}
      OBVIOUS
    <3> QED BY <1>1, <2>2, <3>1 DEF InboxIsOfTheQuery
  <2>7. IdleIsQuiet'
    BY <1>1 DEF IdleIsQuiet
  <2> QED BY <2>4, <2>5, <2>6, <2>7 DEF SocketInv
<1> QED BY <1>1, <1>2, <1>3 DEF sendMessage

\* A datagram at the end of those that are queued.
LEMMA QueuedInv ==
  ASSUME SocketInv, query # None, UNCHANGED <<socket, query>>,
         NEW left \in Seq(AnswerRows(query)) \union {None},
         kernel' = [kernel EXCEPT !.left = left],
         kernel.left # None,
         NEW d \in Seq(Answer(query)), d # <<>>,
         inbox' = Append(inbox, d),
         EndsTheAnswer(d) => left = None
  PROVE  SocketInv'
<1>1. /\ inbox \in Seq(Seq(Answer(query)))
      /\ \A i \in 1 .. Len(inbox) : inbox[i] # <<>> /\ ~EndsTheAnswer(inbox[i])
  BY DEF SocketInv, InboxIsOfTheQuery
<1>2. /\ kernel'.tables = kernel.tables /\ kernel'.left = left
      /\ kernel' = [tables |-> kernel'.tables, left |-> kernel'.left,
                    coalesces |-> kernel'.coalesces]
  BY DEF SocketInv, SocketTypeOK
<1>3. SocketTypeOK'
  BY <1>2 DEF SocketInv, SocketTypeOK
<1>4. /\ inbox' \in Seq(Seq(Answer(query))) /\ Len(inbox') = Len(inbox) + 1
      /\ Len(inbox) \in Nat
      /\ \A i \in 1 .. Len(inbox) : inbox'[i] = inbox[i]
      /\ inbox'[Len(inbox) + 1] = d
  BY <1>1, AppendProperties
<1>5. ASSUME NEW i \in 1 .. Len(inbox')
      PROVE  inbox'[i] # <<>>
             /\ (EndsTheAnswer(inbox'[i]) => i = Len(inbox') /\ kernel'.left = None)
  <2>1. CASE i = Len(inbox) + 1
    BY <1>2, <1>4, <2>1
  <2>2. CASE i # Len(inbox) + 1
    <3>1. i \in 1 .. Len(inbox)
      BY <1>4, <2>2
    <3>2. inbox'[i] = inbox[i]
      BY <1>4, <3>1
    <3> QED BY <1>1, <3>1, <3>2
  <2> QED BY <2>1, <2>2
<1>6. InboxIsOfTheQuery'
  BY <1>4, <1>5 DEF InboxIsOfTheQuery, EndsTheAnswer
<1>7. DumpIsOfTheQuery' /\ IdleIsQuiet'
  BY <1>2 DEF DumpIsOfTheQuery, IdleIsQuiet
<1> QED BY <1>3, <1>6, <1>7 DEF SocketInv

\* The kernel sends what is left of the dump in order, and NLMSG_DONE behind it.
LEMMA KernelInv ==
  ASSUME SocketInv, Kernel
  PROVE  SocketInv'
<1> DEFINE rows == kernel.left
<1>1. /\ rows # None /\ query # None /\ rows \in Seq(AnswerRows(query))
      /\ UNCHANGED <<socket, query>>
  BY DEF Kernel, KernelDumps, SocketInv, DumpIsOfTheQuery
<1>2. AnswerRows(query) \subseteq Answer(query) /\ NLMSG_DONE \in Answer(query)
  BY DEF Answer
<1>3. CASE /\ rows = <<>>
           /\ inbox' = Append(inbox, <<NLMSG_DONE>>)
           /\ kernel' = [kernel EXCEPT !.left = None]
  <2>1. <<NLMSG_DONE>> \in Seq(Answer(query)) /\ <<NLMSG_DONE>> # <<>>
    BY <1>2
  <2> QED BY <1>1, <1>3, <2>1, QueuedInv
<1>4. ASSUME NEW n \in 1 .. Good, n <= Len(rows),
             inbox' = Append(inbox, Append(rows, NLMSG_DONE)),
             kernel' = [kernel EXCEPT !.left = None]
      PROVE  SocketInv'
  <2> DEFINE d == Append(rows, NLMSG_DONE)
  <2>1. d \in Seq(Answer(query)) /\ d # <<>>
    <3>1. rows \in Seq(Answer(query))
      BY <1>1, <1>2
    <3> QED BY <1>2, <3>1
  <2> HIDE DEF d
  <2> QED BY <1>1, <1>4, <2>1, QueuedInv DEF d
<1>5. ASSUME NEW n \in 1 .. Good, n <= Len(rows),
             inbox' = Append(inbox, SubSeq(rows, 1, n)),
             kernel' = [kernel EXCEPT !.left = SubSeq(@, n + 1, Len(@))]
      PROVE  SocketInv'
  <2> DEFINE d == SubSeq(rows, 1, n)
             left == SubSeq(rows, n + 1, Len(rows))
  <2>1. n \in Nat /\ 1 <= n /\ Good \in Nat
    BY NetlinkAssumption
  <2>2. left \in Seq(AnswerRows(query))
    BY <1>1, <2>1
  <2>3. d \in Seq(AnswerRows(query)) /\ Len(d) = n /\ d[1] \in AnswerRows(query)
    BY <1>1, <1>5, <2>1
  <2>4. kernel' = [kernel EXCEPT !.left = left]
    BY <1>5
  <2> HIDE DEF d, left
  <2>5. d \in Seq(Answer(query)) /\ d # <<>>
    BY <1>2, <2>1, <2>3
  <2>6. ~EndsTheAnswer(d)
    BY <2>3, RowIsNoEnd DEF EndsTheAnswer
  <2> QED BY <1>1, <1>5, <2>2, <2>4, <2>5, <2>6, QueuedInv DEF d
<1> QED BY <1>3, <1>4, <1>5 DEF Kernel, KernelDumps

\* The ioBuffer has room for a message: the first of a datagram is never cut off.
LEMMA ReceivedIs ==
  ASSUME SocketInv, receiveMessage, query # None
  PROVE  /\ datagram' \in Seq(Answer(query))
         /\ EndsTheAnswer(datagram') <=> EndsTheAnswer(inbox[1])
         /\ Len(inbox) \in Nat /\ Len(inbox) >= 1
         /\ inbox' \in Seq(Seq(Answer(query))) /\ Len(inbox') = Len(inbox) - 1
         /\ \A i \in 1 .. Len(inbox') : inbox'[i] = inbox[i + 1]
<1> DEFINE d == inbox[1]
           n == IF Len(d) <= socket.ioBuffer THEN Len(d) ELSE socket.ioBuffer
<1>1. /\ inbox # <<>> /\ inbox' = Tail(inbox) /\ inbox \in Seq(Seq(Answer(query)))
      /\ datagram' = SubSeq(d, 1, n)
  <2>1. /\ inbox # <<>> /\ inbox' = Tail(inbox)
        /\ datagram' = ReceiveMessageHeader(Head(inbox))
    BY DEF receiveMessage
  <2>2. inbox \in Seq(Seq(Answer(query)))
    BY DEF SocketInv, InboxIsOfTheQuery
  <2>3. Head(inbox) = d
    BY <2>1, <2>2
  <2>4. datagram' = ReceiveMessageHeader(d)
    BY <2>1, <2>3
  <2> HIDE DEF d
  <2>5. ReceiveMessageHeader(d) = SubSeq(d, 1, n)
    BY DEF ReceiveMessageHeader
  <2> QED BY <2>1, <2>2, <2>4, <2>5
<1>2. Len(inbox) \in Nat /\ Len(inbox) >= 1
  BY <1>1
<1>3. d \in Seq(Answer(query)) /\ d # <<>>
  BY <1>1, <1>2 DEF SocketInv, InboxIsOfTheQuery
<1>4. socket.ioBuffer \in Nat /\ socket.ioBuffer >= 1
  BY DEF SocketInv, SocketTypeOK
<1> HIDE DEF d
<1>5. Len(d) \in Nat /\ Len(d) >= 1
  BY <1>3
<1>6. n \in Nat /\ 1 <= n /\ n <= Len(d)
  BY <1>4, <1>5
<1> HIDE DEF n
<1>7. datagram' \in Seq(Answer(query)) /\ datagram'[1] = d[1]
  BY <1>1, <1>3, <1>6
<1>8. /\ inbox' \in Seq(Seq(Answer(query))) /\ Len(inbox') = Len(inbox) - 1
      /\ \A i \in 1 .. Len(inbox') : inbox'[i] = inbox[i + 1]
  BY <1>1, <1>2, HeadTailProperties
<1> QED BY <1>2, <1>7, <1>8 DEF EndsTheAnswer, d

\* A datagram that ends the query was the last: nothing of its answer is left.
LEMMA ReceiveInv ==
  ASSUME SocketInv, Receive
  PROVE  SocketInv'
<1>1. /\ query # None /\ receiveMessage /\ UNCHANGED <<socket, kernel>>
      /\ query' = IF EndsTheAnswer(datagram') THEN None ELSE query
  BY DEF Receive, receiveMessage
<1>2. /\ EndsTheAnswer(datagram') <=> EndsTheAnswer(inbox[1])
      /\ Len(inbox) \in Nat /\ Len(inbox) >= 1
      /\ inbox' \in Seq(Seq(Answer(query))) /\ Len(inbox') = Len(inbox) - 1
      /\ \A i \in 1 .. Len(inbox') : inbox'[i] = inbox[i + 1]
  BY <1>1, ReceivedIs
<1>3. SocketTypeOK'
  BY <1>1 DEF SocketInv, SocketTypeOK
<1>4. CASE EndsTheAnswer(datagram')
  <2>1. Len(inbox) = 1 /\ kernel.left = None
    BY <1>1, <1>2, <1>4 DEF SocketInv, InboxIsOfTheQuery
  <2>2. inbox' = <<>> /\ kernel'.left = None /\ query' = None
    <3>1. Len(inbox') = 0
      BY <1>2, <2>1
    <3> QED BY <1>1, <1>2, <1>4, <2>1, <3>1, EmptySeq
  <2> QED
    BY <1>3, <2>2 DEF SocketInv, IdleIsQuiet, DumpIsOfTheQuery, InboxIsOfTheQuery
<1>5. CASE ~EndsTheAnswer(datagram')
  <2>1. query' = query
    BY <1>1, <1>5
  <2>2. IdleIsQuiet' /\ DumpIsOfTheQuery'
    BY <1>1, <2>1 DEF SocketInv, IdleIsQuiet, DumpIsOfTheQuery
  <2>3. ASSUME NEW i \in 1 .. Len(inbox')
        PROVE  inbox'[i] # <<>>
               /\ (EndsTheAnswer(inbox'[i]) => i = Len(inbox') /\ kernel'.left = None)
    <3>1. i + 1 \in 1 .. Len(inbox) /\ inbox'[i] = inbox[i + 1]
      BY <1>2
    <3>2. /\ inbox[i + 1] # <<>>
          /\ EndsTheAnswer(inbox[i + 1]) => i + 1 = Len(inbox) /\ kernel.left = None
      BY <1>1, <3>1 DEF SocketInv, InboxIsOfTheQuery
    <3>3. i + 1 = Len(inbox) => i = Len(inbox')
      BY <1>2
    <3> QED BY <1>1, <3>1, <3>2, <3>3
  <2>4. InboxIsOfTheQuery'
    BY <1>2, <2>1, <2>3 DEF InboxIsOfTheQuery, EndsTheAnswer
  <2> QED BY <1>3, <2>2, <2>4 DEF SocketInv
<1> QED BY <1>4, <1>5

\* Every step keeps the invariant.
LEMMA DeviceStepInv ==
  ASSUME TablesAssumption, SocketInv, [Next]_vars
  PROVE  SocketInv'
<1>1. CASE getNetworkDeviceIndex \/ getEthernetMTU \/ getEthernetStatus
           \/ Open \/ Bind \/ Close
  BY <1>1, IdleInv
<1>2. ASSUME NEW q \in Queries, Ask(q) PROVE SocketInv'
  BY <1>2, AskInv
<1>3. CASE Receive
  BY <1>3, ReceiveInv
<1>4. CASE ReceiveFails
  <2>1. query' \in Queries \union {None} /\ socket' = socket /\ Exit
    BY <1>4 DEF ReceiveFails, SocketInv, SocketTypeOK
  <2> QED BY <2>1, QuietInv DEF Exit
<1>5. CASE Kernel
  BY <1>5, KernelInv
<1>6. CASE UNCHANGED vars
  <2>1. UNCHANGED <<kernel, inbox, query>> /\ socket' = socket
    BY <1>6 DEF vars
  <2> QED BY <2>1, SameSocketInv
<1> QED BY <1>1, <1>2, <1>3, <1>4, <1>5, <1>6 DEF Next

\* For tables of any size, datagrams and an ioBuffer of any length and any number of
\* queries in any order: what a query reads is of the type and the family that it
\* asked for, or the end of its answer, and never a rest of an earlier answer
\* (net/networkdevice.c:82-283, socket/socket.c:105-125).
THEOREM AnswersAreItsOwnTheorem ==
  ASSUME TablesAssumption
  PROVE  Spec => AnswersAreItsOwn
<1> DEFINE Own ==
      Receive =>
         \A m \in ToSet(datagram') :
            \/ m = NLMSG_DONE
            \/ /\ m.type = IF query \in AddressQueries THEN "RTM_NEWADDR" ELSE "RTM_NEWROUTE"
               /\ m.family = Family(query)
<1>1. Init => SocketInv
  BY DeviceInitInv
<1>2. SocketInv /\ [Next]_vars => SocketInv'
  BY DeviceStepInv
<1>3. SocketInv => Own
  <2> SUFFICES ASSUME SocketInv, Receive, NEW m \in ToSet(datagram')
               PROVE  m = NLMSG_DONE \/ (m.type = RowType(query) /\ m.family = Family(query))
    BY DEF RowType
  <2>1. query # None /\ receiveMessage
    BY DEF Receive
  <2>2. datagram' \in Seq(Answer(query))
    BY <2>1, ReceivedIs
  <2>3. m \in Answer(query)
    BY <2>2 DEF ToSet
  <2> QED BY <2>3 DEF Answer, AnswerRows
<1>4. Spec => [][Own]_vars
  <2> HIDE DEF Own
  <2> QED BY <1>1, <1>2, <1>3, PTL DEF Spec
<1> QED BY <1>4 DEF AnswersAreItsOwn

-------------------------------------------------------------------------------
(* What a query finds.                                                     *)

\* What a query asks for is in the table by the name of its request's type.
Table(q) == kernel.tables[IF q \in AddressQueries THEN "RTM_GETADDR" ELSE "RTM_GETROUTE"]
Whole(q) == Rows(Request(q).type, Family(q))

\* The device as the record it is.
IsDevice(d) ==
    d = [index |-> d.index, ipv4Address |-> d.ipv4Address, ipv6Global |-> d.ipv6Global,
         ipv6Local |-> d.ipv6Local, ipv4Gateway |-> d.ipv4Gateway, ipv6Gateway |-> d.ipv6Gateway]

\* The last of the first n elements of s that is in M; whether none is.
IsLastIn(i, s, n, M) == i \in 1 .. n /\ s[i] \in M /\ \A j \in 1 .. n : j > i => s[j] \notin M
NoneIn(s, n, M) == \A j \in 1 .. n : s[j] \notin M

\* What became of an address that was `earlier' at the first n rows of s: it is that
\* of the last one in M.
AddressAfter(address, s, n, M, earlier) ==
    \/ \E i \in 1 .. n : IsLastIn(i, s, n, M) /\ address = s[i].address
    \/ NoneIn(s, n, M) /\ address = earlier

AddressRows(family, scope) ==
    {m \in Entries : /\ m.type = "RTM_NEWADDR" /\ m.family = family
                     /\ m.index = Index /\ m.scope = scope}
AddressSoFar(address, s, n, family, scope) ==
    \E earlier \in {None, LastAddress(family, scope)} :
       AddressAfter(address, s, n, AddressRows(family, scope), earlier)

\* When the last route of the first n that has a gateway is one of the device, the
\* gateway is one of such a route.
GatewayRows(family) ==
    {m \in Entries : m.family = family /\ IsMainUnicast(m) /\ HasAttribute(m, "RTA_GATEWAY")}
DeviceRows(family) == {m \in GatewayRows(family) : Says(m, "RTA_OIF", Index)}
IsGatewayIn(gateway, s, n, family) ==
    \E i \in 1 .. n : s[i] \in DeviceRows(family) /\ Says(s[i], "RTA_GATEWAY", gateway)
GatewaySoFar(gateway, s, n, family) ==
    (\E i \in 1 .. n : s[i] \in DeviceRows(family) /\ IsLastIn(i, s, n, GatewayRows(family))) =>
       IsGatewayIn(gateway, s, n, family)

\* What the device holds when a query has come to the first n rows of s.
SoFar(q, d, s, n) ==
    CASE q = "IPv4Address"   -> AddressSoFar(d.ipv4Address, s, n, "AF_INET", "RT_SCOPE_UNIVERSE")
      [] q = "IPv6Addresses" ->
            /\ AddressSoFar(d.ipv6Global, s, n, "AF_INET6", "RT_SCOPE_UNIVERSE")
            /\ AddressSoFar(d.ipv6Local, s, n, "AF_INET6", "RT_SCOPE_LINK")
      [] q = "IPv4Gateway"   -> GatewaySoFar(d.ipv4Gateway, s, n, "AF_INET")
      [] q = "IPv6Gateway"   -> GatewaySoFar(d.ipv6Gateway, s, n, "AF_INET6")

\* A datagram with the rows of s between two cuts, and maybe NLMSG_DONE behind the last.
Carries(d, s, from, to) ==
    /\ Len(d) \in {to - from, to - from + 1}
    /\ \A k \in 1 .. to - from : d[k] = s[from + k]
    /\ Len(d) = to - from + 1 => to = Len(s) /\ d[Len(d)] = NLMSG_DONE

\* The rows of s are cut into those the query has come to, those of each datagram that
\* is queued, and those that are left.
AreCut(s, cuts) ==
    /\ cuts \in [0 .. Len(inbox) -> 0 .. Len(s)]
    /\ \A k \in 1 .. Len(inbox) :
          /\ cuts[k - 1] <= cuts[k] /\ cuts[k] - cuts[k - 1] <= Good
          /\ Carries(inbox[k], s, cuts[k - 1], cuts[k])
    /\ kernel.left # None =>
          /\ Len(kernel.left) = Len(s) - cuts[Len(inbox)]
          /\ \A k \in 1 .. Len(kernel.left) : kernel.left[k] = s[cuts[Len(inbox)] + k]

DeviceTypeOK ==
    /\ IsDevice(device) /\ device.index \in {0, Index}
    /\ query # None => device.index = Index
    /\ asked \in Seq(Queries)
NothingBefore(q) ==
    /\ q = "IPv4Address" => device.ipv4Address = None
    /\ q = "IPv6Addresses" => device.ipv6Global = None /\ device.ipv6Local = None
AnswersHold == \A q \in Queries \ {query} : HasItsAnswer(q) \/ (q \notin ToSet(asked) /\ NothingBefore(q))
QueryGoesOn ==
    query # None =>
       \E cuts \in [0 .. Len(inbox) -> 0 .. Len(Whole(query))] :
          AreCut(Whole(query), cuts) /\ SoFar(query, device, Whole(query), cuts[0])
DeviceInv == DeviceTypeOK /\ (socket.ioBuffer >= Good => AnswersHold /\ QueryGoesOn)

-------------------------------------------------------------------------------
\* What the kernel selects is embedded in its table: the rows of the family, in order.
IsEmbedding(at, rows, s, family) ==
    /\ at \in [1 .. Len(rows) -> 1 .. Len(s)]
    /\ \A k \in 1 .. Len(rows) : rows[k] = s[at[k]] /\ rows[k].family = family
    /\ \A k, l \in 1 .. Len(rows) : k < l => at[k] < at[l]
    /\ \A i \in 1 .. Len(s) : s[i].family = family => \E k \in 1 .. Len(rows) : at[k] = i
IsEmbedded(family, rows, s) ==
    \A S : s \in Seq(S) => rows \in Seq(S) /\ \E at : IsEmbedding(at, rows, s, family)

AreIPv4Rows(base, rows, s) == IsEmbedded("AF_INET", rows, s)
AreIPv6Rows(base, rows, s) == IsEmbedded("AF_INET6", rows, s)
IPv4Dump == INSTANCE Folding WITH op <- IPv4Selected, Inv <- AreIPv4Rows
IPv6Dump == INSTANCE Folding WITH op <- IPv6Selected, Inv <- AreIPv6Rows

LEMMA OneMoreIsEmbedded ==
  ASSUME NEW family, NEW S, NEW s \in Seq(S), NEW e \in S, NEW rows,
         IsEmbedded(family, rows, s)
  PROVE  IsEmbedded(family, Selected(family, rows, e), Append(s, e))
<1> SUFFICES ASSUME NEW T, Append(s, e) \in Seq(T)
             PROVE  /\ Selected(family, rows, e) \in Seq(T)
                    /\ \E at : IsEmbedding(at, Selected(family, rows, e), Append(s, e), family)
  BY DEF IsEmbedded
<1> DEFINE n == Len(s)  m == Len(rows)  longer == Append(s, e)  more == Append(rows, e)
<1>1. s \in Seq(T) /\ e \in T
  BY ShorterSeq
<1>2. rows \in Seq(T) /\ \E at : IsEmbedding(at, rows, s, family)
  BY <1>1 DEF IsEmbedded
<1>3. PICK at : IsEmbedding(at, rows, s, family)
  BY <1>2
<1>4. n \in Nat /\ m \in Nat /\ Len(longer) = n + 1 /\ longer[n + 1] = e
      /\ \A i \in 1 .. n : longer[i] = s[i]
  OBVIOUS
<1>5. more \in Seq(T) /\ Len(more) = m + 1 /\ more[m + 1] = e
      /\ \A k \in 1 .. m : more[k] = rows[k]
  BY <1>1, <1>2
<1>6. /\ at \in [1 .. m -> 1 .. n]
      /\ \A k \in 1 .. m : rows[k] = s[at[k]] /\ rows[k].family = family
      /\ \A k, l \in 1 .. m : k < l => at[k] < at[l]
      /\ \A i \in 1 .. n : s[i].family = family => \E k \in 1 .. m : at[k] = i
  BY <1>3 DEF IsEmbedding
<1> HIDE DEF longer, more, n, m
<1>7. CASE e.family = family
  <2> DEFINE to == [k \in 1 .. m + 1 |-> IF k = m + 1 THEN n + 1 ELSE at[k]]
  <2>1. Selected(family, rows, e) = more
    BY <1>7 DEF Selected, more
  <2>2. to \in [1 .. m + 1 -> 1 .. n + 1] /\ to[m + 1] = n + 1
        /\ \A k \in 1 .. m : to[k] = at[k] /\ at[k] \in 1 .. n
    BY <1>4, <1>6
  <2> HIDE DEF to
  <2>3. \A k \in 1 .. m + 1 : more[k] = longer[to[k]] /\ more[k].family = family
    <3> SUFFICES ASSUME NEW k \in 1 .. m + 1
                 PROVE  more[k] = longer[to[k]] /\ more[k].family = family
      OBVIOUS
    <3>1. CASE k = m + 1
      BY <1>4, <1>5, <1>7, <2>2, <3>1
    <3>2. CASE k \in 1 .. m
      <4>1. to[k] = at[k] /\ at[k] \in 1 .. n /\ more[k] = rows[k]
        BY <1>5, <2>2, <3>2
      <4>2. rows[k] = s[at[k]] /\ rows[k].family = family
        BY <1>6, <3>2
      <4>3. longer[at[k]] = s[at[k]]
        BY <1>4, <4>1
      <4> QED BY <4>1, <4>2, <4>3
    <3> QED BY <1>4, <3>1, <3>2
  <2>4. \A k, l \in 1 .. m + 1 : k < l => to[k] < to[l]
    <3> SUFFICES ASSUME NEW k \in 1 .. m + 1, NEW l \in 1 .. m + 1, k < l PROVE to[k] < to[l]
      OBVIOUS
    <3>1. k \in 1 .. m
      BY <1>4
    <3>2. CASE l = m + 1
      BY <1>4, <2>2, <3>1, <3>2
    <3>3. CASE l \in 1 .. m
      BY <1>6, <2>2, <3>1, <3>3
    <3> QED BY <1>4, <3>2, <3>3
  <2>5. \A i \in 1 .. n + 1 : longer[i].family = family => \E k \in 1 .. m + 1 : to[k] = i
    <3> SUFFICES ASSUME NEW i \in 1 .. n + 1, longer[i].family = family
                 PROVE  \E k \in 1 .. m + 1 : to[k] = i
      OBVIOUS
    <3>1. CASE i = n + 1
      <4>1. m + 1 \in 1 .. m + 1
        BY <1>4
      <4> QED BY <2>2, <3>1, <4>1
    <3>2. CASE i \in 1 .. n
      <4>1. PICK k \in 1 .. m : at[k] = i
        BY <1>4, <1>6, <3>2
      <4>2. k \in 1 .. m + 1 /\ to[k] = i
        BY <1>4, <2>2, <4>1
      <4> QED BY <4>2
    <3>3. i = n + 1 \/ i \in 1 .. n
      BY <1>4
    <3> QED BY <3>1, <3>2, <3>3
  <2>6. IsEmbedding(to, more, longer, family)
    BY <1>4, <1>5, <2>2, <2>3, <2>4, <2>5 DEF IsEmbedding
  <2> QED BY <1>5, <2>1, <2>6 DEF longer
<1>8. CASE e.family # family
  <2>1. Selected(family, rows, e) = rows
    BY <1>8 DEF Selected
  <2>2. at \in [1 .. m -> 1 .. n + 1] /\ \A k \in 1 .. m : longer[at[k]] = s[at[k]]
    BY <1>4, <1>6
  <2>3. \A i \in 1 .. n + 1 : longer[i].family = family => \E k \in 1 .. m : at[k] = i
    <3> SUFFICES ASSUME NEW i \in 1 .. n + 1, longer[i].family = family
                 PROVE  \E k \in 1 .. m : at[k] = i
      OBVIOUS
    <3>1. i # n + 1
      BY <1>4, <1>8
    <3>2. i \in 1 .. n /\ longer[i] = s[i]
      BY <1>4, <3>1
    <3> QED BY <1>6, <3>2
  <2>4. IsEmbedding(at, rows, longer, family)
    BY <1>4, <1>6, <2>2, <2>3 DEF IsEmbedding, m
  <2> QED BY <1>2, <2>1, <2>4 DEF longer
<1> QED BY <1>7, <1>8

LEMMA RowsAreEmbedded ==
  ASSUME NEW type, NEW S, kernel.tables[type] \in Seq(S), NEW family \in {"AF_INET", "AF_INET6"}
  PROVE  \E at : IsEmbedding(at, Rows(type, family), kernel.tables[type], family)
<1> DEFINE table == kernel.tables[type]
<1>1. Rows(type, "AF_INET") = IPv4Dump!Folded(<<>>, table)
  BY DEF IPv4Dump!Folded, IPv4Dump!FoldLeft, FoldLeft, IPv4Dump!MapThenFoldSet,
         MapThenFoldSet, IPv4Dump!Max, Max, Rows, IPv4Selected, Selected
<1>2. Rows(type, "AF_INET6") = IPv6Dump!Folded(<<>>, table)
  BY DEF IPv6Dump!Folded, IPv6Dump!FoldLeft, FoldLeft, IPv6Dump!MapThenFoldSet,
         MapThenFoldSet, IPv6Dump!Max, Max, Rows, IPv6Selected, Selected
<1>3. \A f : IsEmbedded(f, <<>>, <<>>)
  <2> SUFFICES ASSUME NEW f PROVE \E at : IsEmbedding(at, <<>>, <<>>, f)
    BY DEF IsEmbedded
  <2>1. Len(<<>>) = 0 /\ 1 .. 0 = {}
    OBVIOUS
  <2>2. IsEmbedding([k \in {} |-> 0], <<>>, <<>>, f)
    BY <2>1 DEF IsEmbedding
  <2> QED BY <2>2
<1>4. AreIPv4Rows(<<>>, IPv4Dump!Folded(<<>>, table), table)
  <2>1. AreIPv4Rows(<<>>, <<>>, <<>>)
    BY <1>3 DEF AreIPv4Rows
  <2>2. \A a, s, e : (s \in Seq(S) /\ e \in S /\ AreIPv4Rows(<<>>, a, s))
                        => AreIPv4Rows(<<>>, IPv4Selected(a, e), Append(s, e))
    BY OneMoreIsEmbedded DEF AreIPv4Rows, IPv4Selected
  <2> QED BY <2>1, <2>2, IPv4Dump!FoldLeftInduction
<1>5. AreIPv6Rows(<<>>, IPv6Dump!Folded(<<>>, table), table)
  <2>1. AreIPv6Rows(<<>>, <<>>, <<>>)
    BY <1>3 DEF AreIPv6Rows
  <2>2. \A a, s, e : (s \in Seq(S) /\ e \in S /\ AreIPv6Rows(<<>>, a, s))
                        => AreIPv6Rows(<<>>, IPv6Selected(a, e), Append(s, e))
    BY OneMoreIsEmbedded DEF AreIPv6Rows, IPv6Selected
  <2> QED BY <2>1, <2>2, IPv6Dump!FoldLeftInduction
<1> HIDE DEF table
<1>6. table \in Seq(S)
  BY DEF table
<1>7. /\ \E at : IsEmbedding(at, Rows(type, "AF_INET"), table, "AF_INET")
      /\ \E at : IsEmbedding(at, Rows(type, "AF_INET6"), table, "AF_INET6")
  BY <1>1, <1>2, <1>4, <1>5, <1>6 DEF AreIPv4Rows, AreIPv6Rows, IsEmbedded
<1> QED BY <1>7 DEF table

\* The greatest of a set.
LEMMA MaxIs ==
  ASSUME NEW S \in SUBSET Int, NEW n \in S, \A k \in S : k <= n
  PROVE  Max(S) = n
<1>1. \A x \in S : (\A y \in S : x >= y) => x = n
  OBVIOUS
<1> QED BY <1>1 DEF Max

\* The last row of M in what is selected is the last of the table, if M is of the family.
LastsAreThoseOf(at, rows, s, M) ==
    LET places == {i \in 1 .. Len(s) : s[i] \in M}
    IN  /\ \A k \in 1 .. Len(rows) : at[k] \in 1 .. Len(s) /\ rows[k] = s[at[k]]
        /\ NoneIn(rows, Len(rows), M) => places = {}
        /\ \A k \in 1 .. Len(rows) : IsLastIn(k, rows, Len(rows), M) =>
               at[k] \in places /\ Max(places) = at[k]
        /\ \A i \in places : \E k \in 1 .. Len(rows) : rows[k] = s[i] /\ at[k] = i

LEMMA LastOfTable ==
  ASSUME NEW S, NEW s \in Seq(S), NEW rows \in Seq(S), NEW family, NEW at,
         IsEmbedding(at, rows, s, family),
         NEW M, \A m \in M : m.family = family
  PROVE  LastsAreThoseOf(at, rows, s, M)
<1> DEFINE n == Len(s)  m == Len(rows)  places == {i \in 1 .. n : s[i] \in M}
<1>1. n \in Nat /\ m \in Nat
  OBVIOUS
<1>2. /\ at \in [1 .. m -> 1 .. n]
      /\ \A k \in 1 .. m : rows[k] = s[at[k]]
      /\ \A k, l \in 1 .. m : k < l => at[k] < at[l]
      /\ \A i \in 1 .. n : s[i].family = family => \E k \in 1 .. m : at[k] = i
  BY DEF IsEmbedding
<1>3. \A i \in 1 .. n : s[i] \in M => \E k \in 1 .. m : rows[k] = s[i] /\ at[k] = i
  BY <1>2
<1>4. ASSUME NEW k \in 1 .. m, IsLastIn(k, rows, m, M)
      PROVE  at[k] \in places /\ Max(places) = at[k]
  <2>1. at[k] \in places
    BY <1>2, <1>4 DEF IsLastIn
  <2>2. ASSUME NEW i \in places PROVE i <= at[k]
    <3>1. PICK l \in 1 .. m : rows[l] = s[i] /\ at[l] = i
      BY <1>3
    <3>2. ~ (l > k)
      BY <3>1, <1>4 DEF IsLastIn
    <3>3. l = k \/ l < k
      BY <1>1, <3>2
    <3>4. l < k => at[l] < at[k]
      BY <1>2
    <3>5. at[l] \in Int /\ at[k] \in Int
      BY <1>2
    <3> QED BY <3>1, <3>3, <3>4, <3>5
  <2>3. places \in SUBSET Int
    OBVIOUS
  <2> HIDE DEF places
  <2> QED BY <2>1, <2>2, <2>3, MaxIs
<1>5. ASSUME NoneIn(rows, m, M) PROVE places = {}
  BY <1>3, <1>5 DEF NoneIn
<1>6. \A i \in places : \E k \in 1 .. m : rows[k] = s[i] /\ at[k] = i
  BY <1>3
<1>7. \A k \in 1 .. m : at[k] \in 1 .. n /\ rows[k] = s[at[k]]
  BY <1>2
<1> QED BY <1>4, <1>5, <1>6, <1>7 DEF LastsAreThoseOf

\* Either none of the rows is in M, or there is a last that is.
LEMMA LastExists ==
  ASSUME NEW n \in Nat, NEW s, NEW M
  PROVE  NoneIn(s, n, M) \/ \E k \in 1 .. n : IsLastIn(k, s, n, M)
<1> SUFFICES ASSUME ~NoneIn(s, n, M) PROVE \E k \in 1 .. n : IsLastIn(k, s, n, M)
  OBVIOUS
<1> DEFINE T == {d \in Nat : n - d \in 1 .. n /\ s[n - d] \in M}
<1>1. PICK i \in 1 .. n : s[i] \in M
  BY DEF NoneIn
<1>2. n - i \in T
  <2>1. n - i \in Nat /\ n - (n - i) = i
    BY <1>1
  <2> QED BY <1>1, <2>1
<1>3. PICK d \in T : \A e \in T : d <= e
  <2> HIDE DEF T
  <2>1. T \in SUBSET Nat
    BY DEF T
  <2> QED BY <1>2, <2>1, IPv4Rows!LeastExists
<1>4. n - d \in 1 .. n /\ s[n - d] \in M
  BY <1>3
<1>5. ASSUME NEW j \in 1 .. n, j > n - d, s[j] \in M PROVE FALSE
  <2>1. n - j \in Nat /\ n - (n - j) = j
    OBVIOUS
  <2>2. n - j \in T
    BY <1>5, <2>1
  <2>3. d <= n - j
    BY <1>3, <2>2
  <2> QED BY <1>3, <1>5, <2>3
<1>6. IsLastIn(n - d, s, n, M)
  BY <1>4, <1>5 DEF IsLastIn
<1> QED BY <1>4, <1>6

-------------------------------------------------------------------------------
\* What a query has found when it has come to all rows is what it asks for, and it
\* starts with what was found before or with nothing.
LEMMA TablesAre ==
  ASSUME TablesAssumption, kernel.tables \in Tables, NEW family \in {"AF_INET", "AF_INET6"}
  PROVE  /\ kernel.tables["RTM_GETADDR"] \in Seq({m \in Entries : m.type = "RTM_NEWADDR"})
         /\ kernel.tables["RTM_GETROUTE"] \in Seq({m \in Entries : m.type = "RTM_NEWROUTE"})
         /\ Rows("RTM_GETADDR", family) \in Seq({m \in Entries : m.type = "RTM_NEWADDR"})
         /\ Rows("RTM_GETROUTE", family) \in Seq({m \in Entries : m.type = "RTM_NEWROUTE"})
<1> DEFINE A == {m \in Entries : m.type = "RTM_NEWADDR"}  R == {m \in Entries : m.type = "RTM_NEWROUTE"}
<1>1. kernel.tables["RTM_GETADDR"] \in Seq(A) /\ kernel.tables["RTM_GETROUTE"] \in Seq(R)
  BY DEF TablesAssumption
<1> HIDE DEF A, R
<1>2. /\ Rows("RTM_GETADDR", family) \in Seq(IsOf(family, A))
      /\ Rows("RTM_GETROUTE", family) \in Seq(IsOf(family, R))
  BY <1>1, RowsAre
<1>3. Rows("RTM_GETADDR", family) \in Seq(A) /\ Rows("RTM_GETROUTE", family) \in Seq(R)
  <2>1. \A S, s : s \in Seq(IsOf(family, S)) => s \in Seq(S)
    BY DEF IsOf
  <2> QED BY <1>2, <2>1
<1> QED BY <1>1, <1>3 DEF A, R

LEMMA AddressIsFound ==
  ASSUME TablesAssumption, kernel.tables \in Tables, NEW family \in {"AF_INET", "AF_INET6"},
         NEW scope, NEW address, NEW n, n = Len(Rows("RTM_GETADDR", family)),
         AddressSoFar(address, Rows("RTM_GETADDR", family), n, family, scope)
  PROVE  address = LastAddress(family, scope)
<1> DEFINE table == kernel.tables["RTM_GETADDR"]
           rows == Rows("RTM_GETADDR", family)
           S == {m \in Entries : m.type = "RTM_NEWADDR"}
           M == AddressRows(family, scope)
           places == {i \in 1 .. Len(table) : table[i] \in M}
<1>1. table \in Seq(S) /\ rows \in Seq(S)
  BY TablesAre
<1>2. AddressesOf(family, scope) = places
  <2>1. DOMAIN table = 1 .. Len(table) /\ \A i \in 1 .. Len(table) : table[i] \in S
    <3> HIDE DEF table, S
    <3> QED BY <1>1
  <2> QED BY <2>1 DEF AddressesOf, RowsOf, AddressRows
<1>3. LastAddress(family, scope) = IF places = {} THEN None ELSE table[Max(places)].address
  BY <1>2 DEF LastAddress
<1>4. \A m \in M : m.family = family
  BY DEF AddressRows
<1>5. PICK at : IsEmbedding(at, rows, table, family)
  <2> HIDE DEF S
  <2> QED BY <1>1, RowsAreEmbedded
<1>6. PICK earlier \in {None, LastAddress(family, scope)} :
         AddressAfter(address, rows, n, M, earlier)
  BY DEF AddressSoFar
<1> HIDE DEF table, rows, S, M, places
<1>7. /\ \A k \in 1 .. n : rows[k] = table[at[k]]
      /\ NoneIn(rows, n, M) => places = {}
      /\ \A k \in 1 .. n : IsLastIn(k, rows, n, M) => at[k] \in places /\ Max(places) = at[k]
  <2>1. n = Len(rows)
    BY DEF rows
  <2>2. LastsAreThoseOf(at, rows, table, M)
    BY <1>1, <1>4, <1>5, LastOfTable
  <2> QED BY <2>1, <2>2 DEF LastsAreThoseOf, places
<1>8. CASE NoneIn(rows, n, M) /\ address = earlier
  BY <1>3, <1>6, <1>7, <1>8
<1>9. ASSUME NEW i \in 1 .. n, IsLastIn(i, rows, n, M), address = rows[i].address
      PROVE  address = LastAddress(family, scope)
  BY <1>3, <1>7, <1>9
<1> QED BY <1>6, <1>8, <1>9 DEF AddressAfter

LEMMA GatewayIsFound ==
  ASSUME TablesAssumption, kernel.tables \in Tables, NEW family \in {"AF_INET", "AF_INET6"},
         NEW gateway, NEW n, n = Len(Rows("RTM_GETROUTE", family)),
         GatewaySoFar(gateway, Rows("RTM_GETROUTE", family), n, family)
  PROVE  IsGatewayOfDevice(gateway, family)
<1> DEFINE table == kernel.tables["RTM_GETROUTE"]
           rows == Rows("RTM_GETROUTE", family)
           S == {m \in Entries : m.type = "RTM_NEWROUTE"}
           G == GatewayRows(family)  D == DeviceRows(family)
           places == {i \in 1 .. Len(table) : table[i] \in G}
           ofDevice == {i \in 1 .. Len(table) : table[i] \in D}
<1>1. table \in Seq(S) /\ rows \in Seq(S)
  BY TablesAre
<1>2. GatewayRoutes(family) = places /\ RoutesOfDevice(family) = ofDevice
  <2>1. DOMAIN table = 1 .. Len(table) /\ \A i \in 1 .. Len(table) : table[i] \in S
    <3> HIDE DEF table, S
    <3> QED BY <1>1
  <2>2. GatewayRoutes(family) = places
    BY <2>1 DEF GatewayRoutes, RowsOf, GatewayRows
  <2> QED BY <2>1, <2>2 DEF RoutesOfDevice, DeviceRows
<1>3. (\A m \in G : m.family = family) /\ (\A m \in D : m \in G)
  BY DEF GatewayRows, DeviceRows
<1>4. PICK at : IsEmbedding(at, rows, table, family)
  <2> HIDE DEF S
  <2> QED BY <1>1, RowsAreEmbedded
<1>5. (\E i \in 1 .. n : rows[i] \in D /\ IsLastIn(i, rows, n, G)) =>
         \E i \in 1 .. n : rows[i] \in D /\ Says(rows[i], "RTA_GATEWAY", gateway)
  BY DEF GatewaySoFar, IsGatewayIn
<1> HIDE DEF table, rows, S, G, D
<1>6. /\ \A k \in 1 .. n : at[k] \in 1 .. Len(table) /\ rows[k] = table[at[k]]
      /\ NoneIn(rows, n, G) => places = {}
      /\ \A k \in 1 .. n : IsLastIn(k, rows, n, G) => Max(places) = at[k]
      /\ \A i \in 1 .. Len(table) : table[i] \in G => \E k \in 1 .. n : rows[k] = table[i] /\ at[k] = i
  <2>1. n = Len(rows)
    BY DEF rows
  <2>2. LastsAreThoseOf(at, rows, table, G)
    BY <1>1, <1>3, <1>4, LastOfTable
  <2> QED BY <2>1, <2>2 DEF LastsAreThoseOf, places
<1>7. NoneIn(rows, n, G) \/ \E k \in 1 .. n : IsLastIn(k, rows, n, G)
  <2>1. n \in Nat
    BY <1>1 DEF rows
  <2> QED BY <2>1, LastExists
<1>8. SUFFICES ASSUME places # {}, Max(places) \in ofDevice
               PROVE  \E i \in ofDevice : Says(table[i], "RTA_GATEWAY", gateway)
  BY <1>2 DEF IsGatewayOfDevice, table
<1>9. PICK k \in 1 .. n : IsLastIn(k, rows, n, G)
  BY <1>6, <1>7, <1>8
<1>10. rows[k] \in D
  BY <1>6, <1>8, <1>9
<1>11. PICK l \in 1 .. n : rows[l] \in D /\ Says(rows[l], "RTA_GATEWAY", gateway)
  BY <1>5, <1>9, <1>10
<1>12. at[l] \in ofDevice /\ Says(table[at[l]], "RTA_GATEWAY", gateway)
  BY <1>6, <1>11
<1> QED BY <1>12

\* A query that has come to all rows of its answer has found it.
LEMMA AllRowsAnswer ==
  ASSUME TablesAssumption, kernel.tables \in Tables, NEW q \in Queries,
         SoFar(q, device, Whole(q), Len(Whole(q)))
  PROVE  HasItsAnswer(q)
<1>1. Whole(q) = Rows(IF q \in AddressQueries THEN "RTM_GETADDR" ELSE "RTM_GETROUTE", Family(q))
  BY DEF Whole, Request, NetlinkAddressRequest, NetlinkRouteRequest
<1>2. CASE q = "IPv4Address"
  <2>1. AddressSoFar(device.ipv4Address, Rows("RTM_GETADDR", "AF_INET"),
                     Len(Rows("RTM_GETADDR", "AF_INET")), "AF_INET", "RT_SCOPE_UNIVERSE")
    BY <1>1, <1>2 DEF SoFar, AddressQueries, IPv4Queries, Family
  <2> QED BY <1>2, <2>1, AddressIsFound DEF HasItsAnswer
<1>3. CASE q = "IPv6Addresses"
  <2> DEFINE rows == Rows("RTM_GETADDR", "AF_INET6")
  <2>1. /\ AddressSoFar(device.ipv6Global, rows, Len(rows), "AF_INET6", "RT_SCOPE_UNIVERSE")
        /\ AddressSoFar(device.ipv6Local, rows, Len(rows), "AF_INET6", "RT_SCOPE_LINK")
    BY <1>1, <1>3 DEF SoFar, AddressQueries, IPv4Queries, Family
  <2>2. /\ device.ipv6Global = LastAddress("AF_INET6", "RT_SCOPE_UNIVERSE")
        /\ device.ipv6Local = LastAddress("AF_INET6", "RT_SCOPE_LINK")
    BY <2>1, AddressIsFound
  <2> QED BY <1>3, <2>2 DEF HasItsAnswer
<1>4. CASE q = "IPv4Gateway"
  <2>1. GatewaySoFar(device.ipv4Gateway, Rows("RTM_GETROUTE", "AF_INET"),
                     Len(Rows("RTM_GETROUTE", "AF_INET")), "AF_INET")
    BY <1>1, <1>4 DEF SoFar, AddressQueries, IPv4Queries, Family
  <2> QED BY <1>4, <2>1, GatewayIsFound DEF HasItsAnswer
<1>5. CASE q = "IPv6Gateway"
  <2>1. GatewaySoFar(device.ipv6Gateway, Rows("RTM_GETROUTE", "AF_INET6"),
                     Len(Rows("RTM_GETROUTE", "AF_INET6")), "AF_INET6")
    BY <1>1, <1>5 DEF SoFar, AddressQueries, IPv4Queries, Family
  <2> QED BY <1>5, <2>1, GatewayIsFound DEF HasItsAnswer
<1> QED BY <1>2, <1>3, <1>4, <1>5 DEF Queries, AddressQueries

\* Before the first row.
LEMMA NoRowYet ==
  ASSUME NEW q \in Queries, HasItsAnswer(q) \/ NothingBefore(q), NEW s
  PROVE  SoFar(q, device, s, 0)
<1>1. 1 .. 0 = {}
  OBVIOUS
<1>2. ASSUME NEW address, NEW family, NEW scope,
             address = None \/ address = LastAddress(family, scope)
      PROVE  AddressSoFar(address, s, 0, family, scope)
  <2>1. AddressAfter(address, s, 0, AddressRows(family, scope), address)
    BY <1>1 DEF AddressAfter, NoneIn
  <2> QED BY <1>2, <2>1 DEF AddressSoFar
<1>3. \A gateway, family : GatewaySoFar(gateway, s, 0, family)
  BY <1>1 DEF GatewaySoFar
<1>4. CASE q = "IPv4Address"
  BY <1>2, <1>4 DEF SoFar, HasItsAnswer, NothingBefore
<1>5. CASE q = "IPv6Addresses"
  BY <1>2, <1>5 DEF SoFar, HasItsAnswer, NothingBefore
<1>6. CASE q = "IPv4Gateway" \/ q = "IPv6Gateway"
  BY <1>3, <1>6 DEF SoFar
<1> QED BY <1>4, <1>5, <1>6 DEF Queries, AddressQueries

-------------------------------------------------------------------------------
\* The walk over one datagram: the addresses.
LEMMA OneMoreAddress ==
  ASSUME NEW S, NEW s \in Seq(S), NEW e \in S, NEW M, NEW address, NEW earlier,
         AddressAfter(address, s, Len(s), M, earlier)
  PROVE  /\ e \in M => AddressAfter(e.address, Append(s, e), Len(Append(s, e)), M, earlier)
         /\ e \notin M => AddressAfter(address, Append(s, e), Len(Append(s, e)), M, earlier)
<1> DEFINE n == Len(s)  longer == Append(s, e)
<1>1. n \in Nat /\ Len(longer) = n + 1 /\ longer[n + 1] = e /\ \A i \in 1 .. n : longer[i] = s[i]
  OBVIOUS
<1>2. \/ \E i \in 1 .. n : IsLastIn(i, s, n, M) /\ address = s[i].address
      \/ NoneIn(s, n, M) /\ address = earlier
  BY DEF AddressAfter
<1> HIDE DEF longer, n
<1>3. ASSUME e \in M PROVE AddressAfter(e.address, longer, n + 1, M, earlier)
  <2>1. n + 1 \in 1 .. n + 1 /\ \A j \in 1 .. n + 1 : ~ (j > n + 1)
    BY <1>1
  <2>2. IsLastIn(n + 1, longer, n + 1, M)
    BY <1>1, <1>3, <2>1 DEF IsLastIn
  <2> QED BY <1>1, <2>1, <2>2 DEF AddressAfter
<1>4. ASSUME e \notin M PROVE AddressAfter(address, longer, n + 1, M, earlier)
  <2>1. CASE NoneIn(s, n, M) /\ address = earlier
    BY <1>1, <1>4, <2>1 DEF AddressAfter, NoneIn
  <2>2. ASSUME NEW i \in 1 .. n, IsLastIn(i, s, n, M), address = s[i].address
        PROVE  AddressAfter(address, longer, n + 1, M, earlier)
    <3>1. i \in 1 .. n + 1 /\ longer[i] \in M /\ address = longer[i].address
      BY <1>1, <2>2 DEF IsLastIn
    <3>2. \A j \in 1 .. n + 1 : j > i => longer[j] \notin M
      BY <1>1, <1>4, <2>2 DEF IsLastIn
    <3>3. IsLastIn(i, longer, n + 1, M)
      BY <3>1, <3>2 DEF IsLastIn
    <3> QED BY <3>1, <3>3 DEF AddressAfter
  <2> QED BY <1>2, <2>1, <2>2
<1> QED BY <1>1, <1>3, <1>4 DEF longer

IPv4Universe == AddressRows("AF_INET", "RT_SCOPE_UNIVERSE")
IPv6Universe == AddressRows("AF_INET6", "RT_SCOPE_UNIVERSE")
IPv6Link == AddressRows("AF_INET6", "RT_SCOPE_LINK")

IPv4Walk(base, d, s) ==
    IsDevice(base) /\ base.index = Index =>
       /\ d = [base EXCEPT !.ipv4Address = d.ipv4Address]
       /\ AddressAfter(d.ipv4Address, s, Len(s), IPv4Universe, base.ipv4Address)
IPv4s == INSTANCE Folding WITH op <- IPv4Address, Inv <- IPv4Walk

LEMMA IPv4Walked ==
  ASSUME NEW d, IsDevice(d), d.index = Index, NEW messages \in Seq(Answer("IPv4Address"))
  PROVE  LET r == getIPv4Address(d, messages) IN
         /\ r = [d EXCEPT !.ipv4Address = r.ipv4Address]
         /\ AddressAfter(r.ipv4Address, messages, Len(messages), IPv4Universe, d.ipv4Address)
<1> DEFINE S == Answer("IPv4Address")
<1>1. ASSUME NEW m \in S
      PROVE  m.type = "RTM_NEWADDR" /\ m.index = Index /\ m.scope = "RT_SCOPE_UNIVERSE"
               <=> m \in IPv4Universe
  BY <1>1 DEF Answer, AnswerRows, RowType, AddressQueries, Family, IPv4Queries, IPv4Universe,
              AddressRows, NLMSG_DONE
<1>2. IPv4Walk(d, d, <<>>)
  <2>1. d = [d EXCEPT !.ipv4Address = d.ipv4Address]
    BY DEF IsDevice
  <2>2. Len(<<>>) = 0 /\ 1 .. 0 = {}
    OBVIOUS
  <2> QED BY <2>1, <2>2 DEF IPv4Walk, AddressAfter, NoneIn
<1>3. ASSUME NEW a, NEW s \in Seq(S), NEW e \in S, IPv4Walk(d, a, s)
      PROVE  IPv4Walk(d, IPv4Address(a, e), Append(s, e))
  <2>1. /\ a = [d EXCEPT !.ipv4Address = a.ipv4Address]
        /\ AddressAfter(a.ipv4Address, s, Len(s), IPv4Universe, d.ipv4Address)
    BY <1>3 DEF IPv4Walk
  <2>2. a.index = Index
    BY <2>1 DEF IsDevice
  <2>3. /\ e \in IPv4Universe => AddressAfter(e.address, Append(s, e), Len(Append(s, e)), IPv4Universe, d.ipv4Address)
        /\ e \notin IPv4Universe => AddressAfter(a.ipv4Address, Append(s, e), Len(Append(s, e)), IPv4Universe, d.ipv4Address)
    BY <2>1, OneMoreAddress
  <2>4. CASE e \in IPv4Universe
    <3>1. IPv4Address(a, e) = [a EXCEPT !.ipv4Address = e.address]
      BY <1>1, <2>2, <2>4 DEF IPv4Address
    <3>2. [a EXCEPT !.ipv4Address = e.address] = [d EXCEPT !.ipv4Address = e.address]
      BY <2>1 DEF IsDevice
    <3>3. [d EXCEPT !.ipv4Address = e.address].ipv4Address = e.address
      BY DEF IsDevice
    <3> QED BY <2>3, <2>4, <3>1, <3>2, <3>3 DEF IPv4Walk
  <2>5. CASE e \notin IPv4Universe
    <3>1. IPv4Address(a, e) = a
      BY <1>1, <2>2, <2>5 DEF IPv4Address
    <3> QED BY <2>1, <2>3, <2>5, <3>1 DEF IPv4Walk
  <2> QED BY <2>4, <2>5
<1> HIDE DEF S
<1>4. IPv4Walk(d, IPv4s!Folded(d, messages), messages)
  <2>1. \A seq \in Seq(S) : IPv4Walk(d, IPv4s!Folded(d, seq), seq)
    BY <1>2, <1>3, IPv4s!FoldLeftInduction
  <2> QED BY <2>1 DEF S
<1>5. IPv4s!Folded(d, messages) = getIPv4Address(d, messages)
  BY DEF getIPv4Address, IPv4s!Folded, IPv4s!FoldLeft, FoldLeft, IPv4s!MapThenFoldSet,
         MapThenFoldSet, IPv4s!Max, Max
<1> QED BY <1>4, <1>5 DEF IPv4Walk

IPv6Walk(base, d, s) ==
    IsDevice(base) /\ base.index = Index =>
       /\ d = [base EXCEPT !.ipv6Global = d.ipv6Global, !.ipv6Local = d.ipv6Local]
       /\ AddressAfter(d.ipv6Global, s, Len(s), IPv6Universe, base.ipv6Global)
       /\ AddressAfter(d.ipv6Local, s, Len(s), IPv6Link, base.ipv6Local)
IPv6s == INSTANCE Folding WITH op <- IPv6Address, Inv <- IPv6Walk

LEMMA IPv6Walked ==
  ASSUME NEW d, IsDevice(d), d.index = Index, NEW messages \in Seq(Answer("IPv6Addresses"))
  PROVE  LET r == getIPv6Addresses(d, messages) IN
         /\ r = [d EXCEPT !.ipv6Global = r.ipv6Global, !.ipv6Local = r.ipv6Local]
         /\ AddressAfter(r.ipv6Global, messages, Len(messages), IPv6Universe, d.ipv6Global)
         /\ AddressAfter(r.ipv6Local, messages, Len(messages), IPv6Link, d.ipv6Local)
<1> DEFINE S == Answer("IPv6Addresses")
<1>1. ASSUME NEW m \in S
      PROVE  /\ m.type = "RTM_NEWADDR" /\ m.index = Index /\ m.scope = "RT_SCOPE_UNIVERSE"
                  <=> m \in IPv6Universe
             /\ m.type = "RTM_NEWADDR" /\ m.index = Index /\ m.scope = "RT_SCOPE_LINK"
                  <=> m \in IPv6Link
             /\ m \in IPv6Link => m \notin IPv6Universe
  BY <1>1 DEF Answer, AnswerRows, RowType, AddressQueries, Family, IPv4Queries, IPv6Universe,
              IPv6Link, AddressRows, NLMSG_DONE
<1>2. IPv6Walk(d, d, <<>>)
  <2>1. d = [d EXCEPT !.ipv6Global = d.ipv6Global, !.ipv6Local = d.ipv6Local]
    BY DEF IsDevice
  <2>2. Len(<<>>) = 0 /\ 1 .. 0 = {}
    OBVIOUS
  <2> QED BY <2>1, <2>2 DEF IPv6Walk, AddressAfter, NoneIn
<1>3. ASSUME NEW a, NEW s \in Seq(S), NEW e \in S, IPv6Walk(d, a, s)
      PROVE  IPv6Walk(d, IPv6Address(a, e), Append(s, e))
  <2> DEFINE longer == Append(s, e)
  <2>1. /\ a = [d EXCEPT !.ipv6Global = a.ipv6Global, !.ipv6Local = a.ipv6Local]
        /\ AddressAfter(a.ipv6Global, s, Len(s), IPv6Universe, d.ipv6Global)
        /\ AddressAfter(a.ipv6Local, s, Len(s), IPv6Link, d.ipv6Local)
    BY <1>3 DEF IPv6Walk
  <2>2. a.index = Index
    BY <2>1 DEF IsDevice
  <2>3. /\ e \in IPv6Universe => AddressAfter(e.address, longer, Len(longer), IPv6Universe, d.ipv6Global)
        /\ e \notin IPv6Universe => AddressAfter(a.ipv6Global, longer, Len(longer), IPv6Universe, d.ipv6Global)
    BY <2>1, OneMoreAddress
  <2>4. /\ e \in IPv6Link => AddressAfter(e.address, longer, Len(longer), IPv6Link, d.ipv6Local)
        /\ e \notin IPv6Link => AddressAfter(a.ipv6Local, longer, Len(longer), IPv6Link, d.ipv6Local)
    BY <2>1, OneMoreAddress
  <2> HIDE DEF longer
  <2>5. CASE e \in IPv6Universe
    <3> DEFINE r == [d EXCEPT !.ipv6Global = e.address, !.ipv6Local = a.ipv6Local]
    <3>1. IPv6Address(a, e) = [a EXCEPT !.ipv6Global = e.address]
      BY <1>1, <2>2, <2>5 DEF IPv6Address
    <3>2. [a EXCEPT !.ipv6Global = e.address] = r
      BY <2>1 DEF IsDevice
    <3>3. r.ipv6Global = e.address /\ r.ipv6Local = a.ipv6Local
      BY DEF IsDevice
    <3>4. e \notin IPv6Link
      BY <1>1, <2>5
    <3> HIDE DEF r
    <3>5. r = [d EXCEPT !.ipv6Global = r.ipv6Global, !.ipv6Local = r.ipv6Local]
      BY <3>3 DEF r
    <3> QED BY <2>3, <2>4, <2>5, <3>1, <3>2, <3>3, <3>4, <3>5 DEF IPv6Walk, longer
  <2>6. CASE e \in IPv6Link
    <3> DEFINE r == [d EXCEPT !.ipv6Global = a.ipv6Global, !.ipv6Local = e.address]
    <3>1. IPv6Address(a, e) = [a EXCEPT !.ipv6Local = e.address]
      BY <1>1, <2>2, <2>6 DEF IPv6Address
    <3>2. [a EXCEPT !.ipv6Local = e.address] = r
      BY <2>1 DEF IsDevice
    <3>3. r.ipv6Global = a.ipv6Global /\ r.ipv6Local = e.address
      BY DEF IsDevice
    <3>4. e \notin IPv6Universe
      BY <1>1, <2>6
    <3> HIDE DEF r
    <3>5. r = [d EXCEPT !.ipv6Global = r.ipv6Global, !.ipv6Local = r.ipv6Local]
      BY <3>3 DEF r
    <3> QED BY <2>3, <2>4, <2>6, <3>1, <3>2, <3>3, <3>4, <3>5 DEF IPv6Walk, longer
  <2>7. CASE e \notin IPv6Universe /\ e \notin IPv6Link
    <3>1. IPv6Address(a, e) = a
      BY <1>1, <2>2, <2>7 DEF IPv6Address
    <3> QED BY <2>1, <2>3, <2>4, <2>7, <3>1 DEF IPv6Walk, longer
  <2> QED BY <2>5, <2>6, <2>7
<1> HIDE DEF S
<1>4. IPv6Walk(d, IPv6s!Folded(d, messages), messages)
  <2>1. \A seq \in Seq(S) : IPv6Walk(d, IPv6s!Folded(d, seq), seq)
    BY <1>2, <1>3, IPv6s!FoldLeftInduction
  <2> QED BY <2>1 DEF S
<1>5. IPv6s!Folded(d, messages) = getIPv6Addresses(d, messages)
  BY DEF getIPv6Addresses, IPv6s!Folded, IPv6s!FoldLeft, FoldLeft, IPv6s!MapThenFoldSet,
         MapThenFoldSet, IPv6s!Max, Max
<1> QED BY <1>4, <1>5 DEF IPv6Walk

-------------------------------------------------------------------------------
\* The walk over one datagram: the gateways.
IsSearch(s) ==
    /\ s = [index |-> s.index, gateway |-> s.gateway, found |-> s.found,
            foundGateway |-> s.foundGateway, output |-> s.output, leave |-> s.leave]
    /\ s.foundGateway \in BOOLEAN /\ s.found \in BOOLEAN /\ s.leave \in BOOLEAN

\* The walk over the attributes of a route has met an output device of another index,
\* or it has all of them.
HasIn(s, type) == \E i \in 1 .. Len(s) : s[i][1] = type
LeavesIn(s, index) == \E i \in 1 .. Len(s) : s[i][1] = "RTA_OIF" /\ s[i][2] # index
SaidIn(s, type, value) == \E i \in 1 .. Len(s) : s[i][1] = type /\ s[i][2] = value
AttributesWalk(base, r, s) ==
    IsSearch(base) /\ ~base.foundGateway /\ ~base.leave /\ base.output = -1 =>
       /\ IsSearch(r) /\ r.index = base.index /\ r.found = base.found
       /\ r.leave <=> LeavesIn(s, base.index)
       /\ r.leave => r.output # r.index
       /\ ~HasIn(s, "RTA_GATEWAY") => r.gateway = base.gateway /\ ~r.foundGateway
       /\ ~r.leave =>
             /\ HasIn(s, "RTA_GATEWAY") => r.foundGateway /\ SaidIn(s, "RTA_GATEWAY", r.gateway)
             /\ r.output = IF HasIn(s, "RTA_OIF") THEN r.index ELSE -1
Attributes == INSTANCE Folding WITH op <- RouteAttribute, Inv <- AttributesWalk

LEMMA OneMoreAttribute ==
  ASSUME NEW S, NEW s \in Seq(S), NEW e \in S
  PROVE  /\ \A type : HasIn(Append(s, e), type) <=> HasIn(s, type) \/ e[1] = type
         /\ \A index : LeavesIn(Append(s, e), index)
                          <=> LeavesIn(s, index) \/ (e[1] = "RTA_OIF" /\ e[2] # index)
         /\ \A type, value : SaidIn(Append(s, e), type, value)
                          <=> SaidIn(s, type, value) \/ (e[1] = type /\ e[2] = value)
<1> DEFINE n == Len(s)  longer == Append(s, e)
<1>1. n \in Nat /\ Len(longer) = n + 1 /\ longer[n + 1] = e /\ \A i \in 1 .. n : longer[i] = s[i]
  OBVIOUS
<1>2. n + 1 \in 1 .. n + 1 /\ (\A i \in 1 .. n : i \in 1 .. n + 1)
      /\ \A i \in 1 .. n + 1 : i = n + 1 \/ i \in 1 .. n
  OBVIOUS
<1> HIDE DEF longer, n
<1>3. \A type : HasIn(longer, type) <=> HasIn(s, type) \/ e[1] = type
  BY <1>1, <1>2 DEF HasIn, n
<1>4. \A index : LeavesIn(longer, index) <=> LeavesIn(s, index) \/ (e[1] = "RTA_OIF" /\ e[2] # index)
  BY <1>1, <1>2 DEF LeavesIn, n
<1>5. \A type, value : SaidIn(longer, type, value)
                          <=> SaidIn(s, type, value) \/ (e[1] = type /\ e[2] = value)
  BY <1>1, <1>2 DEF SaidIn, n
<1> QED BY <1>3, <1>4, <1>5 DEF longer

LEMMA AttributeWalked ==
  ASSUME NEW base, NEW S, NEW a, NEW s \in Seq(S), NEW e \in S, AttributesWalk(base, a, s)
  PROVE  AttributesWalk(base, RouteAttribute(a, e), Append(s, e))
<1> SUFFICES ASSUME IsSearch(base) /\ ~base.foundGateway /\ ~base.leave /\ base.output = -1
             PROVE  AttributesWalk(base, RouteAttribute(a, e), Append(s, e))
  BY DEF AttributesWalk
<1> DEFINE longer == Append(s, e)  r == RouteAttribute(a, e)
<1>1. /\ \A type : HasIn(longer, type) <=> HasIn(s, type) \/ e[1] = type
      /\ \A index : LeavesIn(longer, index) <=> LeavesIn(s, index) \/ (e[1] = "RTA_OIF" /\ e[2] # index)
      /\ \A type, value : SaidIn(longer, type, value)
                            <=> SaidIn(s, type, value) \/ (e[1] = type /\ e[2] = value)
  BY OneMoreAttribute
<1>2. /\ IsSearch(a) /\ a.index = base.index /\ a.found = base.found
      /\ a.leave <=> LeavesIn(s, base.index)
      /\ a.leave => a.output # a.index
      /\ ~HasIn(s, "RTA_GATEWAY") => a.gateway = base.gateway /\ ~a.foundGateway
      /\ ~a.leave =>
            /\ HasIn(s, "RTA_GATEWAY") => a.foundGateway /\ SaidIn(s, "RTA_GATEWAY", a.gateway)
            /\ a.output = IF HasIn(s, "RTA_OIF") THEN a.index ELSE -1
  BY DEF AttributesWalk
<1> HIDE DEF longer
<1>3. CASE a.leave
  <2>1. r = a
    BY <1>3 DEF RouteAttribute
  <2> HIDE DEF r
  <2>2. r.leave /\ LeavesIn(longer, base.index)
    BY <1>1, <1>2, <1>3, <2>1
  <2>3. ~HasIn(longer, "RTA_GATEWAY") => r.gateway = base.gateway /\ ~r.foundGateway
    BY <1>1, <1>2, <2>1
  <2> QED BY <1>2, <1>3, <2>1, <2>2, <2>3 DEF AttributesWalk, r, longer
<1>4. CASE ~a.leave /\ e[1] = "RTA_GATEWAY"
  <2>1. r = [a EXCEPT !.gateway = e[2], !.foundGateway = TRUE]
    BY <1>4 DEF RouteAttribute
  <2> HIDE DEF r
  <2>2. /\ IsSearch(r) /\ r.index = a.index /\ r.found = a.found /\ r.leave = a.leave
        /\ r.output = a.output /\ r.gateway = e[2] /\ r.foundGateway
    BY <1>2, <2>1 DEF IsSearch
  <2>3. HasIn(longer, "RTA_GATEWAY") /\ SaidIn(longer, "RTA_GATEWAY", r.gateway)
    BY <1>1, <1>4, <2>2
  <2>4. (HasIn(longer, "RTA_OIF") <=> HasIn(s, "RTA_OIF"))
        /\ (LeavesIn(longer, base.index) <=> LeavesIn(s, base.index))
    BY <1>1, <1>4
  <2> QED BY <1>2, <1>4, <2>2, <2>3, <2>4 DEF AttributesWalk, r, longer
<1>5. CASE ~a.leave /\ e[1] = "RTA_OIF"
  <2>1. r = [a EXCEPT !.output = e[2], !.leave = e[2] # a.index]
    BY <1>5 DEF RouteAttribute
  <2> HIDE DEF r
  <2>2. /\ IsSearch(r) /\ r.index = a.index /\ r.found = a.found /\ (r.leave <=> e[2] # a.index)
        /\ r.output = e[2] /\ r.gateway = a.gateway /\ r.foundGateway = a.foundGateway
    BY <1>2, <2>1 DEF IsSearch
  <2>3. /\ HasIn(longer, "RTA_GATEWAY") <=> HasIn(s, "RTA_GATEWAY")
        /\ SaidIn(longer, "RTA_GATEWAY", r.gateway) <=> SaidIn(s, "RTA_GATEWAY", r.gateway)
        /\ HasIn(longer, "RTA_OIF")
        /\ LeavesIn(longer, base.index) <=> e[2] # base.index
    <3>1. ~LeavesIn(s, base.index)
      BY <1>2, <1>5
    <3>2. "RTA_OIF" # "RTA_GATEWAY"
      OBVIOUS
    <3> QED BY <1>1, <1>5, <3>1, <3>2
  <2> QED BY <1>2, <1>5, <2>2, <2>3 DEF AttributesWalk, r, longer
<1>6. CASE ~a.leave /\ e[1] # "RTA_GATEWAY" /\ e[1] # "RTA_OIF"
  <2>1. r = a
    BY <1>6 DEF RouteAttribute
  <2> HIDE DEF r
  <2>2. /\ HasIn(longer, "RTA_GATEWAY") <=> HasIn(s, "RTA_GATEWAY")
        /\ SaidIn(longer, "RTA_GATEWAY", r.gateway) <=> SaidIn(s, "RTA_GATEWAY", r.gateway)
        /\ HasIn(longer, "RTA_OIF") <=> HasIn(s, "RTA_OIF")
        /\ LeavesIn(longer, base.index) <=> LeavesIn(s, base.index)
    BY <1>1, <1>6
  <2> QED BY <1>2, <1>6, <2>1, <2>2 DEF AttributesWalk, r, longer
<1>7. a.leave \in BOOLEAN
  BY <1>2 DEF IsSearch
<1> QED BY <1>3, <1>4, <1>5, <1>6, <1>7

\* The walk over a route's attributes finds a gateway of the device when the route has
\* a gateway and leaves by the device, and only then.
OneDevice(m) ==
    IsMainUnicast(m) =>
       /\ m.attributes \in Seq(ToSet(m.attributes))
       /\ \A a, b \in ToSet(m.attributes) : a[1] = "RTA_OIF" /\ b[1] = "RTA_OIF" => a[2] = b[2]
IsGatewayRow(m) == IsMainUnicast(m) /\ HasAttribute(m, "RTA_GATEWAY")

LEMMA RouteIs ==
  ASSUME NEW search, IsSearch(search), search.index = Index,
         NEW route, IsMainUnicast(route), OneDevice(route),
         NEW r, r = RouteAttributes(search, route)
  PROVE  /\ IsSearch(r) /\ r.index = Index /\ r.found = search.found
         /\ ~HasAttribute(route, "RTA_GATEWAY") => r.gateway = search.gateway /\ ~IsFound(r)
         /\ HasAttribute(route, "RTA_GATEWAY") =>
               IF Says(route, "RTA_OIF", Index)
               THEN IsFound(r) /\ Says(route, "RTA_GATEWAY", r.gateway)
               ELSE ~IsFound(r)
<1> DEFINE s == route.attributes
           S == ToSet(s)
           base == [search EXCEPT !.foundGateway = FALSE, !.output = -1, !.leave = FALSE]
<1>1. s \in Seq(S) /\ \A a, b \in S : a[1] = "RTA_OIF" /\ b[1] = "RTA_OIF" => a[2] = b[2]
  BY DEF OneDevice
<1>2. S = {s[i] : i \in 1 .. Len(s)}
  <2>1. DOMAIN s = 1 .. Len(s)
    BY <1>1
  <2> QED BY <2>1 DEF ToSet
<1>3. /\ IsSearch(base) /\ ~base.foundGateway /\ ~base.leave /\ base.output = -1
      /\ base.index = Index /\ base.gateway = search.gateway /\ base.found = search.found
  <2>1. PICK first : first = [search EXCEPT !.foundGateway = FALSE]
    OBVIOUS
  <2>2. /\ IsSearch(first) /\ first.index = Index /\ first.gateway = search.gateway
        /\ first.found = search.found /\ ~first.foundGateway
    BY <2>1 DEF IsSearch
  <2>3. base = [first EXCEPT !.output = -1, !.leave = FALSE]
    BY <2>1
  <2> HIDE DEF base
  <2> QED BY <2>2, <2>3 DEF IsSearch
<1>4. /\ \A type : HasAttribute(route, type) <=> HasIn(s, type)
      /\ \A type, value : Says(route, type, value) <=> SaidIn(s, type, value)
  BY <1>2 DEF HasAttribute, Says, HasIn, SaidIn
<1>5. r = Attributes!Folded(base, s)
  BY DEF RouteAttributes, Attributes!Folded, Attributes!FoldLeft, FoldLeft,
         Attributes!MapThenFoldSet, MapThenFoldSet, Attributes!Max, Max
<1> HIDE DEF base, s, S
<1>6. AttributesWalk(base, base, <<>>)
  <2>1. Len(<<>>) = 0 /\ 1 .. 0 = {}
    OBVIOUS
  <2> QED BY <1>3, <2>1 DEF AttributesWalk, HasIn, LeavesIn, SaidIn
<1>7. AttributesWalk(base, Attributes!Folded(base, s), s)
  <2>1. \A a, t, e : (t \in Seq(S) /\ e \in S /\ AttributesWalk(base, a, t))
                        => AttributesWalk(base, RouteAttribute(a, e), Append(t, e))
    BY AttributeWalked
  <2>2. \A seq \in Seq(S) : AttributesWalk(base, Attributes!Folded(base, seq), seq)
    BY <1>6, <2>1, Attributes!FoldLeftInduction
  <2> QED BY <1>1, <2>2
<1>8. /\ IsSearch(r) /\ r.index = Index /\ r.found = search.found
      /\ r.leave <=> LeavesIn(s, Index)
      /\ r.leave => r.output # r.index
      /\ ~HasIn(s, "RTA_GATEWAY") => r.gateway = search.gateway /\ ~r.foundGateway
      /\ ~r.leave =>
            /\ HasIn(s, "RTA_GATEWAY") => r.foundGateway /\ SaidIn(s, "RTA_GATEWAY", r.gateway)
            /\ r.output = IF HasIn(s, "RTA_OIF") THEN r.index ELSE -1
  BY <1>3, <1>5, <1>7 DEF AttributesWalk
<1>9. CASE SaidIn(s, "RTA_OIF", Index)
  <2>1. ~LeavesIn(s, Index) /\ HasIn(s, "RTA_OIF")
    BY <1>1, <1>2, <1>9 DEF SaidIn, LeavesIn, HasIn
  <2>2. ~r.leave /\ r.output = r.index
    BY <1>8, <2>1
  <2> QED BY <1>4, <1>8, <1>9, <2>2 DEF IsFound
<1>10. CASE ~SaidIn(s, "RTA_OIF", Index)
  <2>1. LeavesIn(s, Index) <=> HasIn(s, "RTA_OIF")
    BY <1>10 DEF SaidIn, LeavesIn, HasIn
  <2>2. -1 # Index
    BY DeviceAssumption
  <2>3. r.output # r.index
    BY <1>8, <2>1, <2>2
  <2> QED BY <1>4, <1>8, <1>10, <2>3 DEF IsFound
<1> QED BY <1>9, <1>10

\* A search that has found a gateway has one of the device; one that has not has met
\* no route of the device with one.
GatewayWalk(base, r, s) ==
    IsSearch(base) /\ base.index = Index /\ ~base.found =>
       /\ IsSearch(r) /\ r.index = Index
       /\ r.found => \E i \in 1 .. Len(s) : /\ IsGatewayRow(s[i]) /\ Says(s[i], "RTA_OIF", Index)
                                            /\ Says(s[i], "RTA_GATEWAY", r.gateway)
       /\ ~r.found =>
             /\ \A i \in 1 .. Len(s) : IsGatewayRow(s[i]) => ~Says(s[i], "RTA_OIF", Index)
             /\ (\A i \in 1 .. Len(s) : ~IsGatewayRow(s[i])) => r.gateway = base.gateway
Gateways == INSTANCE Folding WITH op <- Gateway, Inv <- GatewayWalk

LEMMA GatewayWalked ==
  ASSUME NEW base, NEW S, \A m \in S : OneDevice(m), NEW a, NEW s \in Seq(S), NEW e \in S,
         GatewayWalk(base, a, s)
  PROVE  GatewayWalk(base, Gateway(a, e), Append(s, e))
<1> SUFFICES ASSUME IsSearch(base) /\ base.index = Index /\ ~base.found
             PROVE  GatewayWalk(base, Gateway(a, e), Append(s, e))
  BY DEF GatewayWalk
<1> DEFINE n == Len(s)  longer == Append(s, e)
<1>1. n \in Nat /\ Len(longer) = n + 1 /\ longer[n + 1] = e /\ \A i \in 1 .. n : longer[i] = s[i]
  OBVIOUS
<1>2. /\ IsSearch(a) /\ a.index = Index
      /\ a.found => \E i \in 1 .. n : /\ IsGatewayRow(s[i]) /\ Says(s[i], "RTA_OIF", Index)
                                      /\ Says(s[i], "RTA_GATEWAY", a.gateway)
      /\ ~a.found =>
            /\ \A i \in 1 .. n : IsGatewayRow(s[i]) => ~Says(s[i], "RTA_OIF", Index)
            /\ (\A i \in 1 .. n : ~IsGatewayRow(s[i])) => a.gateway = base.gateway
  BY DEF GatewayWalk
<1>3. n + 1 \in 1 .. n + 1 /\ (\A i \in 1 .. n : i \in 1 .. n + 1)
      /\ \A i \in 1 .. n + 1 : i = n + 1 \/ i \in 1 .. n
  OBVIOUS
<1> HIDE DEF longer, n
<1>4. CASE a.found
  <2>1. Gateway(a, e) = a
    BY <1>4 DEF Gateway
  <2>2. PICK i \in 1 .. n : /\ IsGatewayRow(s[i]) /\ Says(s[i], "RTA_OIF", Index)
                            /\ Says(s[i], "RTA_GATEWAY", a.gateway)
    BY <1>2, <1>4
  <2>3. i \in 1 .. n + 1 /\ longer[i] = s[i]
    BY <1>1, <1>3
  <2> QED BY <1>1, <1>2, <1>4, <2>1, <2>2, <2>3 DEF GatewayWalk, longer
<1>5. CASE ~a.found /\ ~IsMainUnicast(e)
  <2>1. Gateway(a, e) = a /\ ~IsGatewayRow(e)
    BY <1>5 DEF Gateway, IsGatewayRow
  <2>2. \A i \in 1 .. n + 1 : IsGatewayRow(longer[i]) => ~Says(longer[i], "RTA_OIF", Index)
    BY <1>1, <1>2, <1>3, <1>5, <2>1
  <2>3. (\A i \in 1 .. n + 1 : ~IsGatewayRow(longer[i])) => a.gateway = base.gateway
    BY <1>1, <1>2, <1>3, <1>5
  <2> QED BY <1>1, <1>2, <1>5, <2>1, <2>2, <2>3 DEF GatewayWalk, longer
<1>6. CASE ~a.found /\ IsMainUnicast(e)
  <2> DEFINE t == RouteAttributes(a, e)  r == [t EXCEPT !.found = IsFound(t)]
  <2>1. Gateway(a, e) = r
    BY <1>6 DEF Gateway
  <2>2. /\ IsSearch(t) /\ t.index = Index
        /\ ~HasAttribute(e, "RTA_GATEWAY") => t.gateway = a.gateway /\ ~IsFound(t)
        /\ HasAttribute(e, "RTA_GATEWAY") =>
              IF Says(e, "RTA_OIF", Index)
              THEN IsFound(t) /\ Says(e, "RTA_GATEWAY", t.gateway)
              ELSE ~IsFound(t)
    <3>1. OneDevice(e)
      OBVIOUS
    <3> QED BY <1>2, <1>6, <3>1, RouteIs
  <2> HIDE DEF t
  <2>3. IsFound(t) \in BOOLEAN
    BY <2>2 DEF IsFound, IsSearch
  <2>4. IsSearch(r) /\ r.index = Index /\ r.gateway = t.gateway /\ r.found = IsFound(t)
    BY <2>2, <2>3 DEF IsSearch
  <2> HIDE DEF r
  <2>5. IsGatewayRow(e) <=> HasAttribute(e, "RTA_GATEWAY")
    BY <1>6 DEF IsGatewayRow
  <2>6. CASE IsFound(t)
    <3>1. IsGatewayRow(e) /\ Says(e, "RTA_OIF", Index) /\ Says(e, "RTA_GATEWAY", r.gateway)
      BY <2>2, <2>4, <2>5, <2>6
    <3>2. r.found
      BY <2>4, <2>6
    <3>3. \E i \in 1 .. n + 1 : /\ IsGatewayRow(longer[i]) /\ Says(longer[i], "RTA_OIF", Index)
                                /\ Says(longer[i], "RTA_GATEWAY", r.gateway)
      BY <1>1, <1>3, <3>1
    <3> QED BY <1>1, <2>1, <2>4, <3>2, <3>3 DEF GatewayWalk, longer
  <2>7. CASE ~IsFound(t)
    <3>1. ~r.found
      BY <2>4, <2>7
    <3>2. IsGatewayRow(e) => ~Says(e, "RTA_OIF", Index)
      BY <2>2, <2>5, <2>7
    <3>3. \A i \in 1 .. n + 1 : IsGatewayRow(longer[i]) => ~Says(longer[i], "RTA_OIF", Index)
      BY <1>1, <1>2, <1>3, <1>6, <3>2
    <3>4. ASSUME \A i \in 1 .. n + 1 : ~IsGatewayRow(longer[i]) PROVE r.gateway = base.gateway
      <4>1. ~IsGatewayRow(e) /\ \A i \in 1 .. n : ~IsGatewayRow(s[i])
        BY <1>1, <1>3, <3>4
      <4> QED BY <1>2, <1>6, <2>2, <2>4, <2>5, <4>1
    <3> QED BY <1>1, <2>1, <2>4, <3>1, <3>3, <3>4 DEF GatewayWalk, longer
  <2> QED BY <2>6, <2>7
<1>7. a.found \in BOOLEAN
  BY <1>2 DEF IsSearch
<1> QED BY <1>4, <1>5, <1>6, <1>7

LEMMA SearchIs ==
  ASSUME NEW S, \A m \in S : OneDevice(m), NEW messages \in Seq(S), NEW gateway, NEW r,
         r = SearchGateway(Index, gateway, messages).gateway
  PROVE  \/ \E i \in 1 .. Len(messages) :
               /\ IsGatewayRow(messages[i]) /\ Says(messages[i], "RTA_OIF", Index)
               /\ Says(messages[i], "RTA_GATEWAY", r)
         \/ /\ \A i \in 1 .. Len(messages) :
                  IsGatewayRow(messages[i]) => ~Says(messages[i], "RTA_OIF", Index)
            /\ (\A i \in 1 .. Len(messages) : ~IsGatewayRow(messages[i])) => r = gateway
<1> DEFINE base == [index |-> Index, gateway |-> gateway, found |-> FALSE,
                    foundGateway |-> FALSE, output |-> -1, leave |-> FALSE]
<1>1. IsSearch(base) /\ base.index = Index /\ ~base.found /\ base.gateway = gateway
  BY DEF IsSearch
<1>2. SearchGateway(Index, gateway, messages) = Gateways!Folded(base, messages)
  BY DEF SearchGateway, Gateways!Folded, Gateways!FoldLeft, FoldLeft,
         Gateways!MapThenFoldSet, MapThenFoldSet, Gateways!Max, Max
<1> HIDE DEF base
<1>3. GatewayWalk(base, base, <<>>)
  <2>1. Len(<<>>) = 0 /\ 1 .. 0 = {}
    OBVIOUS
  <2> QED BY <1>1, <2>1 DEF GatewayWalk
<1>4. GatewayWalk(base, Gateways!Folded(base, messages), messages)
  <2>1. \A a, s, e : (s \in Seq(S) /\ e \in S /\ GatewayWalk(base, a, s))
                        => GatewayWalk(base, Gateway(a, e), Append(s, e))
    BY GatewayWalked
  <2>2. \A seq \in Seq(S) : GatewayWalk(base, Gateways!Folded(base, seq), seq)
    BY <1>3, <2>1, Gateways!FoldLeftInduction
  <2> QED BY <2>2
<1> DEFINE t == SearchGateway(Index, gateway, messages)
<1>5. GatewayWalk(base, t, messages)
  BY <1>2, <1>4
<1> HIDE DEF t
<1>6. t.found \in BOOLEAN /\ r = t.gateway
  <2>1. r = t.gateway
    BY DEF t
  <2> QED BY <1>1, <1>5, <2>1 DEF GatewayWalk, IsSearch
<1> QED BY <1>1, <1>5, <1>6 DEF GatewayWalk

-------------------------------------------------------------------------------
\* A datagram takes a query from its first row to its last.
LEMMA CarriedRows ==
  ASSUME NEW T, NEW rows \in Seq(T), NEW from \in 0 .. Len(rows), NEW to \in 0 .. Len(rows),
         from <= to, NEW U, NEW d \in Seq(U), Carries(d, rows, from, to)
  PROVE  /\ \A i \in 1 .. Len(d) : (i \in 1 .. to - from /\ from + i \in 1 .. to /\ d[i] = rows[from + i])
                                     \/ (i > to - from /\ d[i] = NLMSG_DONE)
         /\ \A j \in 1 .. to : j \in 1 .. from
                \/ (j > from /\ j - from \in 1 .. Len(d) /\ j - from \in 1 .. to - from /\ rows[j] = d[j - from])
<1>1. Len(d) \in Nat /\ Len(rows) \in Nat
  OBVIOUS
<1>2. /\ Len(d) \in {to - from, to - from + 1}
      /\ \A k \in 1 .. to - from : d[k] = rows[from + k]
      /\ Len(d) = to - from + 1 => d[Len(d)] = NLMSG_DONE
  BY DEF Carries
<1>3. ASSUME NEW i \in 1 .. Len(d)
      PROVE  (i \in 1 .. to - from /\ from + i \in 1 .. to /\ d[i] = rows[from + i])
                \/ (i > to - from /\ d[i] = NLMSG_DONE)
  <2>1. CASE i <= to - from
    <3>1. i \in 1 .. to - from /\ from + i \in 1 .. to
      BY <1>1, <2>1
    <3> QED BY <1>2, <3>1
  <2>2. CASE i > to - from
    <3>1. i = Len(d) /\ Len(d) = to - from + 1
      BY <1>1, <1>2, <2>2
    <3> QED BY <1>2, <2>2, <3>1
  <2> QED BY <1>1, <2>1, <2>2
<1>4. ASSUME NEW j \in 1 .. to, j > from
      PROVE  j - from \in 1 .. Len(d) /\ j - from \in 1 .. to - from /\ rows[j] = d[j - from]
  <2>1. j - from \in 1 .. to - from /\ from + (j - from) = j
    BY <1>1, <1>4
  <2>2. j - from \in 1 .. Len(d)
    BY <1>1, <1>2, <2>1
  <2> QED BY <1>2, <2>1, <2>2
<1>5. \A j \in 1 .. to : j \in 1 .. from \/ j > from
  BY <1>1
<1> QED BY <1>3, <1>4, <1>5

LEMMA AddressFurther ==
  ASSUME NEW T, NEW rows \in Seq(T), NEW from \in 0 .. Len(rows), NEW to \in 0 .. Len(rows),
         from <= to, NEW U, NEW d \in Seq(U), Carries(d, rows, from, to),
         NEW M, NLMSG_DONE \notin M, NEW v, NEW w, NEW earlier,
         AddressAfter(v, rows, from, M, earlier), AddressAfter(w, d, Len(d), M, v)
  PROVE  AddressAfter(w, rows, to, M, earlier)
<1>1. /\ \A i \in 1 .. Len(d) : (i \in 1 .. to - from /\ from + i \in 1 .. to /\ d[i] = rows[from + i])
                                  \/ (i > to - from /\ d[i] = NLMSG_DONE)
      /\ \A j \in 1 .. to : j \in 1 .. from
             \/ (j > from /\ j - from \in 1 .. Len(d) /\ j - from \in 1 .. to - from /\ rows[j] = d[j - from])
  BY CarriedRows
<1>2. Len(d) \in Nat /\ from \in Nat /\ to \in Nat
  OBVIOUS
<1>3. \/ \E i \in 1 .. Len(d) : IsLastIn(i, d, Len(d), M) /\ w = d[i].address
      \/ NoneIn(d, Len(d), M) /\ w = v
  BY DEF AddressAfter
<1>4. ASSUME NEW i \in 1 .. Len(d), IsLastIn(i, d, Len(d), M), w = d[i].address
      PROVE  AddressAfter(w, rows, to, M, earlier)
  <2>1. d[i] \in M /\ \A j \in 1 .. Len(d) : j > i => d[j] \notin M
    BY <1>4 DEF IsLastIn
  <2>2. from + i \in 1 .. to /\ d[i] = rows[from + i]
    BY <1>1, <2>1
  <2>3. ASSUME NEW j \in 1 .. to, j > from + i PROVE rows[j] \notin M
    <3>1. j > from /\ j - from \in 1 .. Len(d) /\ rows[j] = d[j - from]
      BY <1>1, <1>2, <2>3
    <3>2. j - from > i
      BY <1>2, <2>3
    <3> QED BY <2>1, <3>1, <3>2
  <2>4. IsLastIn(from + i, rows, to, M)
    BY <2>1, <2>2, <2>3 DEF IsLastIn
  <2> QED BY <1>4, <2>2, <2>4 DEF AddressAfter
<1>5. CASE NoneIn(d, Len(d), M) /\ w = v
  <2>1. \A j \in 1 .. to : j > from => rows[j] \notin M
    BY <1>1, <1>2, <1>5 DEF NoneIn
  <2>2. \/ \E i \in 1 .. from : IsLastIn(i, rows, from, M) /\ v = rows[i].address
        \/ NoneIn(rows, from, M) /\ v = earlier
    BY DEF AddressAfter
  <2>3. CASE NoneIn(rows, from, M) /\ v = earlier
    <3>1. NoneIn(rows, to, M)
      BY <1>1, <2>1, <2>3 DEF NoneIn
    <3> QED BY <1>5, <2>3, <3>1 DEF AddressAfter
  <2>4. ASSUME NEW i \in 1 .. from, IsLastIn(i, rows, from, M), v = rows[i].address
        PROVE  AddressAfter(w, rows, to, M, earlier)
    <3>1. i \in 1 .. to
      BY <1>2
    <3>2. \A j \in 1 .. to : j > i => rows[j] \notin M
      BY <1>1, <2>1, <2>4 DEF IsLastIn
    <3>3. IsLastIn(i, rows, to, M)
      BY <2>4, <3>1, <3>2 DEF IsLastIn
    <3> QED BY <1>5, <2>4, <3>1, <3>3 DEF AddressAfter
  <2> QED BY <2>2, <2>3, <2>4
<1> QED BY <1>3, <1>4, <1>5

LEMMA AddressSoFarFurther ==
  ASSUME NEW T, NEW rows \in Seq(T), NEW from \in 0 .. Len(rows), NEW to \in 0 .. Len(rows),
         from <= to, NEW U, NEW d \in Seq(U), Carries(d, rows, from, to),
         NEW v, NEW w, NEW family, NEW scope,
         AddressSoFar(v, rows, from, family, scope),
         AddressAfter(w, d, Len(d), AddressRows(family, scope), v)
  PROVE  AddressSoFar(w, rows, to, family, scope)
<1>1. NLMSG_DONE \notin AddressRows(family, scope)
  BY DEF AddressRows, NLMSG_DONE
<1> QED BY <1>1, AddressFurther DEF AddressSoFar

LEMMA GatewayFurther ==
  ASSUME NEW family,
         NEW rows \in Seq({m \in Entries : m.type = "RTM_NEWROUTE" /\ m.family = family}),
         NEW from \in 0 .. Len(rows), NEW to \in 0 .. Len(rows),
         from <= to, NEW U, NEW d \in Seq(U), Carries(d, rows, from, to),
         \A k \in 1 .. Len(rows) : OneDevice(rows[k]),
         NEW v, NEW w, w = SearchGateway(Index, v, d).gateway,
         GatewaySoFar(v, rows, from, family)
  PROVE  GatewaySoFar(w, rows, to, family)
<1> DEFINE G == GatewayRows(family)  D == DeviceRows(family)
           T == {m \in Entries : m.type = "RTM_NEWROUTE" /\ m.family = family}
<1>1. /\ \A i \in 1 .. Len(d) : (i \in 1 .. to - from /\ from + i \in 1 .. to /\ d[i] = rows[from + i])
                                  \/ (i > to - from /\ d[i] = NLMSG_DONE)
      /\ \A j \in 1 .. to : j \in 1 .. from
             \/ (j > from /\ j - from \in 1 .. Len(d) /\ j - from \in 1 .. to - from /\ rows[j] = d[j - from])
  <2> HIDE DEF T
  <2>1. rows \in Seq(T)
    BY DEF T
  <2> QED BY <2>1, CarriedRows
<1>2. Len(d) \in Nat /\ from \in Nat /\ to \in Nat /\ Len(rows) \in Nat
  OBVIOUS
<1>3. \A k \in 1 .. Len(rows) : rows[k] \in Entries /\ rows[k].family = family
  <2>1. \A k \in 1 .. Len(rows) : rows[k] \in T
    <3> HIDE DEF T
    <3>1. rows \in Seq(T)
      BY DEF T
    <3> QED BY <3>1
  <2> QED BY <2>1
<1>4. \A k \in 1 .. Len(rows) :
         /\ rows[k] \in G <=> IsGatewayRow(rows[k])
         /\ rows[k] \in D <=> IsGatewayRow(rows[k]) /\ Says(rows[k], "RTA_OIF", Index)
  BY <1>3 DEF GatewayRows, DeviceRows, IsGatewayRow
<1>5. ~IsGatewayRow(NLMSG_DONE) /\ OneDevice(NLMSG_DONE)
  <2>1. ~IsMainUnicast(NLMSG_DONE)
    BY DEF IsMainUnicast, NLMSG_DONE
  <2> QED BY <2>1 DEF IsGatewayRow, OneDevice
<1>6. d \in Seq({m \in U : OneDevice(m)})
  <2>1. ASSUME NEW i \in 1 .. Len(d) PROVE OneDevice(d[i])
    <3>1. CASE i > to - from /\ d[i] = NLMSG_DONE
      BY <1>5, <3>1
    <3>2. CASE from + i \in 1 .. to /\ d[i] = rows[from + i]
      <4>1. from + i \in 1 .. Len(rows)
        BY <1>2, <3>2
      <4> QED BY <3>2, <4>1
    <3> QED BY <1>1, <3>1, <3>2
  <2>2. \A i \in 1 .. Len(d) : d[i] \in U
    OBVIOUS
  <2>3. \A i \in 1 .. Len(d) : d[i] \in {m \in U : OneDevice(m)}
    BY <2>1, <2>2
  <2> QED BY <1>2, <2>3, IsASeq
<1>7. \/ \E i \in 1 .. Len(d) : /\ IsGatewayRow(d[i]) /\ Says(d[i], "RTA_OIF", Index)
                                /\ Says(d[i], "RTA_GATEWAY", w)
      \/ /\ \A i \in 1 .. Len(d) : IsGatewayRow(d[i]) => ~Says(d[i], "RTA_OIF", Index)
         /\ (\A i \in 1 .. Len(d) : ~IsGatewayRow(d[i])) => w = v
  <2> DEFINE X == {m \in U : OneDevice(m)}
  <2>1. \A m \in X : OneDevice(m)
    OBVIOUS
  <2> HIDE DEF X
  <2>2. d \in Seq(X)
    BY <1>6 DEF X
  <2> QED BY <2>1, <2>2, SearchIs
<1> HIDE DEF G, D, T
<1>8. ASSUME NEW i \in 1 .. Len(d), IsGatewayRow(d[i]), Says(d[i], "RTA_OIF", Index),
             Says(d[i], "RTA_GATEWAY", w)
      PROVE  IsGatewayIn(w, rows, to, family)
  <2>1. from + i \in 1 .. to /\ d[i] = rows[from + i]
    BY <1>1, <1>5, <1>8
  <2>2. from + i \in 1 .. Len(rows)
    BY <1>2, <2>1
  <2> QED BY <1>4, <1>8, <2>1, <2>2 DEF IsGatewayIn, D
<1>9. ASSUME \A i \in 1 .. Len(d) : IsGatewayRow(d[i]) => ~Says(d[i], "RTA_OIF", Index),
             (\A i \in 1 .. Len(d) : ~IsGatewayRow(d[i])) => w = v,
             NEW k \in 1 .. to, rows[k] \in D, IsLastIn(k, rows, to, G)
      PROVE  IsGatewayIn(w, rows, to, family)
  <2>1. k \in 1 .. Len(rows)
    BY <1>2
  <2>2. IsGatewayRow(rows[k]) /\ Says(rows[k], "RTA_OIF", Index)
    BY <1>4, <1>9, <2>1
  <2>3. k \in 1 .. from
    BY <1>1, <1>9, <2>2
  <2>4. ASSUME NEW i \in 1 .. Len(d), IsGatewayRow(d[i]) PROVE FALSE
    <3>1. from + i \in 1 .. to /\ d[i] = rows[from + i]
      BY <1>1, <1>5, <2>4
    <3>2. from + i \in 1 .. Len(rows) /\ from + i > k
      BY <1>2, <2>3, <3>1
    <3>3. rows[from + i] \in G
      BY <1>4, <2>4, <3>1, <3>2
    <3> QED BY <1>9, <3>1, <3>2, <3>3 DEF IsLastIn
  <2>5. w = v
    BY <1>9, <2>4
  <2>6. IsLastIn(k, rows, from, G)
    <3>1. \A j \in 1 .. from : j \in 1 .. to
      BY <1>2
    <3> QED BY <1>9, <2>3, <3>1 DEF IsLastIn
  <2>7. IsGatewayIn(v, rows, from, family)
    BY <1>9, <2>3, <2>6 DEF GatewaySoFar, G, D
  <2>8. \A j \in 1 .. from : j \in 1 .. to
    BY <1>2
  <2> QED BY <2>5, <2>7, <2>8 DEF IsGatewayIn
<1> QED BY <1>7, <1>8, <1>9 DEF GatewaySoFar, G, D

\* What a query does not ask for stays.
OthersStay(q, d, r) ==
    /\ q # "IPv4Address" => r.ipv4Address = d.ipv4Address
    /\ q # "IPv6Addresses" => r.ipv6Global = d.ipv6Global /\ r.ipv6Local = d.ipv6Local
    /\ q # "IPv4Gateway" => r.ipv4Gateway = d.ipv4Gateway
    /\ q # "IPv6Gateway" => r.ipv6Gateway = d.ipv6Gateway

LEMMA WholeIs ==
  ASSUME TablesAssumption, kernel.tables \in Tables, NEW q \in Queries
  PROVE  /\ Whole(q) = Rows(IF q \in AddressQueries THEN "RTM_GETADDR" ELSE "RTM_GETROUTE", Family(q))
         /\ Whole(q) \in Seq(AnswerRows(q))
<1>1. Whole(q) = Rows(IF q \in AddressQueries THEN "RTM_GETADDR" ELSE "RTM_GETROUTE", Family(q))
      /\ Request(q).family = Family(q)
  BY DEF Whole, Request, NetlinkAddressRequest, NetlinkRouteRequest
<1>2. Whole(q) \in Seq(AnswerRows(q))
  BY <1>1, RequestsAre DEF Whole
<1> QED BY <1>1, <1>2

LEMMA RoutesHaveOneDevice ==
  ASSUME TablesAssumption, kernel.tables \in Tables, NEW family \in {"AF_INET", "AF_INET6"}
  PROVE  \A k \in 1 .. Len(Rows("RTM_GETROUTE", family)) : OneDevice(Rows("RTM_GETROUTE", family)[k])
<1> DEFINE table == kernel.tables["RTM_GETROUTE"]  rows == Rows("RTM_GETROUTE", family)
           S == ToSet(table)
<1>1. \A m \in S : OneDevice(m)
  BY DeviceAssumption DEF OneDevice
<1>2. table \in Seq(S)
  <2>1. table \in Seq({m \in Entries : m.type = "RTM_NEWROUTE"})
    BY TablesAre
  <2>2. Len(table) \in Nat /\ \A k \in 1 .. Len(table) : table[k] \in S
    BY <2>1 DEF ToSet
  <2>3. table = [k \in 1 .. Len(table) |-> table[k]]
    BY <2>1
  <2> HIDE DEF S
  <2>4. \A s : s = [k \in 1 .. Len(s) |-> s[k]] /\ Len(s) \in Nat /\ (\A k \in 1 .. Len(s) : s[k] \in S)
           => s \in Seq(S)
    BY SeqDef
  <2> QED BY <2>2, <2>3, <2>4
<1> HIDE DEF S
<1>3. rows \in Seq(IsOf(family, S))
  BY <1>2, RowsAre
<1>4. \A k \in 1 .. Len(rows) : rows[k] \in IsOf(family, S)
  <2> HIDE DEF rows
  <2> QED BY <1>3
<1> QED BY <1>1, <1>4 DEF IsOf

LEMMA WalkGoesFurther ==
  ASSUME TablesAssumption, kernel.tables \in Tables, NEW q \in Queries,
         NEW d, IsDevice(d), d.index = Index, NEW messages \in Seq(Answer(q)),
         NEW from \in 0 .. Len(Whole(q)), NEW to \in 0 .. Len(Whole(q)), from <= to,
         Carries(messages, Whole(q), from, to), SoFar(q, d, Whole(q), from)
  PROVE  LET r == Walked(q, d, messages) IN
         /\ IsDevice(r) /\ r.index = d.index /\ OthersStay(q, d, r)
         /\ SoFar(q, r, Whole(q), to)
<1> DEFINE rows == Whole(q)  r == Walked(q, d, messages)
<1>1. rows \in Seq(AnswerRows(q))
  BY WholeIs
<1> HIDE DEF rows
<1>2. CASE q = "IPv4Address"
  <2>1. r = getIPv4Address(d, messages)
    BY <1>2 DEF Walked
  <2>2. /\ r = [d EXCEPT !.ipv4Address = r.ipv4Address]
        /\ AddressAfter(r.ipv4Address, messages, Len(messages), IPv4Universe, d.ipv4Address)
    BY <1>2, <2>1, IPv4Walked
  <2> HIDE DEF r
  <2>3. AddressSoFar(d.ipv4Address, rows, from, "AF_INET", "RT_SCOPE_UNIVERSE")
    BY <1>2 DEF SoFar, rows
  <2>4. AddressSoFar(r.ipv4Address, rows, to, "AF_INET", "RT_SCOPE_UNIVERSE")
    BY <1>1, <2>2, <2>3, AddressSoFarFurther DEF IPv4Universe, rows
  <2>5. IsDevice(r) /\ r.index = d.index /\ OthersStay(q, d, r)
    BY <1>2, <2>2 DEF IsDevice, OthersStay
  <2> QED BY <1>2, <2>4, <2>5 DEF SoFar, rows, r
<1>3. CASE q = "IPv6Addresses"
  <2>1. r = getIPv6Addresses(d, messages)
    BY <1>3 DEF Walked
  <2>2. /\ r = [d EXCEPT !.ipv6Global = r.ipv6Global, !.ipv6Local = r.ipv6Local]
        /\ AddressAfter(r.ipv6Global, messages, Len(messages), IPv6Universe, d.ipv6Global)
        /\ AddressAfter(r.ipv6Local, messages, Len(messages), IPv6Link, d.ipv6Local)
    <3>1. messages \in Seq(Answer("IPv6Addresses"))
      BY <1>3
    <3> HIDE DEF r
    <3>2. /\ getIPv6Addresses(d, messages) =
                 [d EXCEPT !.ipv6Global = getIPv6Addresses(d, messages).ipv6Global,
                           !.ipv6Local = getIPv6Addresses(d, messages).ipv6Local]
          /\ AddressAfter(getIPv6Addresses(d, messages).ipv6Global, messages, Len(messages),
                          IPv6Universe, d.ipv6Global)
          /\ AddressAfter(getIPv6Addresses(d, messages).ipv6Local, messages, Len(messages),
                          IPv6Link, d.ipv6Local)
      BY <3>1, IPv6Walked
    <3> QED BY <2>1, <3>2
  <2> HIDE DEF r
  <2>3. /\ AddressSoFar(d.ipv6Global, rows, from, "AF_INET6", "RT_SCOPE_UNIVERSE")
        /\ AddressSoFar(d.ipv6Local, rows, from, "AF_INET6", "RT_SCOPE_LINK")
    BY <1>3 DEF SoFar, rows
  <2>4. AddressSoFar(r.ipv6Global, rows, to, "AF_INET6", "RT_SCOPE_UNIVERSE")
    BY <1>1, <2>2, <2>3, AddressSoFarFurther DEF IPv6Universe, rows
  <2>5. AddressSoFar(r.ipv6Local, rows, to, "AF_INET6", "RT_SCOPE_LINK")
    BY <1>1, <2>2, <2>3, AddressSoFarFurther DEF IPv6Link, rows
  <2>6. IsDevice(r) /\ r.index = d.index /\ OthersStay(q, d, r)
    BY <1>3, <2>2 DEF IsDevice, OthersStay
  <2> QED BY <1>3, <2>4, <2>5, <2>6 DEF SoFar, rows, r
<1>4. ASSUME NEW family \in {"AF_INET", "AF_INET6"}, q \notin AddressQueries, Family(q) = family,
             NEW v, GatewaySoFar(v, rows, from, family)
      PROVE  GatewaySoFar(SearchGateway(Index, v, messages).gateway, rows, to, family)
  <2>1. rows \in Seq({m \in Entries : m.type = "RTM_NEWROUTE" /\ m.family = family})
    BY <1>1, <1>4 DEF AnswerRows, RowType
  <2>2. rows = Rows("RTM_GETROUTE", family)
    BY <1>4, WholeIs DEF rows
  <2>3. \A k \in 1 .. Len(rows) : OneDevice(rows[k])
    BY <2>2, RoutesHaveOneDevice
  <2>4. from \in 0 .. Len(rows) /\ to \in 0 .. Len(rows) /\ Carries(messages, rows, from, to)
    BY DEF rows
  <2> QED BY <1>4, <2>1, <2>3, <2>4, GatewayFurther
<1>5. CASE q = "IPv4Gateway"
  <2>1. r = [d EXCEPT !.ipv4Gateway = SearchGateway(Index, d.ipv4Gateway, messages).gateway]
    BY <1>5 DEF Walked, getIPv4Gateway, IsDevice
  <2> HIDE DEF r
  <2>2. /\ IsDevice(r) /\ r.index = d.index /\ OthersStay(q, d, r)
        /\ r.ipv4Gateway = SearchGateway(Index, d.ipv4Gateway, messages).gateway
    BY <1>5, <2>1 DEF IsDevice, OthersStay
  <2>3. GatewaySoFar(d.ipv4Gateway, rows, from, "AF_INET")
    BY <1>5 DEF SoFar, rows
  <2>4. q \notin AddressQueries /\ Family(q) = "AF_INET"
    BY <1>5 DEF AddressQueries, Family, IPv4Queries
  <2>5. GatewaySoFar(r.ipv4Gateway, rows, to, "AF_INET")
    BY <1>4, <2>2, <2>3, <2>4
  <2> QED BY <1>5, <2>2, <2>5 DEF SoFar, rows, r
<1>6. CASE q = "IPv6Gateway"
  <2>1. r = [d EXCEPT !.ipv6Gateway = SearchGateway(Index, d.ipv6Gateway, messages).gateway]
    BY <1>6 DEF Walked, getIPv6Gateway, IsDevice
  <2> HIDE DEF r
  <2>2. /\ IsDevice(r) /\ r.index = d.index /\ OthersStay(q, d, r)
        /\ r.ipv6Gateway = SearchGateway(Index, d.ipv6Gateway, messages).gateway
    BY <1>6, <2>1 DEF IsDevice, OthersStay
  <2>3. GatewaySoFar(d.ipv6Gateway, rows, from, "AF_INET6")
    BY <1>6 DEF SoFar, rows
  <2>4. q \notin AddressQueries /\ Family(q) = "AF_INET6"
    BY <1>6 DEF AddressQueries, Family, IPv4Queries
  <2>5. GatewaySoFar(r.ipv6Gateway, rows, to, "AF_INET6")
    BY <1>4, <2>2, <2>3, <2>4
  <2> QED BY <1>6, <2>2, <2>5 DEF SoFar, rows, r
<1> QED BY <1>2, <1>3, <1>5, <1>6 DEF Queries, AddressQueries

-------------------------------------------------------------------------------
\* The steps.
LEMMA DeviceStarts ==
  ASSUME Init, TablesAssumption
  PROVE  DeviceInv
<1>1. device = createNetworkDevice /\ query = None /\ asked = <<>>
  BY DEF Init
<1>2. DeviceTypeOK
  BY <1>1 DEF DeviceTypeOK, IsDevice, createNetworkDevice
<1>3. ToSet(<<>>) = {}
  BY DEF ToSet
<1>4. AnswersHold
  BY <1>1, <1>3 DEF AnswersHold, NothingBefore, createNetworkDevice
<1> QED BY <1>1, <1>2, <1>4 DEF DeviceInv, QueryGoesOn

\* What a query asked for holds as long as its part of the device and the tables stay.
LEMMA AnswerStays ==
  ASSUME NEW q \in Queries, NEW p, p # q, OthersStay(p, device, device'),
         kernel'.tables = kernel.tables
  PROVE  /\ HasItsAnswer(q) => HasItsAnswer(q)'
         /\ NothingBefore(q) => NothingBefore(q)'
<1>1. \A family, scope : LastAddress(family, scope)' = LastAddress(family, scope)
  BY DEF LastAddress, AddressesOf, RowsOf
<1>3. CASE q = "IPv4Address"
  BY <1>1, <1>3 DEF OthersStay, HasItsAnswer, NothingBefore
<1>4. CASE q = "IPv6Addresses"
  BY <1>1, <1>4 DEF OthersStay, HasItsAnswer, NothingBefore
<1>5. CASE q = "IPv4Gateway"
  <2>1. device'.ipv4Gateway = device.ipv4Gateway
    BY <1>5 DEF OthersStay
  <2>2. IsGatewayOfDevice(device.ipv4Gateway, "AF_INET")' <=> IsGatewayOfDevice(device.ipv4Gateway, "AF_INET")
    BY <2>1 DEF IsGatewayOfDevice, RoutesOfDevice, GatewayRoutes, RowsOf
  <2> QED BY <1>5, <2>2 DEF HasItsAnswer, NothingBefore
<1>6. CASE q = "IPv6Gateway"
  <2>1. device'.ipv6Gateway = device.ipv6Gateway
    BY <1>6 DEF OthersStay
  <2>2. IsGatewayOfDevice(device.ipv6Gateway, "AF_INET6")' <=> IsGatewayOfDevice(device.ipv6Gateway, "AF_INET6")
    BY <2>1 DEF IsGatewayOfDevice, RoutesOfDevice, GatewayRoutes, RowsOf
  <2> QED BY <1>6, <2>2 DEF HasItsAnswer, NothingBefore
<1> QED BY <1>3, <1>4, <1>5, <1>6 DEF Queries, AddressQueries

LEMMA WholeStays ==
  ASSUME NEW q \in Queries, kernel'.tables = kernel.tables
  PROVE  Whole(q)' = Whole(q)
<1>1. \A type, family : Rows(type, family)' = Rows(type, family)
  BY DEF Rows, FoldLeft, MapThenFoldSet
<1> QED BY <1>1 DEF Whole

LEMMA SoFarStays ==
  ASSUME NEW q \in Queries, NEW d, NEW s, NEW n, kernel'.tables = kernel.tables
  PROVE  SoFar(q, d, s, n)' <=> SoFar(q, d, s, n)
<1>1. \A family, scope : LastAddress(family, scope)' = LastAddress(family, scope)
  BY DEF LastAddress, AddressesOf, RowsOf
<1>2. \A address, family, scope :
         AddressSoFar(address, s, n, family, scope)' <=> AddressSoFar(address, s, n, family, scope)
  BY <1>1 DEF AddressSoFar
<1>3. CASE q \in AddressQueries
  <2>1. q = "IPv4Address" \/ q = "IPv6Addresses"
    BY <1>3 DEF AddressQueries
  <2> QED BY <1>2, <2>1 DEF SoFar
<1>4. CASE q = "IPv4Gateway" \/ q = "IPv6Gateway"
  BY <1>4 DEF SoFar
<1> QED BY <1>3, <1>4 DEF Queries

\* The query goes on as long as the rows are cut into what it has come to and the rest.
LEMMA GoesOn ==
  ASSUME NEW q \in Queries, query' = q, kernel'.tables = kernel.tables,
         NEW d, d = device', NEW s, s = Whole(q), NEW cuts, AreCut(s, cuts)',
         SoFar(q, d, s, cuts[0])
  PROVE  QueryGoesOn'
<1>1. SoFar(q, d, s, cuts[0])'
  BY SoFarStays
<1>2. Whole(q)' = s
  BY WholeStays
<1>3. cuts \in [0 .. Len(inbox') -> 0 .. Len(s)]
  BY DEF AreCut
<1> QED BY <1>1, <1>2, <1>3 DEF QueryGoesOn

\* No datagram is queued and none is to come.
LEMMA NoneIsQueued ==
  ASSUME NEW q \in Queries, kernel'.tables = kernel.tables, NEW s, s = Whole(q),
         NEW cuts \in [0 .. 0 -> 0 .. Len(s)], inbox' = <<>>, kernel'.left = None
  PROVE  AreCut(s, cuts)'
<1>1. Len(inbox') = 0 /\ 1 .. 0 = {}
  OBVIOUS
<1> QED BY <1>1 DEF AreCut

\* Every step leaves the tables and the length of the ioBuffer.
LEMMA TablesStay ==
  ASSUME TablesAssumption, SocketInv, [Next]_vars
  PROVE  kernel'.tables = kernel.tables /\ socket'.ioBuffer = socket.ioBuffer
<1>1. /\ kernel = [tables |-> kernel.tables, left |-> kernel.left, coalesces |-> kernel.coalesces]
      /\ socket \in [fd : Int, family : {"NETLINK_ROUTE"}, ioBuffer : Nat \ {0}]
      /\ kernel.tables \in Tables
  BY DEF SocketInv, SocketTypeOK
<1>2. \A left : [kernel EXCEPT !.left = left].tables = kernel.tables
  BY <1>1
<1>3. \A fd : [socket EXCEPT !.fd = fd].ioBuffer = socket.ioBuffer
  BY <1>1
<1>4. CASE getNetworkDeviceIndex \/ getEthernetMTU \/ getEthernetStatus
  BY <1>2, <1>4 DEF getNetworkDeviceIndex, getEthernetMTU, getEthernetStatus, netlinkVars, Exit
<1>5. CASE Open
  BY <1>2, <1>3, <1>5 DEF Open, open, Exit
<1>6. CASE Bind
  BY <1>2, <1>6 DEF Bind, bind, setExtendedACKReporting, Exit
<1>7. CASE Close
  BY <1>2, <1>3, <1>7 DEF Close, close
<1>8. ASSUME NEW q \in Queries, Ask(q) PROVE UNCHANGED socket /\ kernel'.tables = kernel.tables
  <2>1. sendMessage(Request(q)) /\ UNCHANGED socket
    BY <1>8 DEF Ask, sendMessage
  <2>2. \/ kernel' = kernel
        \/ \E left : kernel' = [kernel EXCEPT !.left = left]
    BY <2>1 DEF sendMessage, Answered, Exit
  <2> QED BY <1>2, <2>1, <2>2
<1>9. CASE Receive
  BY <1>9 DEF Receive, receiveMessage
<1>10. CASE ReceiveFails
  BY <1>2, <1>10 DEF ReceiveFails, Exit
<1>11. CASE Kernel
  <2>1. UNCHANGED socket /\ \E left : kernel' = [kernel EXCEPT !.left = left]
    BY <1>11 DEF Kernel, KernelDumps
  <2> QED BY <1>2, <2>1
<1>12. CASE UNCHANGED vars
  BY <1>12 DEF vars
<1> QED BY <1>4, <1>5, <1>6, <1>7, <1>8, <1>9, <1>10, <1>11, <1>12 DEF Next

\* A step at which no query runs, or at which the process ends.
LEMMA IdleHolds ==
  ASSUME TablesAssumption, SocketInv, DeviceInv, kernel'.tables = kernel.tables,
         socket'.ioBuffer = socket.ioBuffer, UNCHANGED <<query, asked>>,
         device' = device \/ (query = None /\ device' = [device EXCEPT !.index = Index]),
         query = None \/ (inbox' = <<>> /\ kernel'.left = None)
  PROVE  DeviceInv'
<1>1. /\ IsDevice(device) /\ device.index \in {0, Index} /\ asked \in Seq(Queries)
      /\ query # None => device.index = Index
  BY DEF DeviceInv, DeviceTypeOK
<1>2. /\ IsDevice(device') /\ device'.index \in {0, Index}
      /\ query # None => device'.index = Index
      /\ OthersStay(None, device, device')
  <2>1. CASE device' = device
    BY <1>1, <2>1 DEF OthersStay
  <2>2. CASE query = None /\ device' = [device EXCEPT !.index = Index]
    BY <1>1, <2>2 DEF OthersStay, IsDevice
  <2> QED BY <2>1, <2>2
<1>3. DeviceTypeOK'
  BY <1>1, <1>2 DEF DeviceTypeOK, IsDevice
<1>4. SUFFICES ASSUME socket.ioBuffer >= Good PROVE AnswersHold' /\ QueryGoesOn'
  BY <1>3 DEF DeviceInv
<1>5. AnswersHold /\ QueryGoesOn
  BY <1>4 DEF DeviceInv
<1>6. AnswersHold'
  <2> SUFFICES ASSUME NEW q \in Queries, q # query
               PROVE  HasItsAnswer(q)' \/ (q \notin ToSet(asked) /\ NothingBefore(q)')
    BY DEF AnswersHold
  <2>1. q # None
    BY DEF TablesAssumption
  <2>2. HasItsAnswer(q) \/ (q \notin ToSet(asked) /\ NothingBefore(q))
    BY <1>5 DEF AnswersHold
  <2> QED BY <1>2, <2>1, <2>2, AnswerStays
<1>7. QueryGoesOn'
  <2>1. CASE query = None
    BY <2>1 DEF QueryGoesOn
  <2>2. CASE query # None
    <3>1. device' = device /\ inbox' = <<>> /\ kernel'.left = None
      BY <2>2
    <3>2. PICK cuts \in [0 .. Len(inbox) -> 0 .. Len(Whole(query))] :
              SoFar(query, device, Whole(query), cuts[0]) /\ AreCut(Whole(query), cuts)
      BY <1>5, <2>2 DEF QueryGoesOn
    <3> DEFINE only == [k \in 0 .. 0 |-> cuts[0]]
    <3>3. only \in [0 .. 0 -> 0 .. Len(Whole(query))] /\ only[0] = cuts[0]
      BY <3>2 DEF AreCut
    <3> HIDE DEF only
    <3>4. PICK s : s = Whole(query)
      OBVIOUS
    <3>5. query \in Queries
      BY <2>2 DEF SocketInv, SocketTypeOK
    <3>6. AreCut(s, only)'
      BY <3>1, <3>3, <3>4, <3>5, NoneIsQueued
    <3>7. PICK d : d = device'
      OBVIOUS
    <3>8. SoFar(query, d, s, only[0])
      BY <3>1, <3>2, <3>3, <3>4, <3>7
    <3> QED BY <3>4, <3>5, <3>6, <3>7, <3>8, GoesOn
  <2> QED BY <2>1, <2>2
<1> QED BY <1>6, <1>7

\* A query starts before the first row.
LEMMA AskHolds ==
  ASSUME TablesAssumption, SocketInv, DeviceInv, NEW q \in Queries, Ask(q),
         kernel'.tables = kernel.tables, socket'.ioBuffer = socket.ioBuffer
  PROVE  DeviceInv'
<1>1. /\ query = None /\ query' = q /\ UNCHANGED <<device, asked>> /\ device.index # 0
      /\ inbox = <<>> /\ kernel.left = None /\ sendMessage(Request(q))
      /\ kernel.tables \in Tables
  BY DEF Ask, sendMessage, IsIdle, SocketInv, IdleIsQuiet, SocketTypeOK
<1>2. DeviceTypeOK'
  BY <1>1 DEF DeviceInv, DeviceTypeOK, IsDevice
<1>3. SUFFICES ASSUME socket.ioBuffer >= Good PROVE AnswersHold' /\ QueryGoesOn'
  BY <1>2 DEF DeviceInv
<1>4. AnswersHold
  BY <1>3 DEF DeviceInv
<1>5. OthersStay(None, device, device')
  BY <1>1 DEF OthersStay
<1>6. AnswersHold'
  <2> SUFFICES ASSUME NEW p \in Queries, p # q
               PROVE  HasItsAnswer(p)' \/ (p \notin ToSet(asked) /\ NothingBefore(p)')
    BY <1>1 DEF AnswersHold
  <2>1. p # None
    BY DEF TablesAssumption
  <2>2. HasItsAnswer(p) \/ (p \notin ToSet(asked) /\ NothingBefore(p))
    BY <1>1, <1>4, <2>1 DEF AnswersHold
  <2> QED BY <1>5, <2>1, <2>2, AnswerStays
<1>7. QueryGoesOn'
  <2>1. q # None
    BY DEF TablesAssumption
  <2>2. HasItsAnswer(q) \/ NothingBefore(q)
    BY <1>1, <1>4, <2>1 DEF AnswersHold
  <2>3. PICK s : s = Whole(q)
    OBVIOUS
  <2>4. PICK d : d = device'
    OBVIOUS
  <2>5. SoFar(q, d, s, 0)
    BY <1>1, <2>2, <2>4, NoRowYet
  <2>6. Whole(q) \in Seq(AnswerRows(q))
    BY <1>1, WholeIs
  <2>7. s \in Seq(AnswerRows(q)) /\ Len(s) \in Nat
    BY <2>3, <2>6
  <2> DEFINE cuts == [k \in 0 .. 0 |-> 0]
  <2>8. cuts \in [0 .. 0 -> 0 .. Len(s)] /\ cuts[0] = 0
    BY <2>7
  <2> HIDE DEF cuts
  <2>9. AreCut(s, cuts)'
    <3>1. CASE Exit
      <4>1. inbox' = <<>> /\ kernel'.left = None
        BY <1>1, <3>1 DEF Exit, SocketInv, SocketTypeOK
      <4> QED BY <2>3, <2>8, <4>1, NoneIsQueued
    <3>2. CASE Answered(Request(q))
      <4>1. "NLF_ROOT" \in Request(q).flags
        BY <1>1, RequestsAre
      <4>2. Rows(Request(q).type, Request(q).family) = s
        <5>1. Request(q).family = Family(q)
          BY DEF Request, NetlinkAddressRequest, NetlinkRouteRequest
        <5> QED BY <2>3, <5>1 DEF Whole
      <4>3. kernel' = [kernel EXCEPT !.left = s] /\ inbox' = <<>>
        BY <1>1, <3>2, <4>1, <4>2 DEF Answered
      <4>4. kernel'.left = s
        BY <4>3 DEF SocketInv, SocketTypeOK
      <4>5. Len(inbox') = 0 /\ 1 .. 0 = {}
        BY <4>3
      <4>6. Len(s) = Len(s) - cuts[0] /\ \A k \in 1 .. Len(s) : s[k] = s[cuts[0] + k]
        BY <2>7, <2>8
      <4> QED BY <2>8, <4>4, <4>5, <4>6 DEF AreCut
    <3> QED BY <1>1, <3>1, <3>2 DEF sendMessage
  <2>10. SoFar(q, d, s, cuts[0])
    BY <2>5, <2>8
  <2> QED BY <1>1, <2>3, <2>4, <2>9, <2>10, GoesOn
<1> QED BY <1>6, <1>7

\* The kernel cuts a datagram off what is left.
TakesOff(n, d) ==
    /\ n <= Len(kernel.left) /\ Len(d) \in {n, n + 1}
    /\ \A k \in 1 .. n : d[k] = kernel.left[k]
    /\ Len(d) = n + 1 => n = Len(kernel.left) /\ d[Len(d)] = NLMSG_DONE
    /\ inbox' = Append(inbox, d)
    /\ kernel'.left = None \/ kernel'.left = SubSeq(kernel.left, n + 1, Len(kernel.left))

LEMMA QueuedHolds ==
  ASSUME query \in Queries, kernel.left # None, kernel.left \in Seq(AnswerRows(query)),
         inbox \in Seq(Seq(Answer(query))),
         NEW s \in Seq(AnswerRows(query)), NEW cuts, AreCut(s, cuts),
         NEW n \in 0 .. Good, NEW d \in Seq(Answer(query)), TakesOff(n, d)
  PROVE  \E more : AreCut(s, more)' /\ more[0] = cuts[0]
<1> DEFINE m == Len(inbox)  left == kernel.left
           more == [k \in 0 .. m + 1 |-> IF k = m + 1 THEN cuts[m] + n ELSE cuts[k]]
<1>1. m \in Nat /\ Len(s) \in Nat /\ Len(left) \in Nat /\ Good \in Nat /\ n \in Nat
  BY NetlinkAssumption
<1>2. /\ n <= Len(left) /\ Len(d) \in {n, n + 1}
      /\ \A k \in 1 .. n : d[k] = left[k]
      /\ Len(d) = n + 1 => n = Len(left) /\ d[Len(d)] = NLMSG_DONE
      /\ inbox' = Append(inbox, d)
      /\ kernel'.left = None \/ kernel'.left = SubSeq(left, n + 1, Len(left))
  BY DEF TakesOff
<1>3. Len(inbox') = m + 1 /\ inbox'[m + 1] = d /\ \A k \in 1 .. m : inbox'[k] = inbox[k]
  BY <1>2, AppendProperties
<1>4. /\ cuts \in [0 .. m -> 0 .. Len(s)]
      /\ \A k \in 1 .. m :
            /\ cuts[k - 1] <= cuts[k] /\ cuts[k] - cuts[k - 1] <= Good
            /\ Carries(inbox[k], s, cuts[k - 1], cuts[k])
      /\ Len(left) = Len(s) - cuts[m]
      /\ \A k \in 1 .. Len(left) : left[k] = s[cuts[m] + k]
  BY DEF AreCut
<1> HIDE DEF m, left
<1>5. cuts[m] \in 0 .. Len(s)
  BY <1>1, <1>4
<1>6. /\ more \in [0 .. m + 1 -> 0 .. Len(s)] /\ more[m + 1] = cuts[m] + n
      /\ \A k \in 0 .. m : more[k] = cuts[k]
  BY <1>1, <1>4, <1>5, <1>2
<1> HIDE DEF more
<1>7. ASSUME NEW k \in 1 .. m + 1
      PROVE  /\ more[k - 1] <= more[k] /\ more[k] - more[k - 1] <= Good
             /\ Carries(inbox'[k], s, more[k - 1], more[k])
  <2>1. CASE k \in 1 .. m
    <3>1. k \in 0 .. m /\ k - 1 \in 0 .. m
      BY <1>1, <2>1
    <3>2. inbox'[k] = inbox[k] /\ more[k] = cuts[k] /\ more[k - 1] = cuts[k - 1]
      BY <1>3, <1>6, <2>1, <3>1
    <3> QED BY <1>4, <2>1, <3>2
  <2>2. CASE k = m + 1
    <3>1. k - 1 = m /\ m \in 0 .. m
      BY <1>1, <2>2
    <3>2. more[k - 1] = cuts[m] /\ more[k] = cuts[m] + n
      BY <1>6, <2>2, <3>1
    <3>3. (cuts[m] + n) - cuts[m] = n
      BY <1>1, <1>5
    <3>4. Carries(d, s, cuts[m], cuts[m] + n)
      BY <1>1, <1>4, <1>5, <1>2, <3>3, SMTT(30) DEF Carries
    <3> QED BY <1>1, <1>3, <1>5, <2>2, <3>2, <3>3, <3>4
  <2>3. k \in 1 .. m \/ k = m + 1
    BY <1>1
  <2> QED BY <2>1, <2>2, <2>3
<1>8. kernel'.left # None =>
         /\ Len(kernel'.left) = Len(s) - more[m + 1]
         /\ \A k \in 1 .. Len(kernel'.left) : kernel'.left[k] = s[more[m + 1] + k]
  <2> SUFFICES ASSUME kernel'.left = SubSeq(left, n + 1, Len(left))
               PROVE  /\ Len(kernel'.left) = Len(s) - more[m + 1]
                      /\ \A k \in 1 .. Len(kernel'.left) : kernel'.left[k] = s[more[m + 1] + k]
    BY <1>2
  <2> DEFINE rest == SubSeq(left, n + 1, Len(left))
  <2>1. Len(rest) = Len(left) - n /\ \A k \in 1 .. Len(rest) : rest[k] = left[n + k]
    BY <1>1, <1>2, SMTT(30) DEF left
  <2> HIDE DEF rest
  <2>2. \A k \in 1 .. Len(rest) : left[n + k] = s[cuts[m] + (n + k)]
    <3>1. \A k \in 1 .. Len(rest) : n + k \in 1 .. Len(left)
      BY <1>1, <2>1
    <3> QED BY <1>4, <3>1
  <2>3. \A k \in 1 .. Len(rest) : cuts[m] + (n + k) = (cuts[m] + n) + k
    BY <1>1, <1>5, <2>1
  <2>4. kernel'.left = rest
    BY DEF rest
  <2>5. Len(rest) = Len(s) - (cuts[m] + n)
    BY <1>1, <1>4, <1>5, <2>1
  <2>6. \A k \in 1 .. Len(rest) : rest[k] = s[(cuts[m] + n) + k]
    BY <2>1, <2>2, <2>3
  <2> QED BY <1>6, <2>4, <2>5, <2>6
<1>9. more[0] = cuts[0]
  BY <1>1, <1>6
<1>10. more \in [0 .. Len(inbox') -> 0 .. Len(s)]
  BY <1>3, <1>6
<1>11. \A k \in 1 .. Len(inbox') :
          /\ more[k - 1] <= more[k] /\ more[k] - more[k - 1] <= Good
          /\ Carries(inbox'[k], s, more[k - 1], more[k])
  BY <1>3, <1>7
<1>12. kernel'.left # None =>
          /\ Len(kernel'.left) = Len(s) - more[Len(inbox')]
          /\ \A k \in 1 .. Len(kernel'.left) : kernel'.left[k] = s[more[Len(inbox')] + k]
  BY <1>3, <1>8
<1>13. PICK x : x = more
  OBVIOUS
<1>14. AreCut(s, x)'
  BY <1>10, <1>11, <1>12, <1>13 DEF AreCut
<1>15. x[0] = cuts[0]
  BY <1>9, <1>13
<1> QED BY <1>14, <1>15

LEMMA AnswersStay ==
  ASSUME TablesAssumption, kernel'.tables = kernel.tables, AnswersHold,
         UNCHANGED <<query, asked>>, OthersStay(query, device, device')
  PROVE  AnswersHold'
<1> SUFFICES ASSUME NEW q \in Queries, q # query
             PROVE  HasItsAnswer(q)' \/ (q \notin ToSet(asked) /\ NothingBefore(q)')
  BY DEF AnswersHold
<1>1. HasItsAnswer(q) \/ (q \notin ToSet(asked) /\ NothingBefore(q))
  BY DEF AnswersHold
<1> QED BY <1>1, AnswerStays

\* The next datagram of a dump has rows of what is left, and NLMSG_DONE behind the last.
LEMMA KernelSends ==
  ASSUME SocketInv, KernelDumps
  PROVE  \E n \in 0 .. Good, d \in Seq(Answer(query)) : TakesOff(n, d)
<1> DEFINE left == kernel.left
<1>1. /\ left \in Seq(AnswerRows(query)) /\ Good \in Nat
      /\ \A x : [kernel EXCEPT !.left = x].left = x
  BY NetlinkAssumption DEF KernelDumps, SocketInv, SocketTypeOK, DumpIsOfTheQuery
<1>2. AnswerRows(query) \subseteq Answer(query) /\ NLMSG_DONE \in Answer(query)
  BY DEF Answer
<1>3. \/ /\ left = <<>> /\ inbox' = Append(inbox, <<NLMSG_DONE>>)
         /\ kernel' = [kernel EXCEPT !.left = None]
      \/ \E n \in 1 .. Good :
            /\ n <= Len(left)
            /\ \/ /\ n = Len(left) /\ inbox' = Append(inbox, Append(left, NLMSG_DONE))
                  /\ kernel' = [kernel EXCEPT !.left = None]
               \/ /\ inbox' = Append(inbox, SubSeq(left, 1, n))
                  /\ kernel' = [kernel EXCEPT !.left = SubSeq(left, n + 1, Len(left))]
  BY DEF KernelDumps
<1> HIDE DEF left, NLMSG_DONE
<1>4. CASE left = <<>> /\ inbox' = Append(inbox, <<NLMSG_DONE>>) /\ kernel' = [kernel EXCEPT !.left = None]
  <2>1. <<NLMSG_DONE>> \in Seq(Answer(query)) /\ Len(<<NLMSG_DONE>>) = 1 /\ <<NLMSG_DONE>>[1] = NLMSG_DONE
    BY <1>2
  <2>2. 0 \in 0 .. Good /\ 1 .. 0 = {} /\ Len(left) = 0
    BY <1>1, <1>4
  <2>3. kernel'.left = None
    BY <1>1, <1>4
  <2>4. TakesOff(0, <<NLMSG_DONE>>)
    BY <1>4, <2>1, <2>2, <2>3 DEF TakesOff, left
  <2> QED BY <2>1, <2>2, <2>4
<1>5. ASSUME NEW n \in 1 .. Good, n = Len(left), inbox' = Append(inbox, Append(left, NLMSG_DONE)),
             kernel' = [kernel EXCEPT !.left = None]
      PROVE  \E k \in 0 .. Good, d \in Seq(Answer(query)) : TakesOff(k, d)
  <2> DEFINE d == Append(left, NLMSG_DONE)
  <2>1. left \in Seq(Answer(query))
    BY <1>1, <1>2
  <2>2. /\ d \in Seq(Answer(query)) /\ Len(d) = n + 1 /\ d[n + 1] = NLMSG_DONE
        /\ \A k \in 1 .. n : d[k] = left[k]
    BY <1>2, <1>5, <2>1, AppendProperties
  <2>3. inbox' = Append(inbox, d) /\ kernel'.left = None /\ n \in 0 .. Good
    BY <1>1, <1>5
  <2> HIDE DEF d
  <2>4. TakesOff(n, d)
    BY <1>5, <2>2, <2>3 DEF TakesOff, left
  <2> QED BY <2>2, <2>3, <2>4
<1>6. ASSUME NEW n \in 1 .. Good, n <= Len(left), inbox' = Append(inbox, SubSeq(left, 1, n)),
             kernel' = [kernel EXCEPT !.left = SubSeq(left, n + 1, Len(left))]
      PROVE  \E k \in 0 .. Good, d \in Seq(Answer(query)) : TakesOff(k, d)
  <2> DEFINE d == SubSeq(left, 1, n)
  <2>1. n \in Nat /\ 1 <= n
    BY <1>1
  <2>2. d \in Seq(AnswerRows(query)) /\ Len(d) = n /\ \A k \in 1 .. n : d[k] = left[k]
    BY <1>1, <1>6, <2>1
  <2>3. inbox' = Append(inbox, d) /\ n \in 0 .. Good /\ n # n + 1
        /\ kernel'.left = SubSeq(left, n + 1, Len(left))
    BY <1>1, <1>6, SMTT(30)
  <2> HIDE DEF d
  <2>4. d \in Seq(Answer(query))
    BY <1>2, <2>2
  <2>5. TakesOff(n, d)
    BY <1>6, <2>2, <2>3 DEF TakesOff, left
  <2> QED BY <2>3, <2>4, <2>5
<1> QED BY <1>3, <1>4, <1>5, <1>6

LEMMA KernelHolds ==
  ASSUME TablesAssumption, SocketInv, DeviceInv, Kernel,
         kernel'.tables = kernel.tables, socket'.ioBuffer = socket.ioBuffer
  PROVE  DeviceInv'
<1>1. /\ KernelDumps /\ UNCHANGED <<device, query, asked>> /\ kernel.left # None
      /\ query # None /\ query \in Queries /\ kernel.left \in Seq(AnswerRows(query))
      /\ inbox \in Seq(Seq(Answer(query))) /\ kernel.tables \in Tables
  BY DEF Kernel, KernelDumps, SocketInv, SocketTypeOK, DumpIsOfTheQuery, InboxIsOfTheQuery
<1>2. DeviceTypeOK'
  BY <1>1 DEF DeviceInv, DeviceTypeOK, IsDevice
<1>3. SUFFICES ASSUME socket.ioBuffer >= Good PROVE AnswersHold' /\ QueryGoesOn'
  BY <1>2 DEF DeviceInv
<1>4. AnswersHold'
  <2>1. AnswersHold
    BY <1>3 DEF DeviceInv
  <2>2. OthersStay(query, device, device')
    BY <1>1 DEF OthersStay
  <2> QED BY <1>1, <2>1, <2>2, AnswersStay
<1>5. PICK s : s = Whole(query)
  OBVIOUS
<1>6. s \in Seq(AnswerRows(query))
  BY <1>1, <1>5, WholeIs
<1>7. PICK cuts \in [0 .. Len(inbox) -> 0 .. Len(Whole(query))] :
          AreCut(Whole(query), cuts) /\ SoFar(query, device, Whole(query), cuts[0])
  BY <1>1, <1>3 DEF DeviceInv, QueryGoesOn
<1>8. AreCut(s, cuts)
  BY <1>5, <1>7
<1>9. PICK n \in 0 .. Good, d \in Seq(Answer(query)) : TakesOff(n, d)
  BY <1>1, KernelSends
<1>10. PICK more : AreCut(s, more)' /\ more[0] = cuts[0]
  BY <1>1, <1>6, <1>8, <1>9, QueuedHolds
<1>11. PICK r : r = device'
  OBVIOUS
<1>12. SoFar(query, r, s, more[0])
  BY <1>1, <1>5, <1>7, <1>10, <1>11
<1>13. QueryGoesOn'
  BY <1>1, <1>5, <1>10, <1>11, <1>12, GoesOn
<1> QED BY <1>4, <1>13

\* The ioBuffer cuts off no row.
LEMMA ReceivedCarries ==
  ASSUME NEW S, NEW T, NEW s \in Seq(S), NEW d \in Seq(T), NEW from \in 0 .. Len(s),
         NEW to \in 0 .. Len(s), from <= to, Carries(d, s, from, to),
         NEW room \in Nat, to - from <= room,
         NEW r, r = SubSeq(d, 1, IF Len(d) <= room THEN Len(d) ELSE room)
  PROVE  Carries(r, s, from, to)
<1>1. /\ Len(d) \in {to - from, to - from + 1}
      /\ \A k \in 1 .. to - from : d[k] = s[from + k]
      /\ Len(d) = to - from + 1 => to = Len(s) /\ d[Len(d)] = NLMSG_DONE
  BY DEF Carries
<1>2. Len(d) \in Nat /\ Len(s) \in Nat /\ to - from \in Nat
  OBVIOUS
<1>3. CASE Len(d) <= room
  <2>1. r = d
    BY <1>2, <1>3
  <2> QED BY <2>1
<1>4. CASE ~(Len(d) <= room)
  <2>1. room = to - from /\ room <= Len(d) /\ r = SubSeq(d, 1, room)
    BY <1>1, <1>2, <1>4
  <2>2. Len(r) = room /\ \A k \in 1 .. room : r[k] = d[k]
    BY <1>2, <2>1
  <2>3. Len(r) = to - from /\ Len(r) # to - from + 1
    BY <1>2, <2>1, <2>2
  <2>4. \A k \in 1 .. to - from : r[k] = s[from + k]
    BY <1>1, <2>1, <2>2
  <2> QED BY <2>3, <2>4 DEF Carries
<1> QED BY <1>3, <1>4

\* The datagrams behind the first.
LEMMA RestIsCut ==
  ASSUME NEW S, NEW s \in Seq(S), NEW cuts, AreCut(s, cuts), NEW m, m = Len(inbox), m \in Nat, m >= 1,
         Len(inbox') = m - 1, \A i \in 1 .. m - 1 : inbox'[i] = inbox[i + 1], UNCHANGED kernel
  PROVE  \E more : AreCut(s, more)' /\ more[0] = cuts[1]
<1> DEFINE more == [k \in 0 .. m - 1 |-> cuts[k + 1]]
<1>1. /\ cuts \in [0 .. m -> 0 .. Len(s)]
      /\ \A k \in 1 .. m :
            /\ cuts[k - 1] <= cuts[k] /\ cuts[k] - cuts[k - 1] <= Good
            /\ Carries(inbox[k], s, cuts[k - 1], cuts[k])
      /\ kernel.left # None =>
            /\ Len(kernel.left) = Len(s) - cuts[m]
            /\ \A k \in 1 .. Len(kernel.left) : kernel.left[k] = s[cuts[m] + k]
  BY DEF AreCut
<1>2. \A k \in 0 .. m - 1 : k + 1 \in 0 .. m /\ more[k] = cuts[k + 1]
  OBVIOUS
<1>3. more \in [0 .. m - 1 -> 0 .. Len(s)]
  <2>1. \A k \in 0 .. m - 1 : cuts[k + 1] \in 0 .. Len(s)
    BY <1>1, <1>2
  <2> QED BY <2>1
<1> HIDE DEF more
<1>4. ASSUME NEW k \in 1 .. m - 1
      PROVE  /\ more[k - 1] <= more[k] /\ more[k] - more[k - 1] <= Good
             /\ Carries(inbox'[k], s, more[k - 1], more[k])
  <2>1. k \in 0 .. m - 1 /\ k - 1 \in 0 .. m - 1 /\ k + 1 \in 1 .. m
        /\ (k - 1) + 1 = k /\ (k + 1) - 1 = k
    OBVIOUS
  <2>2. more[k] = cuts[k + 1] /\ more[k - 1] = cuts[k] /\ inbox'[k] = inbox[k + 1]
    BY <1>2, <2>1
  <2>3. /\ cuts[k] <= cuts[k + 1] /\ cuts[k + 1] - cuts[k] <= Good
        /\ Carries(inbox[k + 1], s, cuts[k], cuts[k + 1])
    BY <1>1, <2>1
  <2> QED BY <2>2, <2>3
<1>5. more[m - 1] = cuts[m] /\ more[0] = cuts[1]
  <2>1. m - 1 \in 0 .. m - 1 /\ 0 \in 0 .. m - 1 /\ (m - 1) + 1 = m /\ 0 + 1 = 1
    OBVIOUS
  <2> QED BY <1>2, <2>1
<1>6. more \in [0 .. Len(inbox') -> 0 .. Len(s)]
  BY <1>3
<1>7. \A k \in 1 .. Len(inbox') :
         /\ more[k - 1] <= more[k] /\ more[k] - more[k - 1] <= Good
         /\ Carries(inbox'[k], s, more[k - 1], more[k])
  BY <1>4
<1>8. kernel'.left # None =>
         /\ Len(kernel'.left) = Len(s) - more[Len(inbox')]
         /\ \A k \in 1 .. Len(kernel'.left) : kernel'.left[k] = s[more[Len(inbox')] + k]
  BY <1>1, <1>5
<1>9. PICK x : x = more
  OBVIOUS
<1>10. AreCut(s, x)'
  BY <1>6, <1>7, <1>8, <1>9 DEF AreCut
<1> QED BY <1>5, <1>9, <1>10

\* A walk leaves a device, whatever the ioBuffer cuts off.
LEMMA WalkLeavesADevice ==
  ASSUME NEW q \in Queries, NEW d, IsDevice(d), d.index = Index, NEW messages \in Seq(Answer(q)),
         NEW r, r = Walked(q, d, messages)
  PROVE  IsDevice(r) /\ r.index = Index
<1>1. CASE q = "IPv4Address"
  <2>1. r = [d EXCEPT !.ipv4Address = r.ipv4Address]
    <3>1. r = getIPv4Address(d, messages) /\ messages \in Seq(Answer("IPv4Address"))
      BY <1>1 DEF Walked
    <3> QED BY <3>1, IPv4Walked
  <2> QED BY <2>1 DEF IsDevice
<1>2. CASE q = "IPv6Addresses"
  <2>1. r = [d EXCEPT !.ipv6Global = r.ipv6Global, !.ipv6Local = r.ipv6Local]
    <3>1. r = getIPv6Addresses(d, messages) /\ messages \in Seq(Answer("IPv6Addresses"))
      BY <1>2 DEF Walked
    <3>2. getIPv6Addresses(d, messages) =
             [d EXCEPT !.ipv6Global = getIPv6Addresses(d, messages).ipv6Global,
                       !.ipv6Local = getIPv6Addresses(d, messages).ipv6Local]
      BY <3>1, IPv6Walked
    <3> QED BY <3>1, <3>2
  <2> QED BY <2>1 DEF IsDevice
<1>3. CASE q = "IPv4Gateway"
  <2>1. PICK g : r = [d EXCEPT !.ipv4Gateway = g]
    BY <1>3 DEF Walked, getIPv4Gateway
  <2> QED BY <2>1 DEF IsDevice
<1>4. CASE q = "IPv6Gateway"
  <2>1. PICK g : r = [d EXCEPT !.ipv6Gateway = g]
    BY <1>4 DEF Walked, getIPv6Gateway
  <2> QED BY <2>1 DEF IsDevice
<1> QED BY <1>1, <1>2, <1>3, <1>4 DEF Queries, AddressQueries

\* A datagram is received: the query goes on with its rows, or it ends with all of them.
LEMMA ReceivedRows ==
  ASSUME SocketInv, receiveMessage, query # None, query \in Queries, socket.ioBuffer >= Good,
         NEW s \in Seq(AnswerRows(query)), NEW cuts, AreCut(s, cuts)
  PROVE  /\ cuts[0] \in 0 .. Len(s) /\ cuts[1] \in 0 .. Len(s) /\ cuts[0] <= cuts[1]
         /\ Carries(datagram', s, cuts[0], cuts[1])
         /\ EndsTheAnswer(datagram') => cuts[0] = Len(s)
<1> DEFINE d == inbox[1]  room == socket.ioBuffer  from == cuts[0]  to == cuts[1]
<1>1. /\ Len(inbox) \in Nat /\ Len(inbox) >= 1 /\ inbox \in Seq(Seq(Answer(query))) /\ inbox # <<>>
      /\ EndsTheAnswer(datagram') <=> EndsTheAnswer(d)
  <2>1. inbox \in Seq(Seq(Answer(query))) /\ inbox # <<>>
    BY DEF SocketInv, InboxIsOfTheQuery, receiveMessage
  <2> QED BY <2>1, ReceivedIs
<1>2. d \in Seq(Answer(query)) /\ d # <<>> /\ Head(inbox) = d /\ room \in Nat /\ Good \in Nat
  <2>1. room \in Nat /\ Good \in Nat
    BY NetlinkAssumption DEF SocketInv, SocketTypeOK
  <2>2. 1 \in 1 .. Len(inbox)
    BY <1>1
  <2>3. d # <<>>
    BY <2>2 DEF SocketInv, InboxIsOfTheQuery
  <2> QED BY <1>1, <2>1, <2>2, <2>3
<1>3. datagram' = SubSeq(d, 1, IF Len(d) <= room THEN Len(d) ELSE room)
  <2>1. datagram' = ReceiveMessageHeader(Head(inbox))
    BY DEF receiveMessage
  <2>2. datagram' = ReceiveMessageHeader(d)
    BY <1>2, <2>1
  <2> HIDE DEF d
  <2> QED BY <2>2 DEF ReceiveMessageHeader
<1>4. /\ from \in 0 .. Len(s) /\ to \in 0 .. Len(s) /\ from <= to /\ to - from <= Good
      /\ Carries(d, s, from, to)
  <2>1. 1 \in 1 .. Len(inbox) /\ 1 - 1 = 0 /\ 0 \in 0 .. Len(inbox) /\ 1 \in 0 .. Len(inbox)
    BY <1>1
  <2> HIDE DEF d
  <2>2. /\ cuts \in [0 .. Len(inbox) -> 0 .. Len(s)]
        /\ cuts[1 - 1] <= cuts[1] /\ cuts[1] - cuts[1 - 1] <= Good
        /\ Carries(inbox[1], s, cuts[1 - 1], cuts[1])
    BY <2>1 DEF AreCut
  <2> QED BY <2>1, <2>2 DEF d
<1>5. PICK r : r = datagram'
  OBVIOUS
<1> HIDE DEF d, room, from, to
<1>6. Carries(r, s, from, to)
  <2>1. to - from <= room
    BY <1>2, <1>4 DEF room
  <2> QED BY <1>2, <1>3, <1>4, <1>5, <2>1, ReceivedCarries
<1>7. ASSUME EndsTheAnswer(d) PROVE from = Len(s)
  <2>1. d[1] = NLMSG_DONE
    BY <1>7 DEF EndsTheAnswer
  <2>2. ~ (1 <= to - from)
    <3> SUFFICES ASSUME 1 <= to - from PROVE FALSE
      OBVIOUS
    <3>1. 1 \in 1 .. to - from /\ from + 1 \in 1 .. Len(s)
      BY <1>4
    <3>2. d[1] = s[from + 1]
      BY <1>4, <3>1 DEF Carries
    <3>3. s[from + 1] \in AnswerRows(query)
      BY <3>1
    <3> QED BY <2>1, <3>2, <3>3, RowIsNoEnd
  <2>3. to = from
    BY <1>4, <2>2
  <2>4. Len(d) >= 1 /\ Len(d) \in Nat
    BY <1>2
  <2>5. Len(d) = to - from + 1
    BY <1>4, <2>3, <2>4 DEF Carries
  <2> QED BY <1>4, <2>3, <2>5 DEF Carries
<1> QED BY <1>1, <1>4, <1>5, <1>6, <1>7 DEF from, to

LEMMA ReceiveHolds ==
  ASSUME TablesAssumption, SocketInv, DeviceInv, Receive,
         kernel'.tables = kernel.tables, socket'.ioBuffer = socket.ioBuffer
  PROVE  DeviceInv'
<1>1. /\ receiveMessage /\ query # None /\ query \in Queries /\ UNCHANGED kernel
      /\ kernel.tables \in Tables
  BY DEF Receive, receiveMessage, SocketInv, SocketTypeOK
<1>2. /\ IsDevice(device) /\ device.index = Index /\ asked \in Seq(Queries)
  BY <1>1 DEF DeviceInv, DeviceTypeOK
<1>3. /\ datagram' \in Seq(Answer(query)) /\ Len(inbox) \in Nat /\ Len(inbox) >= 1
      /\ Len(inbox') = Len(inbox) - 1
      /\ \A i \in 1 .. Len(inbox) - 1 : inbox'[i] = inbox[i + 1]
  BY <1>1, ReceivedIs
<1>4. PICK s : s = Whole(query)
  OBVIOUS
<1>5. s \in Seq(AnswerRows(query))
  BY <1>1, <1>4, WholeIs
<1>6. PICK r : r = datagram'
  OBVIOUS
<1>7. ASSUME socket.ioBuffer >= Good
      PROVE  /\ AnswersHold
             /\ \E cuts : /\ AreCut(s, cuts) /\ SoFar(query, device, s, cuts[0])
                          /\ cuts[0] \in 0 .. Len(s) /\ cuts[1] \in 0 .. Len(s)
                          /\ cuts[0] <= cuts[1] /\ Carries(r, s, cuts[0], cuts[1])
                          /\ EndsTheAnswer(datagram') => cuts[0] = Len(s)
  <2>1. AnswersHold /\ QueryGoesOn
    BY <1>7 DEF DeviceInv
  <2>2. PICK cuts : AreCut(s, cuts) /\ SoFar(query, device, s, cuts[0])
    BY <1>1, <1>4, <2>1 DEF QueryGoesOn
  <2>3. /\ cuts[0] \in 0 .. Len(s) /\ cuts[1] \in 0 .. Len(s) /\ cuts[0] <= cuts[1]
        /\ Carries(datagram', s, cuts[0], cuts[1])
        /\ EndsTheAnswer(datagram') => cuts[0] = Len(s)
    BY <1>1, <1>5, <1>7, <2>2, ReceivedRows
  <2> QED BY <1>6, <2>1, <2>2, <2>3
<1>8. CASE EndsTheAnswer(datagram')
  <2>1. query' = None /\ asked' = Append(asked, query) /\ device' = device
    BY <1>8 DEF Receive
  <2>2. DeviceTypeOK'
    <3>1. asked' \in Seq(Queries)
      BY <1>1, <1>2, <2>1
    <3> QED BY <1>2, <2>1, <3>1 DEF DeviceTypeOK, IsDevice
  <2>3. SUFFICES ASSUME socket.ioBuffer >= Good PROVE AnswersHold'
    BY <2>1, <2>2 DEF DeviceInv, QueryGoesOn
  <2>4. AnswersHold
    BY <1>7, <2>3
  <2>5. HasItsAnswer(query)
    <3>1. SoFar(query, device, s, Len(s))
      BY <1>7, <1>8, <2>3
    <3> QED BY <1>1, <1>4, <3>1, AllRowsAnswer
  <2>6. OthersStay(None, device, device')
    BY <2>1 DEF OthersStay
  <2>7. \A q \in ToSet(asked') : q \in ToSet(asked) \/ q = query
    <3>1. asked \in Seq(Queries) /\ asked' = Append(asked, query)
      BY <1>2, <2>1
    <3>2. /\ Len(asked') = Len(asked) + 1 /\ Len(asked) \in Nat /\ asked'[Len(asked) + 1] = query
          /\ \A i \in 1 .. Len(asked) : asked'[i] = asked[i]
          /\ DOMAIN asked = 1 .. Len(asked) /\ DOMAIN asked' = 1 .. Len(asked) + 1
      BY <1>1, <3>1
    <3> SUFFICES ASSUME NEW i \in 1 .. Len(asked) + 1
                 PROVE  asked'[i] \in ToSet(asked) \/ asked'[i] = query
      BY <3>2 DEF ToSet
    <3>3. CASE i = Len(asked) + 1
      BY <3>2, <3>3
    <3>4. CASE i \in 1 .. Len(asked)
      BY <3>2, <3>4 DEF ToSet
    <3> QED BY <3>2, <3>3, <3>4
  <2> SUFFICES ASSUME NEW q \in Queries
               PROVE  HasItsAnswer(q)' \/ (q \notin ToSet(asked)' /\ NothingBefore(q)')
    BY DEF AnswersHold
  <2>8. q # None
    BY DEF TablesAssumption
  <2>9. /\ HasItsAnswer(q) => HasItsAnswer(q)'
        /\ NothingBefore(q) => NothingBefore(q)'
    BY <2>6, <2>8, AnswerStays
  <2>10. CASE q = query
    BY <2>5, <2>9, <2>10
  <2>11. CASE q # query
    <3>1. HasItsAnswer(q) \/ (q \notin ToSet(asked) /\ NothingBefore(q))
      BY <2>4, <2>11 DEF AnswersHold
    <3> QED BY <2>7, <2>9, <2>11, <3>1
  <2> QED BY <2>10, <2>11
<1>9. CASE ~EndsTheAnswer(datagram')
  <2>1. query' = query /\ asked' = asked /\ device' = Walked(query, device, r)
    BY <1>6, <1>9 DEF Receive
  <2>2. r \in Seq(Answer(query))
    BY <1>3, <1>6
  <2>3. PICK d : d = device'
    OBVIOUS
  <2>4. IsDevice(d) /\ d.index = Index
    BY <1>1, <1>2, <2>1, <2>2, <2>3, WalkLeavesADevice
  <2>5. DeviceTypeOK'
    BY <1>2, <2>1, <2>3, <2>4 DEF DeviceTypeOK, IsDevice
  <2>6. SUFFICES ASSUME socket.ioBuffer >= Good PROVE AnswersHold' /\ QueryGoesOn'
    BY <2>5 DEF DeviceInv
  <2>7. PICK cuts :
           /\ AreCut(s, cuts) /\ SoFar(query, device, s, cuts[0])
           /\ cuts[0] \in 0 .. Len(s) /\ cuts[1] \in 0 .. Len(s)
           /\ cuts[0] <= cuts[1] /\ Carries(r, s, cuts[0], cuts[1])
    BY <1>7, <2>6
  <2>8. OthersStay(query, device, d) /\ SoFar(query, d, s, cuts[1])
    <3>1. /\ cuts[0] \in 0 .. Len(Whole(query)) /\ cuts[1] \in 0 .. Len(Whole(query))
          /\ Carries(r, Whole(query), cuts[0], cuts[1])
          /\ SoFar(query, device, Whole(query), cuts[0])
      BY <1>4, <2>7
    <3>2. /\ OthersStay(query, device, Walked(query, device, r))
          /\ SoFar(query, Walked(query, device, r), Whole(query), cuts[1])
      BY <1>1, <1>2, <2>2, <2>7, <3>1, WalkGoesFurther
    <3> QED BY <1>4, <2>1, <2>3, <3>2
  <2>9. AnswersHold'
    <3>1. AnswersHold /\ OthersStay(query, device, device')
      BY <1>7, <2>3, <2>6, <2>8
    <3> QED BY <2>1, <3>1, AnswersStay
  <2>10. PICK more : AreCut(s, more)' /\ more[0] = cuts[1]
    BY <1>1, <1>3, <1>5, <2>7, RestIsCut
  <2>11. SoFar(query, d, s, more[0])
    BY <2>8, <2>10
  <2>12. QueryGoesOn'
    BY <1>1, <1>4, <2>1, <2>3, <2>10, <2>11, GoesOn
  <2> QED BY <2>9, <2>12
<1> QED BY <1>8, <1>9

\* Every step keeps what the device has of the answers.
LEMMA DeviceStepHolds ==
  ASSUME TablesAssumption, SocketInv, DeviceInv, [Next]_vars
  PROVE  DeviceInv'
<1>1. kernel'.tables = kernel.tables /\ socket'.ioBuffer = socket.ioBuffer
  BY TablesStay
<1>2. CASE getNetworkDeviceIndex
  <2>1. query = None /\ UNCHANGED <<query, asked>>
        /\ (device' = device \/ device' = [device EXCEPT !.index = Index])
    BY <1>2 DEF getNetworkDeviceIndex, IsIdle
  <2> QED BY <1>1, <2>1, IdleHolds
<1>3. CASE getEthernetMTU \/ getEthernetStatus
  <2>1. query = None /\ UNCHANGED <<query, asked, device>>
    BY <1>3 DEF getEthernetMTU, getEthernetStatus, IsIdle
  <2> QED BY <1>1, <2>1, IdleHolds
<1>4. CASE Open \/ Bind \/ Close
  <2>1. query = None /\ UNCHANGED <<query, asked, device>>
    BY <1>4 DEF Open, Bind, Close, IsIdle
  <2> QED BY <1>1, <2>1, IdleHolds
<1>5. ASSUME NEW q \in Queries, Ask(q) PROVE DeviceInv'
  BY <1>1, <1>5, AskHolds
<1>6. CASE Receive
  BY <1>1, <1>6, ReceiveHolds
<1>7. CASE ReceiveFails
  <2>1. UNCHANGED <<query, asked, device>> /\ Exit
    BY <1>7 DEF ReceiveFails
  <2>2. inbox' = <<>> /\ kernel'.left = None
    BY <2>1 DEF Exit, SocketInv, SocketTypeOK
  <2> QED BY <1>1, <2>1, <2>2, IdleHolds
<1>8. CASE Kernel
  BY <1>1, <1>8, KernelHolds
<1>9. CASE UNCHANGED vars
  <2>1. UNCHANGED <<socket, kernel, inbox, device, query, asked>>
    BY <1>9 DEF vars
  <2>2. DeviceTypeOK'
    BY <2>1 DEF DeviceInv, DeviceTypeOK, IsDevice
  <2>3. SUFFICES ASSUME socket.ioBuffer >= Good PROVE AnswersHold' /\ QueryGoesOn'
    BY <2>1, <2>2 DEF DeviceInv
  <2>4. AnswersHold /\ QueryGoesOn
    BY <2>3 DEF DeviceInv
  <2>5. AnswersHold'
    <3>1. OthersStay(query, device, device')
      BY <2>1 DEF OthersStay
    <3> QED BY <1>1, <2>1, <2>4, <3>1, AnswersStay
  <2>6. QueryGoesOn'
    <3>1. CASE query = None
      BY <2>1, <3>1 DEF QueryGoesOn
    <3>2. CASE query # None
      <4>1. query \in Queries
        BY <3>2 DEF SocketInv, SocketTypeOK
      <4>2. PICK s : s = Whole(query)
        OBVIOUS
      <4>3. PICK cuts : AreCut(s, cuts) /\ SoFar(query, device, s, cuts[0])
        BY <2>4, <3>2, <4>2 DEF QueryGoesOn
      <4>4. AreCut(s, cuts)'
        BY <2>1, <4>3 DEF AreCut
      <4>5. PICK d : d = device'
        OBVIOUS
      <4>6. SoFar(query, d, s, cuts[0])
        BY <2>1, <4>3, <4>5
      <4> QED BY <1>1, <2>1, <4>1, <4>2, <4>4, <4>5, <4>6, GoesOn
    <3> QED BY <3>1, <3>2
  <2> QED BY <2>5, <2>6
<1> QED BY <1>2, <1>3, <1>4, <1>5, <1>6, <1>7, <1>8, <1>9 DEF Next

\* With tables of any size, cut into datagrams in any way that the ioBuffer has room for,
\* and any number of queries in any order: what a finished query left in the device is
\* the last address of the scope in the kernel's table, and a gateway of the device
\* whenever the last route with a gateway is one of its own, also while other queries run
\* (net/networkdevice.c:82-283).
THEOREM FindsWhatTheDeviceHasTheorem ==
  ASSUME TablesAssumption
  PROVE  Spec => []FindsWhatTheDeviceHas
<1>1. Init => SocketInv /\ DeviceInv
  BY DeviceInitInv, DeviceStarts
<1>2. SocketInv /\ DeviceInv /\ [Next]_vars => (SocketInv /\ DeviceInv)'
  BY DeviceStepInv, DeviceStepHolds
<1>3. DeviceInv => FindsWhatTheDeviceHas
  <2> SUFFICES ASSUME DeviceInv, socket.ioBuffer >= Good, NEW q \in ToSet(asked), q # query
               PROVE  HasItsAnswer(q)
    BY DEF FindsWhatTheDeviceHas
  <2>1. AnswersHold /\ asked \in Seq(Queries)
    BY DEF DeviceInv, DeviceTypeOK
  <2>2. q \in Queries
    BY <2>1 DEF ToSet
  <2> QED BY <2>1, <2>2 DEF AnswersHold
<1> QED BY <1>1, <1>2, <1>3, PTL DEF Spec

-------------------------------------------------------------------------------
(* LineBuffer.                                                             *)

\* Characters are numbers, and the two that are looked for differ.
LineBufferAssumption ==
    /\ BufferSize \in Nat
    /\ NEWLINE \in Int /\ NUL \in Int /\ NEWLINE # NUL
    /\ Texts \subseteq Seq(Int)

LinesTypeOK ==
    /\ file \in Seq(Int) /\ buffer \in Seq(Int)
    /\ position \in 0 .. Len(file)
    /\ length \in 0 .. Len(buffer)
    /\ taken \in 0 .. position
    /\ Len(buffer) - length = position - taken
    /\ line \in [found : BOOLEAN, text : Seq(Int)]

\* NothingIsLost, character by character.
Agrees == \A k \in 1 .. position - taken : buffer[length + k] = file[taken + k]

EndsALine == taken = 0 \/ file[taken] = NEWLINE

\* IsLineOfFile, character by character.
LineAgrees ==
    line.found =>
      /\ taken - Len(line.text) >= 1
      /\ \A k \in 1 .. Len(line.text) :
           /\ file[taken - Len(line.text) + k - 1] = line.text[k]
           /\ line.text[k] # NEWLINE
      /\ file[taken] = NEWLINE
      /\ taken - Len(line.text) = 1 \/ file[taken - Len(line.text) - 1] = NEWLINE

LinesInv == LinesTypeOK /\ Agrees /\ EndsALine /\ LineAgrees

------------------------------------------------------------------------------
\* An empty buffer at the beginning of the file.
LEMMA InitLines == LineBufferAssumption /\ initLineBuffer => LinesInv
<1> SUFFICES ASSUME LineBufferAssumption, initLineBuffer
             PROVE  LinesInv
  OBVIOUS
<1>1. file \in Seq(Int) /\ buffer = << >> /\ buffer \in Seq(Int) /\ Len(buffer) = 0
  BY EmptySeq DEF LineBufferAssumption, initLineBuffer
<1>2. Len(file) \in Nat
  BY <1>1, LenProperties
<1>3. line \in [found : BOOLEAN, text : Seq(Int)] /\ ~line.found
  BY <1>1 DEF initLineBuffer, NULL
<1> QED
  BY <1>1, <1>2, <1>3 DEF LinesInv, LinesTypeOK, Agrees, EndsALine, LineAgrees, initLineBuffer

\* No line is given out in this state.
LEMMA NoLine ==
  ASSUME line' = NULL
  PROVE  line' \in [found : BOOLEAN, text : Seq(Int)] /\ LineAgrees'
BY EmptySeq DEF NULL, LineAgrees

\* What is read goes behind what is in the buffer, as it does in the file.
LEMMA PopulateInv == ASSUME LineBufferAssumption, LinesInv, populateLineBuffer PROVE LinesInv'
<1>1. PICK n \in Reads :
        /\ buffer' = buffer \o SubSeq(file, position + 1, position + n)
        /\ position' = position + n
  BY DEF populateLineBuffer
<1>2. /\ file' = file /\ length' = length /\ taken' = taken /\ line' = NULL
  BY DEF populateLineBuffer
<1>3. Len(file) \in Nat /\ Len(buffer) \in Nat
  BY LenProperties DEF LinesInv, LinesTypeOK
<1>4. n \in Nat /\ position + n <= Len(file)
  BY <1>3 DEF Reads, Smaller, LineBufferAssumption, LinesInv, LinesTypeOK
<1> DEFINE new == SubSeq(file, position + 1, position + n)
<1>5. \A i \in position + 1 .. position + n : file[i] \in Int
  <2> SUFFICES ASSUME NEW i \in position + 1 .. position + n
               PROVE  file[i] \in Int
    OBVIOUS
  <2>1. i \in 1 .. Len(file)
    BY <1>3, <1>4 DEF LinesInv, LinesTypeOK
  <2> QED
    BY <2>1, ElementOfSeq DEF LinesInv, LinesTypeOK
<1>6. position + 1 \in Int /\ position + n \in Int
  BY <1>3, <1>4 DEF LinesInv, LinesTypeOK
<1>7. /\ new \in Seq(Int)
      /\ Len(new) = IF position + 1 <= position + n THEN (position + n) - (position + 1) + 1 ELSE 0
      /\ \A i \in 1 .. (position + n) - (position + 1) + 1 : new[i] = file[(position + 1) + i - 1]
  BY <1>5, <1>6, SubSeqProperties
<1>8. /\ Len(new) = n
      /\ \A i \in 1 .. n : new[i] = file[position + i]
  <2>1. position \in Nat
    BY <1>3 DEF LinesInv, LinesTypeOK
  <2> HIDE DEF new
  <2> QED
    BY <1>4, <1>7, <2>1
<1>9. /\ buffer' \in Seq(Int)
      /\ Len(buffer') = Len(buffer) + n
      /\ \A i \in 1 .. Len(buffer) + n :
            buffer'[i] = IF i <= Len(buffer) THEN buffer[i] ELSE new[i - Len(buffer)]
  <2>1. buffer' = buffer \o new
    BY <1>1
  <2> HIDE DEF new
  <2>2. buffer \in Seq(Int) /\ new \in Seq(Int)
    BY <1>7 DEF LinesInv, LinesTypeOK
  <2>3. /\ buffer \o new \in Seq(Int)
        /\ Len(buffer \o new) = Len(buffer) + Len(new)
        /\ \A i \in 1 .. Len(buffer) + Len(new) :
              (buffer \o new)[i] = IF i <= Len(buffer) THEN buffer[i] ELSE new[i - Len(buffer)]
    BY <2>2, ConcatProperties
  <2> QED
    BY <1>8, <2>1, <2>3, Zenon
<1> HIDE DEF new
<1>10. /\ position \in Nat /\ taken \in Nat /\ length \in Nat
       /\ taken <= position /\ length <= Len(buffer)
       /\ Len(buffer) - length = position - taken
  BY <1>3 DEF LinesInv, LinesTypeOK
<1>11. LinesTypeOK'
  <2>1. file' \in Seq(Int) /\ buffer' \in Seq(Int) /\ line' \in [found : BOOLEAN, text : Seq(Int)]
    BY <1>2, <1>9, NoLine DEF LinesInv, LinesTypeOK
  <2>2. /\ position' \in 0 .. Len(file') /\ length' \in 0 .. Len(buffer')
        /\ taken' \in 0 .. position' /\ Len(buffer') - length' = position' - taken'
    <3>1. position' = position + n /\ file' = file /\ length' = length /\ taken' = taken
      BY <1>1, <1>2
    <3>2. Len(buffer') = Len(buffer) + n
      BY <1>9
    <3>3. /\ position + n \in 0 .. Len(file) /\ length \in 0 .. Len(buffer) + n
          /\ taken \in 0 .. position + n /\ Len(buffer) + n - length = position + n - taken
      BY <1>3, <1>4, <1>10
    <3> QED
      BY <3>1, <3>2, <3>3, <1>3, <1>4, <1>10
  <2> QED
    BY <2>1, <2>2 DEF LinesTypeOK
<1>12. Agrees'
  <2> SUFFICES ASSUME NEW k \in 1 .. position' - taken'
               PROVE  buffer'[length' + k] = file'[taken' + k]
    BY DEF Agrees
  <2> SUFFICES buffer'[length + k] = file[taken + k]
    BY <1>2
  <2>3. k \in 1 .. position + n - taken
    BY <1>1, <1>2, <1>4, <1>10
  <2>1. CASE k <= position - taken
    <3>1. /\ length + k \in 1 .. Len(buffer) + n /\ length + k <= Len(buffer)
          /\ k \in 1 .. position - taken
      BY <2>1, <2>3, <1>3, <1>4, <1>10
    <3>2. buffer'[length + k] = buffer[length + k]
      BY <3>1, <1>9
    <3> QED
      BY <3>1, <3>2 DEF LinesInv, Agrees
  <2>2. CASE k > position - taken
    <3>1. /\ length + k > Len(buffer) /\ length + k <= Len(buffer) + n
          /\ length + k - Len(buffer) = k - (position - taken)
          /\ length + k \in 1 .. Len(buffer) + n /\ ~(length + k <= Len(buffer))
          /\ k - (position - taken) \in 1 .. n
      BY <2>2, <2>3, <1>3, <1>4, <1>10
    <3>2. buffer'[length + k] = new[length + k - Len(buffer)]
      <4> DEFINE j == length + k
      <4>1. j \in 1 .. Len(buffer) + n /\ ~(j <= Len(buffer))
        BY <3>1
      <4> HIDE DEF j
      <4>2. buffer'[j] = new[j - Len(buffer)]
        BY <4>1, <1>9
      <4> QED
        BY <4>2, <1>3, <1>10 DEF j
    <3>3. new[k - (position - taken)] = file[position + (k - (position - taken))]
      BY <3>1, <1>8
    <3>4. position + (k - (position - taken)) = taken + k
      BY <1>10
    <3> QED
      BY <3>1, <3>2, <3>3, <3>4
  <2> QED
    BY <2>1, <2>2, <2>3, <1>4, <1>10
<1>13. EndsALine' /\ LineAgrees'
  BY <1>2, NoLine DEF LinesInv, EndsALine
<1> QED
  BY <1>11, <1>12, <1>13 DEF LinesInv

\* A line that is found is what the file has next, and ends with its newline.
LEMMA LineFoundInv ==
  ASSUME LineBufferAssumption, LinesInv, getLine,
         NEW i \in length + 1 .. Len(buffer), LineFound(i)
  PROVE  LinesInv'
<1> DEFINE text == SubSeq(buffer, length + 1, i - 1)
<1>1. /\ line' = Line(text) /\ buffer' = [buffer EXCEPT ![i] = NUL] /\ length' = i
      /\ taken' = taken + (i - length) /\ buffer[i] = NEWLINE /\ IsFirst(i)
      /\ file' = file /\ position' = position
  BY DEF LineFound, getLine
<1>2. /\ Len(file) \in Nat /\ Len(buffer) \in Nat /\ length \in Nat /\ taken \in Nat
      /\ position \in Nat /\ i \in 1 .. Len(buffer) /\ i - length \in 1 .. position - taken
  BY LenProperties DEF LinesInv, LinesTypeOK
<1>3. /\ buffer' \in Seq(Int)
      /\ Len(buffer') = Len(buffer)
      /\ \A j \in 1 .. Len(buffer) : buffer'[j] = IF j = i THEN NUL ELSE buffer[j]
  <2>1. NUL \in Int /\ buffer \in Seq(Int) /\ i \in 1 .. Len(buffer)
    BY <1>2 DEF LineBufferAssumption, LinesInv, LinesTypeOK
  <2>2. /\ [buffer EXCEPT ![i] = NUL] \in Seq(Int)
        /\ Len([buffer EXCEPT ![i] = NUL]) = Len(buffer)
        /\ \A j \in 1 .. Len(buffer) :
             [buffer EXCEPT ![i] = NUL][j] = IF j = i THEN NUL ELSE buffer[j]
    BY <2>1, ExceptSeq
  <2> QED
    BY <1>1, <2>2
<1>4. \A j \in length + 1 .. i - 1 : buffer[j] \in Int /\ buffer[j] # NEWLINE
  <2> SUFFICES ASSUME NEW j \in length + 1 .. i - 1
               PROVE  buffer[j] \in Int /\ buffer[j] # NEWLINE
    OBVIOUS
  <2>1. j \in 1 .. Len(buffer) /\ j \in length + 1 .. Len(buffer) /\ ~(i <= j)
    BY <1>2
  <2>2. buffer[j] \in Int
    BY <2>1, ElementOfSeq DEF LinesInv, LinesTypeOK
  <2>3. j \notin Stops
    BY <1>1, <2>1 DEF IsFirst
  <2> QED
    BY <2>1, <2>2, <2>3 DEF Stops
<1>5. /\ text \in Seq(Int)
      /\ Len(text) = IF length + 1 <= i - 1 THEN (i - 1) - (length + 1) + 1 ELSE 0
      /\ \A k \in 1 .. (i - 1) - (length + 1) + 1 : text[k] = buffer[(length + 1) + k - 1]
  <2>1. length + 1 \in Int /\ i - 1 \in Int
    BY <1>2
  <2> QED
    BY <1>4, <2>1, SubSeqProperties
<1> HIDE DEF text
<1>6. /\ Len(text) = i - length - 1
      /\ \A k \in 1 .. Len(text) : text[k] = buffer[length + k]
  <2>1. Len(text) = i - length - 1 /\ (i - 1) - (length + 1) + 1 = i - length - 1
    BY <1>2, <1>5
  <2>2. \A k \in 1 .. i - length - 1 : (length + 1) + k - 1 = length + k
    BY <1>2
  <2> QED
    BY <1>5, <2>1, <2>2
<1>7. line'.found /\ line'.text = text /\ line' \in [found : BOOLEAN, text : Seq(Int)]
  BY <1>1, <1>5 DEF Line
<1>8. \A k \in 1 .. i - length : buffer[length + k] = file[taken + k]
  BY <1>2 DEF LinesInv, Agrees
<1>9. file[taken'] = NEWLINE
  <2>1. buffer[length + (i - length)] = file[taken + (i - length)]
    <3> DEFINE n == i - length
    <3>1. n \in 1 .. n
      BY <1>2
    <3>2. \A k \in 1 .. n : buffer[length + k] = file[taken + k]
      BY <1>8
    <3> HIDE DEF n
    <3>3. buffer[length + n] = file[taken + n]
      BY <3>1, <3>2
    <3> QED
      BY <3>3 DEF n
  <2>2. length + (i - length) = i
    BY <1>2
  <2> QED
    BY <1>1, <2>1, <2>2
<1>10. LinesTypeOK'
  <2>1. position <= Len(file) /\ Len(buffer) - length = position - taken
    BY <1>2 DEF LinesInv, LinesTypeOK
  <2>2. file' \in Seq(Int)
    BY <1>1 DEF LinesInv, LinesTypeOK
  <2>3. /\ position' \in 0 .. Len(file') /\ length' \in 0 .. Len(buffer')
        /\ taken' \in 0 .. position' /\ Len(buffer') - length' = position' - taken'
    BY <1>1, <1>2, <1>3, <2>1
  <2> QED
    BY <1>3, <1>7, <2>2, <2>3 DEF LinesTypeOK
<1>11. Agrees'
  <2> SUFFICES ASSUME NEW k \in 1 .. position - (taken + (i - length))
               PROVE  buffer'[i + k] = file[taken + (i - length) + k]
    BY <1>1 DEF Agrees
  <2>1. /\ i + k \in 1 .. Len(buffer) /\ i + k # i
        /\ (i - length) + k \in 1 .. position - taken
        /\ length + ((i - length) + k) = i + k
        /\ taken + ((i - length) + k) = taken + (i - length) + k
    BY <1>2 DEF LinesInv, LinesTypeOK
  <2>2. buffer'[i + k] = buffer[i + k]
    BY <1>3, <2>1
  <2>3. buffer[length + ((i - length) + k)] = file[taken + ((i - length) + k)]
    BY <2>1 DEF LinesInv, Agrees
  <2> QED
    BY <2>1, <2>2, <2>3
<1>12. LineAgrees'
  <2>1. taken' - Len(text) = taken + 1
    BY <1>1, <1>2, <1>6
  <2>2. ASSUME NEW k \in 1 .. Len(text)
        PROVE  file[(taken + 1) + k - 1] = text[k] /\ text[k] # NEWLINE
    <3>1. /\ k \in 1 .. i - length /\ length + k \in length + 1 .. i - 1
          /\ (taken + 1) + k - 1 = taken + k
      BY <1>2, <1>6
    <3> QED
      BY <3>1, <1>4, <1>6, <1>8
  <2>3. taken + 1 >= 1 /\ (taken + 1 = 1 \/ file[taken + 1 - 1] = NEWLINE)
    <3>1. taken + 1 - 1 = taken
      BY <1>2
    <3> QED
      BY <1>2, <3>1 DEF LinesInv, EndsALine
  <2>4. line'.text = text /\ file' = file
    BY <1>1, <1>7
  <2>5. taken' - Len(line'.text) = taken + 1
    BY <2>1, <2>4
  <2> DEFINE first == taken' - Len(line'.text)
  <2>6. first >= 1 /\ (first = 1 \/ file'[first - 1] = NEWLINE)
    <3>1. first = taken + 1 /\ file' = file
      BY <2>4, <2>5
    <3> HIDE DEF first
    <3> QED
      BY <1>2, <2>3, <3>1
  <2>7. \A k \in 1 .. Len(line'.text) :
          file'[first + k - 1] = line'.text[k] /\ line'.text[k] # NEWLINE
    BY <2>2, <2>4, <2>5
  <2>8. file'[taken'] = NEWLINE
    BY <1>9, <2>4
  <2> QED
    BY <2>6, <2>7, <2>8 DEF LineAgrees
<1>13. EndsALine'
  BY <1>1, <1>9 DEF EndsALine
<1> QED
  BY <1>10, <1>11, <1>12, <1>13 DEF LinesInv

\* What is left moves to the front as it is.
LEMMA NewlineNotFoundInv ==
  ASSUME LineBufferAssumption, LinesInv, getLine, NewlineNotFound
  PROVE  LinesInv'
<1>1. /\ line' = NULL /\ buffer' = SubSeq(buffer, length + 1, Len(buffer)) /\ length' = 0
      /\ taken' = taken /\ file' = file /\ position' = position /\ length < Len(buffer)
  BY DEF NewlineNotFound, getLine, Kept
<1>2. /\ Len(file) \in Nat /\ Len(buffer) \in Nat /\ length \in Nat /\ taken \in Nat
      /\ position \in Nat /\ Len(buffer) - length = position - taken
  BY LenProperties DEF LinesInv, LinesTypeOK
<1>3. \A j \in length + 1 .. Len(buffer) : buffer[j] \in Int
  <2> SUFFICES ASSUME NEW j \in length + 1 .. Len(buffer)
               PROVE  buffer[j] \in Int
    OBVIOUS
  <2>1. j \in 1 .. Len(buffer)
    BY <1>2
  <2> QED
    BY <2>1, ElementOfSeq DEF LinesInv, LinesTypeOK
<1>4. /\ buffer' \in Seq(Int)
      /\ Len(buffer') = IF length + 1 <= Len(buffer) THEN Len(buffer) - (length + 1) + 1 ELSE 0
      /\ \A k \in 1 .. Len(buffer) - (length + 1) + 1 : buffer'[k] = buffer[(length + 1) + k - 1]
  <2>1. length + 1 \in Int /\ Len(buffer) \in Int
    BY <1>2
  <2> QED
    BY <1>1, <1>3, <2>1, SubSeqProperties
<1>5. /\ Len(buffer') = Len(buffer) - length
      /\ \A k \in 1 .. Len(buffer) - length : buffer'[k] = buffer[length + k]
  BY <1>1, <1>2, <1>4
<1>6. LinesTypeOK'
  <2>1. file' \in Seq(Int) /\ line' \in [found : BOOLEAN, text : Seq(Int)]
    BY <1>1, NoLine DEF LinesInv, LinesTypeOK
  <2>2. position <= Len(file) /\ taken <= position
    BY <1>2 DEF LinesInv, LinesTypeOK
  <2>3. /\ position' \in 0 .. Len(file') /\ length' \in 0 .. Len(buffer')
        /\ taken' \in 0 .. position' /\ Len(buffer') - length' = position' - taken'
    BY <1>1, <1>2, <1>5, <2>2
  <2> QED
    BY <1>4, <2>1, <2>3 DEF LinesTypeOK
<1>7. Agrees'
  <2> SUFFICES ASSUME NEW k \in 1 .. position - taken
               PROVE  buffer'[0 + k] = file[taken + k]
    BY <1>1 DEF Agrees
  <2>1. 0 + k = k /\ k \in 1 .. Len(buffer) - length
    BY <1>2
  <2> QED
    BY <1>5, <2>1 DEF LinesInv, Agrees
<1> QED
  BY <1>1, <1>6, <1>7, NoLine DEF LinesInv, EndsALine

\* Nothing but the line that was given out last is forgotten.
LEMMA NothingMoves ==
  ASSUME LinesInv, line' = NULL, UNCHANGED <<file, position, buffer, length, taken>>
  PROVE  LinesInv'
BY NoLine DEF LinesInv, LinesTypeOK, Agrees, EndsALine

\* The places of a line of n characters that ends at t, and the one before it.
LEMMA LineIsBelow ==
  ASSUME NEW t \in Nat, NEW n \in Nat, NEW m \in Nat, t <= m, t - n >= 1
  PROVE  /\ \A k \in 1 .. n : t - n + k - 1 \in 1 .. m
         /\ t - n = 1 \/ t - n - 1 \in 1 .. m
         /\ t \in 1 .. m
OBVIOUS

\* What is written behind the file leaves what was read of it.
LEMMA AppendedInv == ASSUME LineBufferAssumption, LinesInv, Appended PROVE LinesInv'
<1>1. PICK text \in Texts : file' = file \o text
  BY DEF Appended
<1>2. /\ buffer' = buffer /\ position' = position /\ length' = length /\ taken' = taken
      /\ line' = line
  BY DEF Appended, readerVars
<1>3. /\ file' \in Seq(Int) /\ Len(file') = Len(file) + Len(text)
      /\ \A i \in 1 .. Len(file) : file'[i] = file[i]
      /\ Len(file) \in Nat /\ Len(text) \in Nat
  <2>1. text \in Seq(Int) /\ file \in Seq(Int)
    BY DEF LineBufferAssumption, LinesInv, LinesTypeOK
  <2>2. Len(file) \in Nat /\ Len(text) \in Nat
    BY <2>1, LenProperties
  <2> QED
    BY <1>1, <2>1, <2>2, ConcatProperties
<1>4. /\ Len(buffer) \in Nat /\ position \in Nat /\ taken \in Nat
      /\ taken <= position /\ position <= Len(file)
  BY <1>3, LenProperties DEF LinesInv, LinesTypeOK
<1>5. LinesTypeOK'
  <2>1. position \in 0 .. Len(file')
    BY <1>3, <1>4
  <2> QED
    BY <1>2, <1>3, <2>1 DEF LinesInv, LinesTypeOK
<1>6. Agrees'
  <2> SUFFICES ASSUME NEW k \in 1 .. position - taken
               PROVE  buffer[length + k] = file'[taken + k]
    BY <1>2 DEF Agrees
  <2>1. taken + k \in 1 .. Len(file)
    BY <1>3, <1>4
  <2>2. file'[taken + k] = file[taken + k]
    BY <1>3, <2>1
  <2> QED
    BY <2>2 DEF LinesInv, Agrees
<1>7. EndsALine'
  <2>1. taken = 0 \/ taken \in 1 .. Len(file)
    BY <1>3, <1>4
  <2> QED
    BY <1>2, <1>3, <2>1 DEF LinesInv, EndsALine
<1>8. LineAgrees'
  <2> SUFFICES ASSUME line.found
               PROVE  /\ taken - Len(line.text) >= 1
                      /\ \A k \in 1 .. Len(line.text) :
                           /\ file'[taken - Len(line.text) + k - 1] = line.text[k]
                           /\ line.text[k] # NEWLINE
                      /\ file'[taken] = NEWLINE
                      /\ \/ taken - Len(line.text) = 1
                         \/ file'[taken - Len(line.text) - 1] = NEWLINE
    BY <1>2 DEF LineAgrees
  <2>1. Len(line.text) \in Nat /\ taken \in Nat /\ taken <= Len(file)
    BY <1>3, <1>4, LenProperties DEF LinesInv, LinesTypeOK
  <2>2. taken - Len(line.text) >= 1
    BY DEF LinesInv, LineAgrees
  <2>3. /\ \A k \in 1 .. Len(line.text) : taken - Len(line.text) + k - 1 \in 1 .. Len(file)
        /\ taken - Len(line.text) = 1 \/ taken - Len(line.text) - 1 \in 1 .. Len(file)
        /\ taken \in 1 .. Len(file)
    BY <2>1, <2>2, <1>3, LineIsBelow
  <2> QED
    BY <1>3, <2>2, <2>3 DEF LinesInv, LineAgrees
<1> QED
  BY <1>5, <1>6, <1>7, <1>8 DEF LinesInv

\* Every step keeps the invariant.
LEMMA NextInv == LineBufferAssumption /\ LinesInv /\ [LineNext]_lineVars => LinesInv'
<1> SUFFICES ASSUME LineBufferAssumption, LinesInv, [LineNext]_lineVars
             PROVE  LinesInv'
  OBVIOUS
<1>1. CASE populateLineBuffer
  BY <1>1, PopulateInv
<1>2. CASE populateFails
  BY <1>2 DEF populateFails, LinesInv, LinesTypeOK, Agrees, EndsALine, LineAgrees
<1>3. CASE getLine
  <2>1. CASE \E i \in length + 1 .. Len(buffer) : LineFound(i)
    BY <1>3, <2>1, LineFoundInv
  <2>2. CASE \E i \in length + 1 .. Len(buffer) : StoppedAtNul(i)
    BY <1>3, <2>2, NothingMoves DEF getLine, StoppedAtNul
  <2>3. CASE NewlineNotFound
    BY <1>3, <2>3, NewlineNotFoundInv
  <2>4. CASE NothingLeft
    BY <1>3, <2>4, NothingMoves DEF getLine, NothingLeft
  <2> QED
    BY <1>3, <2>1, <2>2, <2>3, <2>4 DEF getLine
<1>4. CASE Appended
  BY <1>4, AppendedInv
<1>5. CASE UNCHANGED lineVars
  BY <1>5 DEF lineVars, readerVars, LinesInv, LinesTypeOK, Agrees, EndsALine, LineAgrees
<1> QED
  BY <1>1, <1>2, <1>3, <1>4, <1>5 DEF LineNext

------------------------------------------------------------------------------
\* Character by character is as sequences.
LEMMA InvNothingIsLost == LinesInv => NothingIsLost
<1> SUFFICES ASSUME LinesInv PROVE NothingIsLost
  OBVIOUS
<1> DEFINE left == SubSeq(buffer, length + 1, Len(buffer))
           next == SubSeq(file, taken + 1, position)
<1>1. /\ Len(file) \in Nat /\ Len(buffer) \in Nat /\ length \in Nat /\ taken \in Nat
      /\ position \in Nat /\ Len(buffer) - length = position - taken /\ position <= Len(file)
      /\ taken <= position
  BY LenProperties DEF LinesInv, LinesTypeOK
<1>2. \A j \in length + 1 .. Len(buffer) : buffer[j] \in Int
  <2> SUFFICES ASSUME NEW j \in length + 1 .. Len(buffer) PROVE buffer[j] \in Int
    OBVIOUS
  <2>1. j \in 1 .. Len(buffer)
    BY <1>1
  <2> QED
    BY <2>1, ElementOfSeq DEF LinesInv, LinesTypeOK
<1>3. \A j \in taken + 1 .. position : file[j] \in Int
  <2> SUFFICES ASSUME NEW j \in taken + 1 .. position PROVE file[j] \in Int
    OBVIOUS
  <2>1. j \in 1 .. Len(file)
    BY <1>1
  <2> QED
    BY <2>1, ElementOfSeq DEF LinesInv, LinesTypeOK
<1>4. length + 1 \in Int /\ taken + 1 \in Int /\ Len(buffer) \in Int /\ position \in Int
  BY <1>1
<1>5. /\ left \in Seq(Int)
      /\ Len(left) = IF length + 1 <= Len(buffer) THEN Len(buffer) - (length + 1) + 1 ELSE 0
      /\ \A k \in 1 .. Len(buffer) - (length + 1) + 1 : left[k] = buffer[(length + 1) + k - 1]
  BY <1>2, <1>4, SubSeqProperties
<1>6. /\ next \in Seq(Int)
      /\ Len(next) = IF taken + 1 <= position THEN position - (taken + 1) + 1 ELSE 0
      /\ \A k \in 1 .. position - (taken + 1) + 1 : next[k] = file[(taken + 1) + k - 1]
  BY <1>3, <1>4, SubSeqProperties
<1> HIDE DEF left, next
<1>7. Len(left) = position - taken /\ Len(next) = position - taken
  BY <1>1, <1>5, <1>6
<1>8. \A k \in 1 .. Len(left) : left[k] = next[k]
  <2> SUFFICES ASSUME NEW k \in 1 .. position - taken PROVE left[k] = next[k]
    BY <1>7
  <2>1. left[k] = buffer[length + k] /\ next[k] = file[taken + k]
    BY <1>1, <1>5, <1>6
  <2> QED
    BY <2>1 DEF LinesInv, Agrees
<1>9. left = next
  BY <1>5, <1>6, <1>7, <1>8, SeqEqual
<1> QED
  BY <1>9 DEF NothingIsLost, left, next

\* A part of the file that agrees with a text and ends with a newline is it.
LEMMA TextOfFile ==
  ASSUME NEW f \in Seq(Int), NEW text \in Seq(Int), NEWLINE \in Int,
         NEW first \in Nat \ {0}, first + Len(text) <= Len(f),
         \A k \in 1 .. Len(text) : f[first + k - 1] = text[k],
         f[first + Len(text)] = NEWLINE
  PROVE  SubSeq(f, first, first + Len(text)) = Append(text, NEWLINE)
<1> DEFINE part == SubSeq(f, first, first + Len(text))
           whole == Append(text, NEWLINE)
<1>1. Len(f) \in Nat /\ Len(text) \in Nat
  BY LenProperties
<1>2. \A j \in first .. first + Len(text) : f[j] \in Int
  <2> SUFFICES ASSUME NEW j \in first .. first + Len(text) PROVE f[j] \in Int
    OBVIOUS
  <2>1. j \in 1 .. Len(f)
    BY <1>1
  <2> QED
    BY <2>1, ElementOfSeq
<1>3. first \in Int /\ first + Len(text) \in Int
  BY <1>1
<1>4. /\ part \in Seq(Int)
      /\ Len(part) = IF first <= first + Len(text) THEN (first + Len(text)) - first + 1 ELSE 0
      /\ \A k \in 1 .. (first + Len(text)) - first + 1 : part[k] = f[first + k - 1]
  BY <1>2, <1>3, SubSeqProperties
<1>5. /\ whole \in Seq(Int) /\ Len(whole) = Len(text) + 1
      /\ \A k \in 1 .. Len(text) : whole[k] = text[k]
      /\ whole[Len(text) + 1] = NEWLINE
  BY <1>1
<1> HIDE DEF part, whole
<1>6. Len(part) = Len(text) + 1
  BY <1>1, <1>4
<1>7. \A k \in 1 .. Len(part) : part[k] = whole[k]
  <2> SUFFICES ASSUME NEW k \in 1 .. Len(text) + 1 PROVE part[k] = whole[k]
    BY <1>6
  <2>1. part[k] = f[first + k - 1]
    BY <1>1, <1>4
  <2>2. CASE k <= Len(text)
    <3>1. k \in 1 .. Len(text)
      BY <1>1, <2>2
    <3> QED
      BY <1>5, <2>1, <3>1
  <2>3. CASE k = Len(text) + 1
    <3>1. first + k - 1 = first + Len(text)
      BY <1>1, <2>3
    <3> QED
      BY <1>5, <2>1, <2>3, <3>1
  <2> QED
    BY <1>1, <2>2, <2>3
<1>8. part = whole
  BY <1>4, <1>5, <1>6, <1>7, SeqEqual
<1> QED
  BY <1>8 DEF part, whole

\* The line given out is the one of the file.
LEMMA InvIsLineOfFile == LineBufferAssumption /\ LinesInv => IsLineOfFile
<1> SUFFICES ASSUME LineBufferAssumption, LinesInv, line.found
             PROVE  LET first == taken - Len(line.text) IN
                    /\ first >= 1
                    /\ SubSeq(file, first, taken) = Append(line.text, NEWLINE)
                    /\ first = 1 \/ file[first - 1] = NEWLINE
                    /\ \A k \in DOMAIN line.text : line.text[k] # NEWLINE
  BY DEF IsLineOfFile
<1> DEFINE first == taken - Len(line.text)
<1>1. /\ line.text \in Seq(Int) /\ Len(line.text) \in Nat
      /\ DOMAIN line.text = 1 .. Len(line.text)
      /\ taken \in Nat /\ taken <= Len(file)
  BY LenProperties DEF LinesInv, LinesTypeOK
<1>2. /\ first >= 1
      /\ \A k \in 1 .. Len(line.text) :
           file[first + k - 1] = line.text[k] /\ line.text[k] # NEWLINE
      /\ file[taken] = NEWLINE
      /\ first = 1 \/ file[first - 1] = NEWLINE
  BY DEF LinesInv, LineAgrees
<1>3. first \in Nat \ {0} /\ first + Len(line.text) = taken
  BY <1>1, <1>2
<1> HIDE DEF first
<1>4. SubSeq(file, first, first + Len(line.text)) = Append(line.text, NEWLINE)
  BY <1>1, <1>2, <1>3, TextOfFile DEF LineBufferAssumption, LinesInv, LinesTypeOK
<1> QED
  BY <1>1, <1>2, <1>3, <1>4 DEF first

\* The walk over a FileBuffer stops at the first newline as well.
LEMMA InvSameInAFileBuffer == LineBufferAssumption /\ LinesInv => SameInAFileBuffer
<1> DEFINE next == getLineFromFileBuffer(buffer, length, << >>)
<1> SUFFICES ASSUME LineBufferAssumption, LinesInv, length < Len(buffer), next.found
             PROVE  /\ SubSeq(file, taken + 1, taken + Len(next.text) + 1)
                         = Append(next.text, NEWLINE)
                    /\ \A k \in DOMAIN next.text : next.text[k] # NEWLINE
  BY DEF SameInAFileBuffer
<1> DEFINE text == SubSeq(buffer, length + 1, Len(buffer))
           lineEnds == {i \in DOMAIN text : text[i] \in {NEWLINE, NUL}}
           end  == CHOOSE i \in lineEnds : \A k \in lineEnds : i <= k
<1>1. /\ Len(file) \in Nat /\ Len(buffer) \in Nat /\ length \in Nat /\ taken \in Nat
      /\ position \in Nat /\ Len(buffer) - length = position - taken /\ position <= Len(file)
  BY LenProperties DEF LinesInv, LinesTypeOK
<1>2. \A j \in length + 1 .. Len(buffer) : buffer[j] \in Int
  <2> SUFFICES ASSUME NEW j \in length + 1 .. Len(buffer) PROVE buffer[j] \in Int
    OBVIOUS
  <2>1. j \in 1 .. Len(buffer)
    BY <1>1
  <2> QED
    BY <2>1, ElementOfSeq DEF LinesInv, LinesTypeOK
<1>3. /\ text \in Seq(Int)
      /\ Len(text) = IF length + 1 <= Len(buffer) THEN Len(buffer) - (length + 1) + 1 ELSE 0
      /\ \A k \in 1 .. Len(buffer) - (length + 1) + 1 : text[k] = buffer[(length + 1) + k - 1]
  <2>1. length + 1 \in Int /\ Len(buffer) \in Int
    BY <1>1
  <2> QED
    BY <1>2, <2>1, SubSeqProperties
<1>4. next = IF \E i \in lineEnds : text[i] = NEWLINE /\ \A k \in lineEnds : i <= k
             THEN Line(SubSeq(text, 1, end - 1)) ELSE NULL
  BY DEF getLineFromFileBuffer
<1> HIDE DEF next, text
<1>5. /\ Len(text) = position - taken /\ DOMAIN text = 1 .. position - taken
      /\ \A k \in 1 .. position - taken : text[k] = file[taken + k]
  <2>1. Len(text) = position - taken
    BY <1>1, <1>3
  <2>2. DOMAIN text = 1 .. position - taken
    BY <1>3, <2>1, LenProperties
  <2>3. ASSUME NEW k \in 1 .. position - taken PROVE text[k] = file[taken + k]
    <3>1. text[k] = buffer[length + k]
      BY <1>1, <1>3, SMTT(30)
    <3> QED
      BY <3>1 DEF LinesInv, Agrees
  <2> QED
    BY <2>1, <2>2, <2>3
<1>6. \E i \in lineEnds : text[i] = NEWLINE /\ \A k \in lineEnds : i <= k
  BY <1>4 DEF NULL
<1>7. next.text = SubSeq(text, 1, end - 1)
  BY <1>4, <1>6 DEF Line
<1>8. end \in lineEnds /\ \A k \in lineEnds : end <= k
  BY <1>6
<1> HIDE DEF end
<1>9. end \in 1 .. position - taken /\ text[end] = NEWLINE
  <2>1. PICK i \in lineEnds : text[i] = NEWLINE /\ \A k \in lineEnds : i <= k
    BY <1>6
  <2>2. i \in 1 .. position - taken /\ end \in 1 .. position - taken
    BY <1>5, <1>8
  <2>3. i <= end /\ end <= i
    BY <1>8, <2>1
  <2>4. i = end
    BY <2>2, <2>3, <1>1
  <2> QED
    BY <2>1, <2>2, <2>4
<1>10. \A k \in 1 .. end - 1 : text[k] \in Int /\ text[k] # NEWLINE
  <2> SUFFICES ASSUME NEW k \in 1 .. end - 1 PROVE text[k] \in Int /\ text[k] # NEWLINE
    OBVIOUS
  <2>1. k \in 1 .. position - taken /\ k \in 1 .. Len(text) /\ ~(end <= k)
    BY <1>1, <1>5, <1>9
  <2>2. text[k] \in Int
    BY <1>3, <2>1, ElementOfSeq
  <2> QED
    BY <1>5, <1>8, <2>1, <2>2
<1>11. /\ next.text \in Seq(Int)
       /\ Len(next.text) = IF 1 <= end - 1 THEN (end - 1) - 1 + 1 ELSE 0
       /\ \A k \in 1 .. (end - 1) - 1 + 1 : next.text[k] = text[1 + k - 1]
  <2>1. 1 \in Int /\ end - 1 \in Int
    BY <1>1, <1>9
  <2> QED
    BY <1>7, <1>10, <2>1, SubSeqProperties
<1>12. /\ Len(next.text) = end - 1 /\ DOMAIN next.text = 1 .. end - 1
       /\ \A k \in 1 .. end - 1 : next.text[k] = text[k]
  <2>1. Len(next.text) = end - 1
    BY <1>1, <1>9, <1>11
  <2>2. DOMAIN next.text = 1 .. end - 1
    BY <1>11, <2>1, LenProperties
  <2>3. \A k \in 1 .. end - 1 : next.text[k] = text[k]
    BY <1>1, <1>9, <1>11
  <2> QED
    BY <2>1, <2>2, <2>3
<1>13. SubSeq(file, taken + 1, (taken + 1) + Len(next.text)) = Append(next.text, NEWLINE)
  <2>1. /\ taken + 1 \in Nat \ {0} /\ (taken + 1) + Len(next.text) = taken + end
        /\ taken + end <= Len(file)
    BY <1>1, <1>9, <1>12
  <2>2. ASSUME NEW k \in 1 .. Len(next.text)
        PROVE  file[(taken + 1) + k - 1] = next.text[k]
    <3>1. k \in 1 .. end - 1 /\ k \in 1 .. position - taken /\ (taken + 1) + k - 1 = taken + k
      BY <1>1, <1>9, <1>12
    <3> QED
      BY <1>5, <1>12, <3>1
  <2>3. file[(taken + 1) + Len(next.text)] = NEWLINE
    BY <1>5, <1>9, <2>1
  <2> QED
    BY <1>11, <2>1, <2>2, <2>3, TextOfFile DEF LineBufferAssumption, LinesInv, LinesTypeOK
<1>14. (taken + 1) + Len(next.text) = taken + Len(next.text) + 1
  BY <1>1, <1>9, <1>12
<1> QED
  BY <1>10, <1>12, <1>13, <1>14

------------------------------------------------------------------------------
\* The lines getLine gives out are those of the file, one after another, whatever
\* the buffer's size, however the file is read and while it grows.
THEOREM LinesAreThoseOfTheFile ==
  ASSUME LineBufferAssumption
  PROVE  LineSpec => []LinesAreTheFiles
<1>1. initLineBuffer => LinesInv
  BY InitLines
<1>2. LinesInv /\ [LineNext]_lineVars => LinesInv'
  BY NextInv
<1>3. LinesInv => LinesAreTheFiles
  BY InvNothingIsLost, InvIsLineOfFile, InvSameInAFileBuffer DEF LinesAreTheFiles
<1> QED
  BY <1>1, <1>2, <1>3, PTL DEF LineSpec
===============================================================================
