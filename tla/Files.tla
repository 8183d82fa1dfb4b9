------------------------------- MODULE Files -------------------------------
(***************************************************************************)
(* io/file.c, io/shell.c, the writers of io/filebuffer.c and               *)
(* compress/iobuffer.c, the opening of an AIOFile and userinput.c: files,  *)
(* links, the output of commands and lines from a terminal, and what a     *)
(* program makes of them while calls fail, write less than they are given, *)
(* and other processes change what is there.  In each behaviour the        *)
(* program has one task.  A character is a digit, Newline or Word, which   *)
(* stands for a word that is no number.                                    *)
(***************************************************************************)
EXTENDS Integers, Sequences, SequencesExt

CONSTANTS
    Contents,     \* what a file may hold, or a link lead to, at any time
    Chains,       \* FileBuffers, or one OutputBuffer: sequences of [data, dataOffset]
    BufferSize,   \* the buffer of read_uint64: 32 in the code
    SlabSize,     \* SLABPOOL_SLAB_SIZE
    PointerSize,  \* sizeof(char *)
    MaxEvents     \* bound: calls that fail or write less, and changes by others

Newline == -3
Word    == -4
Garbage == -5        \* what malloc found in a byte
Absent  == <<-6>>    \* no file
Closed  == -1        \* SYSTEM_ERROR_CODE for a descriptor
Opened  == 3

VARIABLES
    task,      \* one of Tasks
    options,   \* [access, truncates, data, permits]: flags, what is to be written, and rights
    allowed,   \* access(2) was asked first, and said yes
    file,      \* what the file holds, or the link's target
    before,    \* what the file held when it was opened
    chain, length, offset,   \* FileBuffers and bytes left to write, and where
    fd, stamped,
    status,    \* the size that lstat said
    answer,    \* what the function returned
    seen,      \* ghost: what was there when it was read
    events,    \* ghost: how many of those there were
    at         \* the next step, or how the task ended

vars == <<task, options, allowed, file, before, chain, length, offset, fd, stamped, status, answer,
          seen, events, at>>

N == INSTANCE Numbers WITH WordBits <- 20, Powers <- 6

Tasks == {"write", "output", "number", "link", "command", "topology", "input", "aio"}
Writes == task \in {"write", "output"}

Smaller(n, m) == IF n < m THEN n ELSE m
Exits == at' = "exited"
Event == events < MaxEvents /\ events' = events + 1

\* What the buffers of a chain have to be written.
Flat(buffers) ==
    FoldLeft(LAMBDA text, b : text \o SubSeq(b.data, b.dataOffset + 1, Len(b.data)), << >>, buffers)

\* A member of an archive may be longer or shorter than what it is inflated to.
Wanted(buffers) ==
    CASE task = "write" -> {SubSeq(Flat(buffers), 1, n) : n \in 0 .. Len(Flat(buffers))}
      [] task = "output" -> {SubSeq(Head(buffers).data, 1, n) : n \in 0 .. Len(Head(buffers).data)}
                            \cup {Append(Head(buffers).data, 7)}
      [] OTHER -> {<< >>}

Init ==
    /\ task \in Tasks
    /\ chain \in CASE task = "write" -> Chains
                   [] task = "output" -> {c \in Chains : Len(c) = 1 /\ Len(c[1].data) <= SlabSize}
                   [] OTHER -> {<< >>}
    /\ options \in [access : IF Writes THEN {"FOPEN_WRITEONLY", "FOPEN_READONLY"} ELSE {"FOPEN_READONLY"},
                    truncates : IF Writes THEN BOOLEAN ELSE {FALSE},
                    data : Wanted(chain),
                    permits : IF task = "number" THEN {{}, {"R_OK"}} ELSE {{"R_OK"}}]
    /\ allowed = FALSE
    /\ file \in IF task \in {"command", "topology"}
                THEN {c \in Contents : c # Absent /\ Newline \notin ToSet(c)}
                ELSE Contents
    /\ before = file
    /\ length = Len(options.data)
    /\ offset = 0 /\ fd = Closed /\ stamped = FALSE
    /\ status = 0 /\ answer = << >> /\ seen = << >>
    /\ events = 0
    /\ at = IF task = "output" THEN "check" ELSE "open"

Unwritten == UNCHANGED <<chain, length, offset>>
Unread    == UNCHANGED <<status, answer, seen>>

------------------------------------------------------------------------------
(* Writing a file: createFile, ce97d170_write or c49f5b0d_write, setTimestamp *)
(* and closeFile.                                                             *)

\* c49f5b0d_crc32: the bytes of the slab that it runs over, of the length the
\* member says, and those that were there before behind what was inflated.
crc32(data, size) ==
    SubSeq(data \o [i \in 1 .. SlabSize - Len(data) |-> Garbage], 1, Smaller(SlabSize, size))

ChecksumOf == crc32(Head(chain).data, length)

\* Nothing is written of a member whose data have another checksum.
CheckOutput ==
    /\ task = "output" /\ at = "check"
    /\ at' = IF ChecksumOf = options.data THEN "open" ELSE "refused"
    /\ Unwritten /\ Unread /\ UNCHANGED <<task, options, allowed, file, before, fd, stamped, events>>

\* open with O_CREAT: the file is there with what it held, or nothing.
Created ==
    IF file = Absent \/ options.truncates THEN << >> ELSE file

\* A file that cannot be created is told to the caller, who goes on with -1;
\* nothing is opened to be read only.
createFile ==
    /\ Writes /\ at = "open"
    /\ \/ /\ options.access # "FOPEN_READONLY"
          /\ fd' = Opened /\ file' = Created /\ UNCHANGED events
       \/ /\ options.access = "FOPEN_READONLY"
          /\ UNCHANGED <<fd, file, events>>
       \/ /\ options.access # "FOPEN_READONLY" /\ Event
          /\ UNCHANGED <<fd, file>>
    /\ before' = file'
    /\ at' = "write"
    /\ Unwritten /\ Unread /\ UNCHANGED <<task, options, allowed, stamped>>

Over(text, start, bytes) ==
    LET end == start + Len(bytes)
    IN  SubSeq(text, 1, start) \o bytes \o SubSeq(text, end + 1, Len(text))

\* The outcomes of writeFile: an error is printed and returned.
writeFile(bytes) ==
    \/ /\ fd # Closed
       /\ file' = Over(file, offset, bytes) /\ offset' = offset + Len(bytes)
       /\ UNCHANGED events
    \/ /\ fd # Closed /\ Event
       /\ \E n \in 0 .. Len(bytes) - 1 :
            /\ file' = Over(file, offset, SubSeq(bytes, 1, n))
            /\ offset' = offset + n
    \/ /\ fd = Closed
       /\ UNCHANGED <<file, offset, events>>

\* A mutant for the runs: each buffer is written from its beginning.
PieceFromStart(buffer, left) == SubSeq(buffer.data, 1, Smaller(left, Len(buffer.data)))

\* What a buffer has of the data, and no more than is left.
Piece(buffer, left) ==
    SubSeq(buffer.data, buffer.dataOffset + 1, Smaller(Len(buffer.data), buffer.dataOffset + left))

\* One turn of ce97d170_write.  How much was written is not looked at.
WriteFileBuffer ==
    /\ task = "write" /\ at = "write" /\ length > 0
    /\ LET piece == Piece(Head(chain), length) IN
       /\ writeFile(piece)
       /\ length' = length - Len(piece)
    /\ chain' = Tail(chain)
    /\ Unread /\ UNCHANGED <<task, options, allowed, before, fd, stamped, at>>

\* c49f5b0d_write: the first OutputBuffer of a chain.
WriteOutputBuffer ==
    /\ task = "output" /\ at = "write" /\ chain # << >>
    /\ writeFile(Head(chain).data)
    /\ chain' = << >> /\ length' = 0
    /\ Unread /\ UNCHANGED <<task, options, allowed, before, fd, stamped, at>>

\* A timestamp that cannot be set is printed.
setTimestamp ==
    /\ Writes /\ at = "write" /\ length = 0 /\ (task = "output" => chain = << >>)
    /\ \/ stamped' = (fd # Closed) /\ UNCHANGED events
       \/ fd # Closed /\ Event /\ UNCHANGED stamped
    /\ at' = "close"
    /\ Unwritten /\ Unread /\ UNCHANGED <<task, options, allowed, file, before, fd>>

\* A descriptor that cannot be closed ends the program, and so does -1.
closeFile ==
    /\ Writes /\ at = "close"
    /\ \/ fd # Closed /\ at' = "done" /\ fd' = Closed /\ UNCHANGED events
       \/ fd = Closed /\ Exits /\ UNCHANGED <<fd, events>>
       \/ fd # Closed /\ Event /\ Exits /\ UNCHANGED fd
    /\ Unwritten /\ Unread /\ UNCHANGED <<task, options, allowed, file, before, stamped>>

------------------------------------------------------------------------------
(* What a careful caller asks first. *)

isAccessible(mode) == file # Absent /\ (mode = "F_OK" \/ mode \in options.permits)
fileExists == isAccessible("F_OK")
isReadable == isAccessible("R_OK")

\* The answer is that of the moment: the caller opens the file, or reads the
\* link, in a later step.
AskFirst ==
    /\ task \in {"number", "link"} /\ at = "open" /\ ~allowed
    /\ allowed' = IF task = "number" THEN isReadable ELSE fileExists
    /\ at' = IF allowed' THEN at ELSE "refused"
    /\ Unwritten /\ Unread /\ UNCHANGED <<task, options, file, before, fd, stamped, events>>

------------------------------------------------------------------------------
(* read_uint64: the number in a file. *)

openFile ==
    /\ task = "number" /\ at = "open"
    /\ \/ isReadable /\ fd' = Opened /\ at' = "read" /\ UNCHANGED events
       \/ ~isReadable /\ Exits /\ UNCHANGED <<fd, events>>
       \/ isReadable /\ Event /\ Exits /\ UNCHANGED fd
    /\ Unwritten /\ Unread /\ UNCHANGED <<task, options, allowed, file, before, stamped>>

\* The last character is taken for the newline.
NumberIn(text) ==
    IF text = << >> THEN 0 ELSE N!parse_uint64_ssize(text, Len(text) - 1)

\* What is not a number aborts the program, after the file was closed.
read_uint64 ==
    /\ task = "number" /\ at = "read"
    /\ LET text == SubSeq(file, 1, Smaller(BufferSize, Len(file)))
       IN  \/ /\ seen' = file /\ answer' = <<NumberIn(text)>>
              /\ at' = IF NumberIn(text) = N!Invalid THEN "aborted" ELSE "done"
              /\ UNCHANGED events
           \/ Event /\ Exits /\ UNCHANGED <<seen, answer>>
    /\ fd' = Closed
    /\ Unwritten /\ UNCHANGED <<task, options, allowed, file, before, stamped, status>>

------------------------------------------------------------------------------
(* A link: getLinkStatus, and readlink of the size it said.  (Some file     *)
(* systems say 0; getFileStatus and getDescriptorStatus are told the same.) *)

getLinkStatus ==
    /\ task = "link" /\ at = "open"
    /\ \/ /\ file # Absent
          /\ status' \in {0, Len(file)}
          /\ at' = "read"
       \/ file = Absent /\ Exits /\ UNCHANGED status
    /\ Unwritten
    /\ UNCHANGED <<task, options, allowed, file, before, fd, stamped, answer, seen, events>>

\* The text that a caller finds in the memory: the target as far as there is
\* room for it, and a NUL at the size that lstat said, wherever the target ends.
TextRead(target, size) ==
    SubSeq(target, 1, Smaller(Len(target), size))
      \o [i \in 1 .. size - Smaller(Len(target), size) |-> Garbage]

readlink ==
    /\ task = "link" /\ at = "read"
    /\ \/ /\ file # Absent
          /\ seen' = file /\ answer' = TextRead(file, status)
          /\ at' = "done"
       \/ file = Absent /\ Exits /\ UNCHANGED <<seen, answer>>
    /\ Unwritten /\ UNCHANGED <<task, options, allowed, file, before, fd, stamped, status, events>>

\* The C library follows the links of a path; one that leads nowhere ends the program.
realpath ==
    /\ task = "link" /\ at = "open"
    /\ \/ /\ file # Absent
          /\ seen' = file /\ answer' = file /\ status' = Len(file)
          /\ at' = "done"
       \/ file = Absent /\ Exits /\ Unread
    /\ Unwritten /\ UNCHANGED <<task, options, allowed, file, before, fd, stamped, events>>

------------------------------------------------------------------------------
(* A command: openShellForRead, readInt and readString, closeShell.         *)

openShellForRead ==
    /\ task \in {"command", "topology"} /\ at = "open"
    /\ \/ fd' = Opened /\ at' = "read" /\ UNCHANGED events
       \/ Event /\ Exits /\ UNCHANGED fd
    /\ Unwritten /\ Unread /\ UNCHANGED <<task, options, allowed, file, before, stamped>>

ItemsLeft == SubSeq(file, offset + 1, Len(file))

\* The end of the output ends the program; a word is left where it is, and what
\* is returned is what the memory held.
readInt ==
    /\ at = "read"
    /\ \/ task = "command" /\ Len(answer) < Len(file) + 2
       \/ task = "topology" /\ Len(answer) < 2
    /\ \/ ItemsLeft = << >> /\ Exits /\ UNCHANGED <<offset, answer>>
       \/ /\ ItemsLeft # << >>
          /\ IF Head(ItemsLeft) = Word
             THEN answer' = Append(answer, Garbage) /\ UNCHANGED offset
             ELSE answer' = Append(answer, Head(ItemsLeft)) /\ offset' = offset + 1
          /\ UNCHANGED at
    /\ UNCHANGED <<task, options, allowed, file, before, chain, length, fd, stamped, status, seen, events>>

readString ==
    /\ task = "command" /\ at = "read"
    /\ \/ ItemsLeft = << >> /\ Exits /\ UNCHANGED <<offset, answer>>
       \/ /\ ItemsLeft # << >>
          /\ answer' = Append(answer, Head(ItemsLeft)) /\ offset' = offset + 1
          /\ UNCHANGED at
    /\ UNCHANGED <<task, options, allowed, file, before, chain, length, fd, stamped, status, seen, events>>

\* getCoreTopology closes the command behind its two numbers.
closeShell ==
    /\ task = "command" \/ (task = "topology" /\ Len(answer) = 2)
    /\ at = "read"
    /\ at' = "done" /\ fd' = Closed
    /\ Unwritten /\ Unread /\ UNCHANGED <<task, options, allowed, file, before, stamped, events>>

\* getCoreTopology: threads per core and cores.
numLogicalProcs == answer[1] * answer[2]

------------------------------------------------------------------------------
(* An AIOFile, and a number that a user types.                              *)

\* The size fstat says; of no descriptor the FileStatus stays as it was found,
\* and the caller is told.
getDescriptorStatus(descriptor) ==
    IF descriptor = Closed THEN Garbage ELSE Len(file)

\* f1207515_open does not listen: it goes on with a file it could not open.
openAIOFile ==
    /\ task = "aio" /\ at = "open"
    /\ \/ file # Absent /\ fd' = Opened /\ UNCHANGED events
       \/ file = Absent /\ fd' = Closed /\ UNCHANGED events
       \/ file # Absent /\ Event /\ fd' = Closed
    /\ status' = getDescriptorStatus(fd')
    /\ at' = "done"
    /\ Unwritten /\ UNCHANGED <<task, options, allowed, file, before, stamped, answer, seen>>

\* f1207515_create looks at no size.
createAIOFile ==
    /\ task = "aio" /\ at = "open"
    /\ \/ fd' = Opened /\ file' = Created /\ status' = 0 /\ UNCHANGED events
       \/ Event /\ fd' = Closed /\ UNCHANGED <<file, status>>
    /\ at' = "done"
    /\ Unwritten /\ UNCHANGED <<task, options, allowed, before, stamped, answer, seen>>

\* The digits a text begins with.
LeadingDigits(text) ==
    {n \in 0 .. Len(text) : \A i \in 1 .. n : text[i] \in 0 .. 9}
Digits(text) == SubSeq(text, 1, CHOOSE n \in LeadingDigits(text) :
                                   \A m \in LeadingDigits(text) : m <= n)

\* What fgets takes of a line: sizeof(line) is that of a pointer.
LineTaken(text) == SubSeq(text, 1, Smaller(PointerSize - 1, Len(text)))

\* sscanf of what was taken, and NULL at the end of the input, which it follows.
userInput ==
    /\ task = "input" /\ at = "open" /\ file # Absent
    /\ seen' = file
    /\ IF file = << >> THEN at' = "crashed" /\ UNCHANGED answer
       ELSE at' = "done" /\ answer' = Digits(LineTaken(file))
    /\ Unwritten /\ UNCHANGED <<task, options, allowed, file, before, fd, stamped, status, events>>

------------------------------------------------------------------------------
\* Another process writes the file anew, or leads the link elsewhere.
Changed ==
    /\ task \in {"number", "link"} /\ at \in {"open", "read"} /\ Event
    /\ file' \in IF fd = Closed THEN Contents ELSE Contents \ {Absent}
    /\ Unwritten /\ Unread /\ UNCHANGED <<task, options, allowed, before, fd, stamped, at>>

Next ==
    \/ CheckOutput \/ createFile \/ WriteFileBuffer \/ WriteOutputBuffer \/ setTimestamp \/ closeFile
    \/ AskFirst \/ openFile \/ read_uint64 \/ getLinkStatus \/ readlink \/ realpath
    \/ openShellForRead \/ readInt \/ readString \/ closeShell
    \/ openAIOFile \/ createAIOFile \/ userInput
    \/ Changed

Spec == Init /\ [][Next]_vars

------------------------------------------------------------------------------
(* What a reader or a writer may rely on.                                   *)

IsDecimal(text) == \A i \in DOMAIN text : text[i] \in 0 .. 9
Decimal(text) == FoldLeft(LAMBDA n, d : 10 * n + d, 0, text)

\* A file that was written holds the data, and behind them what was there unless
\* it was cut off; only a call that failed or wrote less can change that, or a
\* member that is inflated to more than it says.
WrittenWhole ==
    Writes /\ at = "done" /\ events = 0 =>
       /\ SubSeq(file, 1, Len(options.data)) = options.data
       /\ offset >= Len(options.data)
       /\ SubSeq(file, offset + 1, Len(file)) = SubSeq(before, offset + 1, Len(before))
       /\ task = "write" => offset = Len(options.data)
       /\ stamped

\* A number is that of the text that was there when it was read, if it is a line
\* that the buffer holds.
NumberIsWhole ==
    task = "number" /\ at = "done" =>
       \A n \in 0 .. BufferSize - 1 :
          (Len(seen) = n + 1 /\ IsDecimal(SubSeq(seen, 1, n)) /\ seen[n + 1] = Newline)
             => answer = <<Decimal(SubSeq(seen, 1, n))>>

\* The text of a link is where it led exactly when the size that lstat said is
\* the size it had then.
LinkIsWhole ==
    task = "link" /\ at = "done" => (answer = seen <=> status = Len(seen))

\* A command's numbers are read in order as long as there is no word between.
ItemsInOrder ==
    /\ task \in {"command", "topology"} /\ Garbage \notin ToSet(answer) =>
         answer = SubSeq(file, 1, Len(answer))
    /\ task = "topology" /\ at = "done" /\ Garbage \notin ToSet(answer) =>
         numLogicalProcs = file[1] * file[2]

\* A number typed is the one that is read as long as its line is shorter than a
\* pointer, and an AIOFile that is open has the size of its file.
InputIsWhole ==
    /\ task = "input" /\ at = "done" /\ Len(Digits(seen)) < PointerSize => answer = Digits(seen)
    /\ task = "aio" /\ at = "done" => (status = Garbage => fd = Closed)

\* Whoever asked first, and was told yes, ends the program only if something
\* failed or changed in between.
AllowedIsOpened ==
    allowed /\ events = 0 => at # "exited"

\* A file holds what was written, and a number, a link, a command's output and a
\* line are read as they are, up to what failed, changed or was cut short
\* (file.c:221-318, filebuffer.c:401-415, iobuffer.c:296-299, shell.c:48-82).
ReadsAndWritesAreWhole ==
    /\ WrittenWhole /\ NumberIsWhole /\ LinkIsWhole /\ ItemsInOrder /\ InputIsWhole
    /\ AllowedIsOpened
=============================================================================
