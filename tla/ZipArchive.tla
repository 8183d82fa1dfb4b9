------------------------------ MODULE ZipArchive ------------------------------
(***************************************************************************)
(* Extraction of an archive by unzip of compress/ziparchive.c: the end     *)
(* record, the central directory, then each member, over the               *)
(* FileBufferList of the archive and into a tree of files.                 *)
(*                                                                         *)
(* The archive is a layout: what is at a position is identified by the     *)
(* position, so a member's data are the positions they take, and a         *)
(* checksum matches when these were read.  Reading is the contract of      *)
(* FileBuffer: a read delivers blocks in order, and those that did not     *)
(* arrive in time are what the next read delivers, whatever it asked for.  *)
(***************************************************************************)
EXTENDS FileBufferList, FileTree

CONSTANTS
    SectorSize,    \* 512 in the code; offsets of Direct I/O are multiples of it
    PageSize,      \* MEMORY_PAGE_SIZE
    TicketBytes,   \* ASYNC_AIOTICKET_MAXSIZE
    EndSize,       \* ZIP_END_OF_CDR_SIZE
    Timeouts,      \* whether a read may deliver less than it was asked for
    Inputs         \* the archives and the trees they are extracted into

\* What a header of the central directory says of its member, the checksum being
\* whether the data inflate to it, and what the end record says of the directory.
FileHeader ==
    [method : {"stored", "deflate", "other"}, compressSize : Nat, localLength : Nat,
     centralLength : Nat, localOffset : Nat, name : Seq(STRING), isDirectory : BOOLEAN,
     inflates : BOOLEAN]

EndOfCDR ==
    [entries : Seq(FileHeader), startOffset : Nat, recordSize : Nat \ {0}, endOffset : Nat,
     fileSize : Nat]

ASSUME ZipAssumption ==
    /\ SectorSize \in Nat \ {0} /\ PageSize % SectorSize = 0
    /\ TicketBytes % PageSize = 0
    /\ EndSize \in Nat \ {0} /\ Timeouts \in BOOLEAN
    /\ \A input \in Inputs : input.archive \in EndOfCDR

VARIABLES
    archive,      \* [entries, startOffset, recordSize, endOffset, fileSize]
    tree, before, \* what is extracted into, and what it was at the start
    bufferList, pending,   \* pending: the blocks that reads still owe
    fileHeaderList, i,     \* the loaded headers, and the member that is next
    at,           \* the next step, or how the program ended
    owed          \* ghost: whether a read ever delivered less than asked

vars == <<archive, tree, before, bufferList, pending, fileHeaderList, i, at, owed>>

Init ==
    /\ \E input \in Inputs : archive = input.archive /\ tree = input.tree
    /\ before = tree
    /\ bufferList = EmptyList /\ pending = << >>
    /\ fileHeaderList = << >> /\ i = 1
    /\ at = "findEndOfCDR"
    /\ owed = FALSE

\* End: "done", "crashed" when a null FileBuffer is followed, "undefined" when
\* bytes after the end of a page are interpreted, "exited" and "aborted" when
\* a library function ends the program.
Ends == {"done", "crashed", "undefined", "exited", "aborted"}
End(how) == at' = how /\ UNCHANGED <<tree, fileHeaderList, i>>

-------------------------------------------------------------------------------
(* Reading.                                                                *)

Floor(position) == (position \div SectorSize) * SectorSize

Block(offset) ==
    [fileOffset |-> offset, dataOffset |-> 0,
     numBytes |-> Max({0, Min({PageSize, archive.fileSize - offset})})]

\* The offsets of the blocks that readFileBufferList asks for.
Asked(offset, length) ==
    IF pending # << >> THEN pending
    ELSE [k \in 1 .. (Min({length, TicketBytes}) + PageSize - 1) \div PageSize |->
            offset + (k - 1) * PageSize]

Listed(offsets) ==
    FoldLeft(LAMBDA list, o : addBuffer(list, Block(o)), EmptyList, offsets)

\* What a read may leave.
Reads(offset, length) ==
    LET asked == Asked(offset, length) IN
    {[list |-> Listed(SubSeq(asked, 1, n)), pending |-> SubSeq(asked, n + 1, Len(asked)),
      owed |-> owed \/ n < Len(asked)] :
       n \in IF Timeouts THEN 0 .. Len(asked) ELSE {Len(asked)}}

\* Data that are looked up and, when the list lacks them, read from the sector
\* they begin in.  The length is then enlarged to begin there too, and used so.
Fetches(position, length) ==
    IF containsData(bufferList, position, length)
    THEN {[got |-> [list |-> bufferList, pending |-> pending, owed |-> owed],
           length |-> length]}
    ELSE LET enlarged == length + position - Floor(position) IN
         {[got |-> got, length |-> enlarged] : got \in Reads(Floor(position), enlarged)}

Got(got) == bufferList' = got.list /\ pending' = got.pending /\ owed' = got.owed

\* The place in its page of a position in the list.
PlaceInPage(list, position) ==
    position - list.values[StartIndex(list, position)].fileOffset

-------------------------------------------------------------------------------
(* findEndOfCDR, loadCentralDirectory and the reload before the members.   *)

TailOffset ==
    IF archive.fileSize > PageSize
    THEN Floor(archive.fileSize - PageSize + SectorSize - 1)
    ELSE 0

\* The end record is looked for in the last page, from its end on.  (A read whose
\* event did not arrive takes the size from an event list without events.)
findEndOfCDR ==
    LET tail == Block(TailOffset) IN
    /\ at = "findEndOfCDR"
    /\ \/ /\ Timeouts
          /\ End("undefined") /\ owed' = TRUE
          /\ UNCHANGED <<bufferList, pending>>
       \/ /\ bufferList' = addBuffer(bufferList, tail)
          /\ IF tail.numBytes > EndSize /\ archive.endOffset >= TailOffset
             THEN at' = "loadCentralDirectory" /\ UNCHANGED <<tree, fileHeaderList, i>>
             ELSE End("done")
          /\ UNCHANGED <<pending, owed>>
    /\ UNCHANGED <<archive, before>>

DirectorySize == Len(archive.entries) * archive.recordSize

\* The headers are read through one pointer, from the first buffer on.
loadCentralDirectory ==
    /\ at = "loadCentralDirectory"
    /\ \E fetched \in Fetches(archive.startOffset, DirectorySize) :
         LET list == fetched.got.list IN
         /\ Got(fetched.got)
         /\ IF ~containsData(list, archive.startOffset, fetched.length)
            THEN End("crashed")
            ELSE IF PlaceInPage(list, archive.startOffset) + DirectorySize > PageSize
            THEN End("undefined")
            ELSE /\ fileHeaderList' = archive.entries
                 /\ at' = "reload"
                 /\ UNCHANGED <<tree, i>>
    /\ UNCHANGED <<archive, before>>

\* Whether what was read last does not begin the file.
NeedsReload(list) == list.fileOffset > 0

\* The first part of the file takes the place of what was read last.
Reload ==
    /\ at = "reload"
    /\ at' = "members"
    /\ \/ /\ NeedsReload(bufferList)
          /\ \E got \in Reads(0, Min({archive.fileSize, TicketBytes})) : Got(got)
       \/ /\ ~NeedsReload(bufferList)
          /\ UNCHANGED <<bufferList, pending, owed>>
    /\ UNCHANGED <<archive, before, tree, fileHeaderList, i>>

-------------------------------------------------------------------------------
(* processFileHeaderList: one member.                                      *)

Member == fileHeaderList[i]
NextMember == i' = i + 1 /\ UNCHANGED <<at, fileHeaderList>>

\* A stored member without data is taken for a directory.
MakesDirectory(e) == e.method = "stored" /\ e.compressSize = 0

\* Whether makeDirectory has room for the components of the name.
Splits(e) == splitWithChar(e.name).state = "ok"

DirectoryMember ==
    /\ at = "members" /\ i <= Len(fileHeaderList)
    /\ MakesDirectory(Member)
    /\ \/ /\ Splits(Member)
          /\ tree' = makeDirectory(tree, Member.name, FALSE) /\ NextMember
       \/ /\ ~Splits(Member)
          /\ End("aborted")
    /\ UNCHANGED <<archive, before, bufferList, pending, owed>>

\* The positions crc32 and write walk over, and the null pointer past the last.
NULL == -1
Walked(list, position, length) ==
    LET walk == Walk(Found(list, position).values, StartIndex(list, position), length)
    IN  [k \in DOMAIN walk |->
           IF walk[k] = PastTheLast THEN NULL ELSE walk[k][1].fileOffset + walk[k][2]]

Data(e) == [k \in 1 .. e.compressSize |-> e.localOffset + e.localLength + k - 1]

\* Mutant of ChecksumMatches: the checksum is not compared.
ChecksumMatchesAny(e, read) == TRUE

\* No two different contents have the same checksum.
ChecksumMatches(e, read) == read = Data(e)

\* The file is made, written and closed; closing a file that could not be opened
\* ends the program.  (Decompressed content stands for the data it comes from.)
WriteMember(e, dirs, content) ==
    LET path == e.name IN
    IF CanCreate(dirs, path)
    THEN tree' = writeFile(createFile(dirs, path), path, content) /\ NextMember
    ELSE tree' = dirs /\ at' = "exited" /\ UNCHANGED <<fileHeaderList, i>>

\* The member's data are taken to begin where the local header of its lengths in
\* the central directory, enlarged when it was read anew, ends.
Extract(e, list, length, dirs) ==
    LET position == e.localOffset + length
        there == containsData(list, position, e.compressSize)
        read == Walked(list, position, e.compressSize)
    IN \/ /\ e.method = "other"
          /\ tree' = dirs /\ NextMember
       \/ /\ e.method = "deflate" /\ e.compressSize = 0
          /\ WriteMember(e, dirs, << >>)
       \/ /\ e.method # "other" /\ e.compressSize # 0
          /\ ~there
          /\ at' = "crashed" /\ tree' = dirs /\ UNCHANGED <<fileHeaderList, i>>
       \/ /\ e.method # "other" /\ e.compressSize # 0
          /\ there
          /\ IF ChecksumMatches(e, read) /\ (e.method = "deflate" => e.inflates)
             THEN WriteMember(e, dirs, read)
             ELSE tree' = dirs /\ NextMember

\* A local header that is read from beyond the end of its page is undefined.
FileMember ==
    /\ at = "members" /\ i <= Len(fileHeaderList)
    /\ ~MakesDirectory(Member)
    /\ \E fetched \in Fetches(Member.localOffset, Member.centralLength) :
         LET e == Member
             list == fetched.got.list IN
         /\ Got(fetched.got)
         /\ IF ~containsData(list, e.localOffset, fetched.length) THEN End("crashed")
            ELSE IF PlaceInPage(list, e.localOffset) + e.localLength > PageSize
            THEN End("undefined")
            ELSE IF ~Splits(e) THEN End("aborted")
            ELSE Extract(e, list, fetched.length, makeDirectory(tree, e.name, TRUE))
    /\ UNCHANGED <<archive, before>>

Finish ==
    /\ at = "members" /\ i > Len(fileHeaderList)
    /\ End("done")
    /\ UNCHANGED <<archive, before, bufferList, pending, owed>>

Next ==
    \/ findEndOfCDR \/ loadCentralDirectory \/ Reload
    \/ DirectoryMember \/ FileMember \/ Finish

Spec == Init /\ [][Next]_vars

-------------------------------------------------------------------------------
(* Properties.                                                             *)

Entries == ToSet(archive.entries)
OLD == -2   \* what files that were there before are made of

\* Whatever a read delivers and however the program ends, each part of a file is
\* what the file held before or that part of a member extracted to its path: none
\* is written from another place of the archive (ziparchive.c:685-697, 746-756,
\* 781-794).
NoFileIsWrong ==
    \A path \in DOMAIN tree.files : \A k \in DOMAIN tree.files[path] :
      \/ tree.files[path][k] = OLD
      \/ \E e \in Entries :
           /\ e.name = path
           /\ k <= e.compressSize /\ tree.files[path][k] = Data(e)[k]

\* The archives the code is written for: one ticket holds them and no header
\* crosses a page of it; a local header is as long as the central directory says;
\* only directories are empty and stored, and the decompressor knows the rest.
SameLength(e) == e.localLength = e.centralLength
OnOnePage(offset, length) == (offset % PageSize) + length <= PageSize
Plain ==
    /\ archive.fileSize <= TicketBytes
    /\ \/ archive.fileSize <= PageSize
       \/ archive.startOffset >= TailOffset
    /\ \A e \in Entries :
         /\ SameLength(e) /\ OnOnePage(e.localOffset, e.localLength)
         /\ e.isDirectory <=> MakesDirectory(e)
         /\ e.method # "other" /\ (e.method = "deflate" => e.inflates)
         /\ Splits(e)
    /\ before = EmptyTree

Above(e) ==
    {Prefix(e.name, n) : n \in 1 .. Len(e.name) - (IF e.isDirectory THEN 0 ELSE 1)}

\* Done, with every directory above a member and the content of every file.
Extracted ==
    /\ at \notin Ends \ {"done"}
    /\ at = "done" =>
         /\ tree.dirs = UNION {Above(e) : e \in Entries}
         /\ DOMAIN tree.files = {e.name : e \in {e \in Entries : ~e.isDirectory}}
         /\ \A e \in Entries : ~e.isDirectory => tree.files[e.name] = Data(e)

===============================================================================
