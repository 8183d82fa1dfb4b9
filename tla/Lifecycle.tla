----------------------------- MODULE Lifecycle -----------------------------
(***************************************************************************)
(* The create, destroy, init and cleanUp functions of the library: which   *)
(* memory, slabs, pages and descriptors a struct takes, what its use adds  *)
(* to them, and what its end gives back.  "create" allocates the struct as *)
(* well and ends with "destroy"; "init" fills in a struct of the caller    *)
(* and ends with "cleanUp".  A holding counts the parts of each sort; one  *)
(* below zero was given back without being there.                          *)
(***************************************************************************)
EXTENDS Integers, FiniteSets

CONSTANT MaxUses   \* bound: how often a struct is used before its end

VARIABLES
    kind, form,    \* the struct, and "create" or "init"
    held,          \* what it holds: sorts of parts to how many
    uses,
    at             \* "made", "ended" or "exited"

vars == <<kind, form, held, uses, at>>

Sorts == {"struct", "array", "buffer", "element", "node", "list", "slab", "page", "pooled",
          "context", "descriptor", "write end", "scratch", "wild"}

Nothing == [s \in Sorts |-> 0]
Take(h, sorts) == [s \in Sorts |-> IF s \in sorts THEN h[s] + 1 ELSE h[s]]
Give(h, sorts) == [s \in Sorts |-> IF s \in sorts THEN h[s] - 1 ELSE h[s]]
GiveAll(h, sort) == [h EXCEPT ![sort] = 0]

\* if (pointer != NULL) free(pointer)
GiveIfThere(h, sort) == IF h[sort] > 0 THEN Give(h, {sort}) ELSE h

------------------------------------------------------------------------------
(* adt *)
initHashMap(h)    == Take(h, {"array"})
cleanUpHashMap(h) == Give(GiveAll(h, "element"), {"array"})

\* The table is as malloc found it; the clear that ends the map follows whatever
\* pointers are there.
createHashMap(h)  == {Take(h, {"struct", "array"}), Take(h, {"struct", "array", "wild"})}
destroyHashMap(h) == Give([GiveAll(h, "wild") EXCEPT !["element"] = -h["wild"]], {"array", "struct"})

createListArrayWithSize(h) == Take(h, {"struct", "array"})
initListArrayWithSize(h)   == Take(h, {"array"})
initListArray(h)           == Take(h, {"array"})

\* freeElement is called of every element; the values may never have been
\* allocated where a list begins as zeros.
destroyListArray(h) == Give(GiveIfThere(GiveAll(h, "element"), "array"), {"struct"})


cleanUpListArray(h) == GiveIfThere(GiveAll(h, "element"), "array")

createStackArray(h)      == Take(h, {"struct", "array"})
createStackArray_size(h) == Take(h, {"struct", "array"})
destroyStackArray(h)     == Give(h, {"array", "struct"})
initStackArray_size(h)   == Take(h, {"array"})
cleanUpStackArray(h)     == GiveIfThere(GiveAll(h, "element"), "array")

createUnsignedIntArray(h)  == Take(h, {"struct", "array"})
destroyUnsignedIntArray(h) == Give(h, {"array", "struct"})
initUnsignedIntArray(h)    == Take(h, {"array"})
cleanUpUnsignedIntArray(h) == Give(h, {"array"})

createQueueBounded(h)  == Take(h, {"struct"})
destroyQueueBounded(h) == Give(h, {"struct"})
createVararg(h)  == Take(h, {"struct"})
destroyVararg(h) == Give(h, {"struct"})

(* lang *)
createStringBuilder(h)  == Take(h, {"struct", "buffer"})
destroyStringBuilder(h) == Give(h, {"buffer", "struct"})
initStringBuilder(h)    == Take(h, {"buffer"})
cleanUpStringBuilder(h) == Give(h, {"buffer"})
createString(h)  == Take(h, {"struct", "buffer"})
cloneString(h)   == createString(h)
destroyString(h) == Give(h, {"buffer", "struct"})

(* fs: a Directory's lists are allocated when the first name comes *)
createDirectory(h)  == Take(h, {"struct"})
initDirectory(h)    == h
createFile(h) == Take(h, {"element"})
addFile(h)    == createFile(IF h["array"] = 0 THEN initListArray(h) ELSE h)
addSubdir(h)  == Take(IF h["list"] = 0 THEN Take(h, {"list"}) ELSE h, {"node"})

\* Every subdirectory is destroyed in the same way; the list of them gives no
\* element back itself.
cleanUpDirectory(h) == GiveIfThere(cleanUpListArray(GiveAll(h, "node")), "list")
destroyDirectory(h) == Give(cleanUpDirectory(h), {"struct"})

createDirPath(h)  == Take(h, {"struct", "buffer"})
destroyDirPath(h) == Give(h, {"buffer", "struct"})
initDirPath(h)    == Take(h, {"buffer"})
cleanUpDirPath(h) == Give(h, {"buffer"})

createFilePathList(h)  == Take(h, {"struct", "array"})
destroyFilePathList(h) == destroyListArray(h)
initFilePathList(h)    == Take(h, {"array"})
cleanUpFilePathList(h) == Give(h, {"array"})

(* log: a line's fields are strings that are allocated when they are read *)
createLogLine(h)  == Take(h, {"struct"})
destroyLogLine(h) == Give(GiveAll(h, "element"), {"struct"})

(* compress: the head of a chain of OutputBuffers, and those behind it *)
createOutputBuffer(h)  == Take(h, {"node", "slab"})
destroyOutputBuffer(h) == GiveAll(GiveAll(h, "slab"), "node")
initOutputBuffer(h)    == Take(h, {"slab"})
cleanUpOutputBuffer(h) == GiveAll(h, "slab")

createInputBuffer(h)  == Take(h, {"struct"})
destroyInputBuffer(h) == Give(h, {"struct"})
createInflate(h)  == initOutputBuffer(Take(h, {"struct"}))
destroyInflate(h) == Give(cleanUpOutputBuffer(h), {"struct"})
initInflate(h)    == initOutputBuffer(h)
cleanUpInflate(h) == cleanUpOutputBuffer(h)

createHuffmanDecoder(h)  == Take(h, {"struct"})
destroyHuffmanDecoder(h) == Give(h, {"struct"})

createFileHeader(h)       == Take(h, {"struct"})
destroyFileHeader(h)      == Give(GiveIfThere(GiveIfThere(GiveIfThere(h, "element"), "list"), "buffer"), {"struct"})
createLocalFileHeader(h)  == Take(h, {"struct"})
destroyLocalFileHeader(h) == Give(GiveIfThere(GiveIfThere(h, "element"), "list"), {"struct"})

\* Its headers, and the comment and the signature if they were there.
initZipFormat(h)    == initListArray(h)
cleanUpZipFormat(h) == GiveIfThere(GiveIfThere(cleanUpListArray(h), "list"), "buffer")

createZipArchive(h)  == Take(h, {"struct"})
destroyZipArchive(h) == Give(h, {"struct"})

(* io: the buffers of a list come out of the pool, and so do their pages *)
initFileBuffer(h)       == Take(h, {"page"})
createFileBufferList(h) == Take(h, {"struct", "array"})
initFileBufferList(h)   == Take(h, {"array"})
addBuffer(h)            == initFileBuffer(Take(h, {"pooled"}))

\* free of a FileBuffer, wherever it came from.
destroyFileBufferList(h) ==
    Give([GiveAll(h, "page") EXCEPT !["element"] = @ - h["pooled"]], {"array", "struct"})

cleanUpFileBufferList(h) == Give(GiveAll(GiveAll(h, "page"), "pooled"), {"array"})

initZipArchive(h)    == Take(initFileBufferList(h), {"descriptor"})
cleanUpZipArchive(h) == cleanUpFileBufferList(Give(h, {"descriptor"}))

createAIOContext(h)  == Take(Take(h, {"context", "struct"}), {"array"})
initAIOContext(h)    == Take(h, {"context", "array"})
destroyAIOContext(h) == Give(h, {"context", "array", "struct"})
cleanUpAIOContext(h) == Give(h, {"context", "array"})

createPipe(h) == Take(h, {"descriptor", "write end"})
closeRead(h)  == Give(h, {"descriptor"})
closeWrite(h) == Give(h, {"write end"})
closePipe(h)  == closeWrite(closeRead(h))

openShellForRead(h) == Take(h, {"descriptor"})
closeShell(h)       == Give(h, {"descriptor"})

(* socket *)
createIOBuffer(h)       == Take(h, {"list", "buffer"})
destroyIOBuffer(h)      == Give(h, {"list", "buffer"})
createNetlinkSocket(h)  == createIOBuffer(Take(h, {"struct"}))
destroyNetlinkSocket(h) == Give(destroyIOBuffer(h), {"struct"})
open(h)  == Take(h, {"descriptor"})
close(h) == Give(h, {"descriptor"})
openIPv4Socket(h)  == Take(h, {"descriptor"})
closeIPv4Socket(h) == Give(h, {"descriptor"})
openUnixSocket(h)  == Take(h, {"descriptor"})
closeUnixSocket(h) == Give(h, {"descriptor"})

(* net *)
createEthernet(h)  == Take(h, {"struct"})
destroyEthernet(h) == Give(h, {"struct"})

(* sysfs: channelsInUse is a list of the function's own *)
createMemoryArray(h)  == Take(h, {"struct", "list", "buffer", "scratch"})
destroyMemoryArray(h) == Give(h, {"list", "buffer", "struct"})

------------------------------------------------------------------------------
Holds(k, f, h) == [kind |-> k, form |-> f, held |-> h]

\* What there is of each struct after it was made.
Made ==
    {Holds("HashMap", "init", initHashMap(Nothing)),
     Holds("ListArray", "create", createListArrayWithSize(Nothing)),
     Holds("ListArray", "init", initListArrayWithSize(Nothing)),
     Holds("StackArray", "create", createStackArray(Nothing)),
     Holds("StackArray", "create", createStackArray_size(Nothing)),
     Holds("StackArray", "init", initStackArray_size(Nothing)),
     Holds("UnsignedIntArray", "create", createUnsignedIntArray(Nothing)),
     Holds("UnsignedIntArray", "init", initUnsignedIntArray(Nothing)),
     Holds("QueueBounded", "create", createQueueBounded(Nothing)),
     Holds("Vararg", "create", createVararg(Nothing)),
     Holds("StringBuilder", "create", createStringBuilder(Nothing)),
     Holds("StringBuilder", "init", initStringBuilder(Nothing)),
     Holds("String", "create", createString(Nothing)),
     Holds("String", "create", cloneString(Nothing)),
     Holds("Directory", "create", createDirectory(Nothing)),
     Holds("Directory", "init", initDirectory(Nothing)),
     Holds("DirPath", "create", createDirPath(Nothing)),
     Holds("DirPath", "init", initDirPath(Nothing)),
     Holds("FilePathList", "create", createFilePathList(Nothing)),
     Holds("FilePathList", "init", initFilePathList(Nothing)),
     Holds("OutputBuffer", "create", createOutputBuffer(Nothing)),
     Holds("OutputBuffer", "init", initOutputBuffer(Nothing)),
     Holds("InputBuffer", "create", createInputBuffer(Nothing)),
     Holds("Inflate", "create", createInflate(Nothing)),
     Holds("Inflate", "init", initInflate(Nothing)),
     Holds("HuffmanDecoder", "create", createHuffmanDecoder(Nothing)),
     Holds("FileHeader", "create", createFileHeader(Nothing)),
     Holds("LocalFileHeader", "create", createLocalFileHeader(Nothing)),
     Holds("ZipFormat", "init", initZipFormat(Nothing)),
     Holds("ZipArchive", "create", initZipArchive(createZipArchive(Nothing))),
     Holds("ZipArchive", "init", initZipArchive(Nothing)),
     Holds("FileBufferList", "create", createFileBufferList(Nothing)),
     Holds("FileBufferList", "init", initFileBufferList(Nothing)),
     Holds("AIOContext", "create", createAIOContext(Nothing)),
     Holds("AIOContext", "init", initAIOContext(Nothing)),
     Holds("Pipe", "init", createPipe(Nothing)),
     Holds("Shell", "init", openShellForRead(Nothing)),
     Holds("NetlinkSocket", "create", open(createNetlinkSocket(Nothing))),
     Holds("IPv4Socket", "init", openIPv4Socket(Nothing)),
     Holds("UnixSocket", "init", openUnixSocket(Nothing)),
     Holds("LogLine", "create", createLogLine(Nothing)),
     Holds("Ethernet", "create", createEthernet(Nothing)),
     Holds("MemoryArray", "create", createMemoryArray(Nothing))}
    \cup {Holds("HashMap", "create", h) : h \in createHashMap(Nothing)}

Destroyed(h) ==
    CASE kind = "HashMap"          -> destroyHashMap(h)
      [] kind = "ListArray"        -> destroyListArray(h)
      [] kind = "StackArray"       -> destroyStackArray(h)
      [] kind = "UnsignedIntArray" -> destroyUnsignedIntArray(h)
      [] kind = "QueueBounded"     -> destroyQueueBounded(h)
      [] kind = "Vararg"           -> destroyVararg(h)
      [] kind = "StringBuilder"    -> destroyStringBuilder(h)
      [] kind = "String"           -> destroyString(h)
      [] kind = "Directory"        -> destroyDirectory(h)
      [] kind = "DirPath"          -> destroyDirPath(h)
      [] kind = "FilePathList"     -> destroyFilePathList(h)
      [] kind = "OutputBuffer"     -> destroyOutputBuffer(h)
      [] kind = "InputBuffer"      -> destroyInputBuffer(h)
      [] kind = "Inflate"          -> destroyInflate(h)
      [] kind = "HuffmanDecoder"   -> destroyHuffmanDecoder(h)
      [] kind = "FileHeader"       -> destroyFileHeader(h)
      [] kind = "LocalFileHeader"  -> destroyLocalFileHeader(h)
      [] kind = "ZipArchive"       -> destroyZipArchive(cleanUpZipArchive(h))
      [] kind = "FileBufferList"   -> destroyFileBufferList(h)
      [] kind = "AIOContext"       -> destroyAIOContext(h)
      [] kind = "NetlinkSocket"    -> destroyNetlinkSocket(close(h))
      [] kind = "LogLine"          -> destroyLogLine(h)
      [] kind = "Ethernet"         -> destroyEthernet(h)
      [] kind = "MemoryArray"      -> destroyMemoryArray(h)

CleanedUp(h) ==
    CASE kind = "HashMap"          -> cleanUpHashMap(h)
      [] kind = "ListArray"        -> cleanUpListArray(h)
      [] kind = "StackArray"       -> cleanUpStackArray(h)
      [] kind = "UnsignedIntArray" -> cleanUpUnsignedIntArray(h)
      [] kind = "StringBuilder"    -> cleanUpStringBuilder(h)
      [] kind = "Directory"        -> cleanUpDirectory(h)
      [] kind = "DirPath"          -> cleanUpDirPath(h)
      [] kind = "FilePathList"     -> cleanUpFilePathList(h)
      [] kind = "OutputBuffer"     -> cleanUpOutputBuffer(h)
      [] kind = "Inflate"          -> cleanUpInflate(h)
      [] kind = "ZipFormat"        -> cleanUpZipFormat(h)
      [] kind = "ZipArchive"       -> cleanUpZipArchive(h)
      [] kind = "FileBufferList"   -> cleanUpFileBufferList(h)
      [] kind = "AIOContext"       -> cleanUpAIOContext(h)
      [] kind = "Pipe"             -> closePipe(h)
      [] kind = "Shell"            -> closeShell(h)
      [] kind = "IPv4Socket"       -> closeIPv4Socket(h)
      [] kind = "UnixSocket"       -> closeUnixSocket(h)

\* A part that is allocated once, when it is there.
Optional(h, sorts) == {Take(h, {s}) : s \in {t \in sorts : h[t] = 0}}

\* What one use may make of a holding.
Used(h) ==
    CASE kind \in {"HashMap", "ListArray", "StackArray", "FilePathList", "LogLine"} ->
           {Take(h, {"element"})}
      [] kind = "Directory"       -> {addFile(h), addSubdir(h)}
      [] kind = "OutputBuffer"    -> {createOutputBuffer(h)}
      [] kind = "FileHeader"      -> Optional(h, {"element", "list", "buffer"})
      [] kind = "LocalFileHeader" -> Optional(h, {"element", "list"})
      [] kind = "ZipFormat"       -> {Take(h, {"element"})} \cup Optional(h, {"list", "buffer"})
      [] kind \in {"FileBufferList", "ZipArchive"} -> {addBuffer(h)}
      [] OTHER -> {}

------------------------------------------------------------------------------
Init ==
    /\ \E m \in Made : kind = m.kind /\ form = m.form /\ held = m.held
    /\ uses = 0
    /\ at = "made"

Use ==
    /\ at = "made" /\ uses < MaxUses
    /\ held' \in Used(held)
    /\ uses' = uses + 1
    /\ UNCHANGED <<kind, form, at>>

End ==
    /\ at = "made"
    /\ held' = IF form = "create" THEN Destroyed(held) ELSE CleanedUp(held)
    /\ at' = "ended"
    /\ UNCHANGED <<kind, form, uses>>

\* io_destroy fails before anything is freed, and the caller is told.
DestroyFails ==
    /\ kind = "AIOContext" /\ at = "made" /\ uses < MaxUses
    /\ uses' = uses + 1
    /\ UNCHANGED <<kind, form, held, at>>

\* A descriptor that cannot be closed ends the program.
CloseFails ==
    /\ at = "made" /\ held["descriptor"] > 0 /\ kind # "Shell"
    /\ at' = "exited"
    /\ UNCHANGED <<kind, form, held, uses>>

Next == Use \/ End \/ DestroyFails \/ CloseFails

Spec == Init /\ [][Next]_vars

------------------------------------------------------------------------------
\* What the code leaves behind: the structs of a chain whose head the caller
\* owned, the paths of a list that is only cleaned up, the elements of a stack
\* that is destroyed, createMemoryArray's own list, and (freed without being
\* there) what a table from createHashMap leads to and the FileBuffers of a
\* list that is destroyed: they stay with the pool and are freed all the same.
LeftBehind ==
    {<<"OutputBuffer", "init", "node">>, <<"FilePathList", "init", "element">>,
     <<"StackArray", "create", "element">>, <<"MemoryArray", "create", "scratch">>,
     <<"HashMap", "create", "element">>, <<"FileBufferList", "create", "pooled">>,
     <<"FileBufferList", "create", "element">>}

=============================================================================
