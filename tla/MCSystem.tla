------------------------------ MODULE MCSystem ------------------------------
(***************************************************************************)
(* The parts of the library that work with the system, and the structs it  *)
(* hands out, for TLC: in each behaviour one of them is the subject, and   *)
(* the variables of the others stand still.                                *)
(***************************************************************************)
EXTENDS Process, NetworkDevice, ListArray, Directory

VARIABLES
    subject,
    doc, cursor, head, devices, report, memAt,                              \* MemoryArray
    kind, form, held, uses, lifeAt,                                         \* Lifecycle
    task, options, allowed, file, before, chain, length, offset, fd, stamped,        \* Files
    fileStatus, answer, fileSeen, events, fileAt

------------------------------------------------------------------------------
(* Two small hosts: one with two devices and a gateway on each, one with    *)
(* nothing in some of its tables.                                           *)

A(family, index, scope, address) ==
    [type |-> "RTM_NEWADDR", family |-> family, index |-> index, scope |-> scope, address |-> address]
R(family, table, rtype, attributes) ==
    [type |-> "RTM_NEWROUTE", family |-> family, table |-> table, rtype |-> rtype,
     attributes |-> attributes]
Main(family, attributes) == R(family, "RT_TABLE_MAIN", "RTN_UNICAST", attributes)

MCTables ==
    {[RTM_GETADDR |->
         <<A("AF_INET", 1, "RT_SCOPE_HOST", "127.0.0.1"),
           A("AF_INET", 2, "RT_SCOPE_UNIVERSE", "a"),
           A("AF_INET", 2, "RT_SCOPE_LINK", "b"),
           A("AF_INET6", 3, "RT_SCOPE_UNIVERSE", "c"),
           A("AF_INET6", 2, "RT_SCOPE_UNIVERSE", "d"),
           A("AF_INET6", 2, "RT_SCOPE_LINK", "e")>>,
      RTM_GETROUTE |->
         <<Main("AF_INET", <<<<"RTA_GATEWAY", "g3">>, <<"RTA_OIF", 3>>>>),
           Main("AF_INET", <<<<"RTA_GATEWAY", "g2">>, <<"RTA_OIF", 2>>>>),
           Main("AF_INET", <<<<"RTA_DST", "n">>, <<"RTA_OIF", 2>>>>),
           R("AF_INET", "RT_TABLE_LOCAL", "RTN_LOCAL", <<<<"RTA_OIF", 3>>>>),
           Main("AF_INET6", <<<<"RTA_DST", "m">>, <<"RTA_OIF", 3>>>>),
           Main("AF_INET6", <<<<"RTA_GATEWAY", "g6">>, <<"RTA_OIF", 2>>>>)>>],
     [RTM_GETADDR |-> <<A("AF_INET", 2, "RT_SCOPE_UNIVERSE", "a")>>,
      RTM_GETROUTE |->
         <<Main("AF_INET", <<<<"RTA_GATEWAY", "g2">>, <<"RTA_OIF", 2>>>>),
           Main("AF_INET", <<<<"RTA_GATEWAY", "g3">>, <<"RTA_OIF", 3>>>>)>>]}

MCBatches == {<< >>, <<1>>, <<3, 1>>, <<2, 1, 2>>}

MCTrees ==
    {[dirs |-> {}, files |-> {<<2>>, <<1>>}],
     [dirs |-> {<<1>>, <<3>>}, files |-> {<<2>>, <<3, 1>>, <<3, 2>>}],
     [dirs |-> {<<2>>, <<2, 1>>, <<2, 1, 1>>},
      files |-> {<<1>>, <<2, 3>>, <<2, 1, 2>>, <<2, 1, 1, 1>>}]}

------------------------------------------------------------------------------
(* What dmidecode prints: a head and two or three slots, empty or with a    *)
(* module some attribute of which has no unit or no number.                 *)

Devices == INSTANCE MemoryArray WITH Documents <- {}, ReportSize <- 30, at <- memAt

Line(block, name, valid, unit, value) ==
    [name |-> name, block |-> block, valid |-> valid, unit |-> unit, spaced |-> TRUE, value |-> value]
Blank(block) ==
    [name |-> "", block |-> block, valid |-> TRUE, unit |-> FALSE, spaced |-> FALSE, value |-> 0]
ValueIn(name, there, bank) ==
    CASE name = "Bank Locator" -> bank
      [] name = "Form Factor"  -> IF there THEN "DIMM" ELSE "Die"
      [] name = "Type"         -> IF there THEN IF bank = 1 THEN "DDR" ELSE "DDR4" ELSE "LPDDR4"
      [] OTHER                 -> 0
Lines(block, fields, without, bank) ==
    [k \in DOMAIN fields |->
        LET name == fields[k].name  there == name \notin without
        IN  Line(block, name, there, there, ValueIn(name, there, bank))]

ModuleSlot(block, without, bank) ==
    Append(Lines(block, Devices!DeviceFields \o Devices!ModuleFields, without, bank), Blank(block))
EmptySlot(block) ==
    Append(Lines(block, Devices!DeviceFields \o SubSeq(Devices!ModuleFields, 1, 8),
                 {"Total Width", "Data Width", "Size", "Type"}, 1), Blank(block))
HeadLines(n) ==
    Append([k \in DOMAIN Devices!HeadFields |->
               Line(0, Devices!HeadFields[k].name, TRUE, TRUE,
                    CASE Devices!HeadFields[k].name = "Number Of Devices" -> n
                      [] Devices!HeadFields[k].name = "Error Correction Type" -> "None"
                      [] OTHER -> 0)], Blank(0))

Slots(i) ==
    {EmptySlot(i)}
      \cup {ModuleSlot(i, without, bank) :
              without \in {{}, {"Minimum Voltage"}, {"Configured Voltage"}, {"Speed"},
                           {"Form Factor"}, {"Type"}, {"Size"}},
              bank \in {1, 2}}

MCDocuments ==
    {HeadLines(2) \o b1 \o b2 : b1 \in Slots(1), b2 \in Slots(2)}
      \cup {HeadLines(3) \o ModuleSlot(1, {}, 1) \o b2 \o b3 : b2 \in Slots(2), b3 \in Slots(3)}

Mem == INSTANCE MemoryArray WITH Documents <- MCDocuments, ReportSize <- 30, at <- memAt

Life == INSTANCE Lifecycle WITH MaxUses <- 4, at <- lifeAt

------------------------------------------------------------------------------
(* Files of up to three characters and a newline, and FileBuffers that begin *)
(* before the data or end behind them.                                       *)

FileConstants == INSTANCE Files WITH
                     Contents <- {}, Chains <- {}, BufferSize <- 3, SlabSize <- 3,
                     PointerSize <- 3, MaxEvents <- 1,
                     status <- fileStatus, seen <- fileSeen, at <- fileAt

MCContents ==
    {FileConstants!Absent, << >>, <<4>>, <<4, 2>>,
     <<4, 2, FileConstants!Newline>>, <<1, 2, 3, FileConstants!Newline>>,
     <<FileConstants!Newline>>, <<1, FileConstants!Word, 3>>}

Buffer(data, dataOffset) == [data |-> data, dataOffset |-> dataOffset]

MCChains ==
    {<<Buffer(<<1, 2, 3>>, 0)>>, <<Buffer(<<1, 2>>, 1)>>,
     <<Buffer(<<1, 2, 3>>, 1), Buffer(<<4, 5>>, 0)>>,
     <<Buffer(<<1, 2>>, 2), Buffer(<<3>>, 0)>>,
     <<Buffer(<<1, 2, 3>>, 0), Buffer(<<4, 5, 6>>, 0), Buffer(<<7>>, 0)>>}

F == INSTANCE Files WITH
         Contents <- MCContents, Chains <- MCChains, BufferSize <- 3, SlabSize <- 3,
         PointerSize <- 3, MaxEvents <- 1, status <- fileStatus, seen <- fileSeen, at <- fileAt

------------------------------------------------------------------------------
memVars     == <<doc, cursor, head, devices, report, memAt>>
lifeVars    == <<kind, form, held, uses, lifeAt>>
fileVars    == <<task, options, allowed, file, before, chain, length, offset, fd, stamped,
                 fileStatus, answer, fileSeen, events, fileAt>>

\* A process that has exited, an empty list, and so on.
IdleDevice ==
    /\ socket = [fd |-> 0, ioBuffer |-> 0] /\ kernel = [left |-> None, coalesces |-> TRUE]
    /\ datagram = << >> /\ inbox = << >> /\ exited = TRUE
    /\ device = << >> /\ ethernet = << >> /\ query = None /\ asked = << >>
IdleProcess ==
    /\ parent = "exited" /\ child = "none" /\ status = "none" /\ ends = {}
    /\ content = 0 /\ total = 0 /\ printed = 0 /\ output = << >> /\ caller = "execute"
IdleList ==
    list = [values |-> << >>, length |-> 0, state |-> "ok", build |-> "x86-64"] /\ added = << >>
IdleDirectory ==
    /\ walk = "none" /\ dirs = {} /\ files = {} /\ changes = 0 /\ text = << >>
    /\ dirPath = << >> /\ calls = << >> /\ found = << >> /\ dirAt = "overrun"
    /\ kept = {} /\ seen = {}
IdleMemoryArray ==
    /\ doc = << >> /\ cursor = 0 /\ head = << >> /\ devices = << >>
    /\ report = [overrun |-> FALSE] /\ memAt = "exited"
IdleStruct ==
    kind = "none" /\ form = "none" /\ held = << >> /\ uses = 0 /\ lifeAt = "exited"
IdleFile ==
    /\ task = "none" /\ options = << >> /\ allowed = FALSE /\ file = << >> /\ before = << >> /\ chain = << >>
    /\ length = 0 /\ offset = 0 /\ fd = 0 /\ stamped = FALSE /\ fileStatus = 0 /\ answer = << >>
    /\ fileSeen = << >> /\ events = 0 /\ fileAt = "exited"

MCInit ==
    \/ /\ subject = "NetworkDevice" /\ Init
       /\ IdleProcess /\ IdleList /\ IdleDirectory /\ IdleMemoryArray /\ IdleStruct /\ IdleFile
    \/ /\ subject = "Process" /\ ProcessInit
       /\ IdleDevice /\ IdleList /\ IdleDirectory /\ IdleMemoryArray /\ IdleStruct /\ IdleFile
    \/ /\ subject = "ListArray" /\ ListInit
       /\ IdleDevice /\ IdleProcess /\ IdleDirectory /\ IdleMemoryArray /\ IdleStruct /\ IdleFile
    \/ /\ subject = "Directory" /\ DirInit
       /\ IdleDevice /\ IdleProcess /\ IdleList /\ IdleMemoryArray /\ IdleStruct /\ IdleFile
    \/ /\ subject = "MemoryArray" /\ Mem!Init
       /\ IdleDevice /\ IdleProcess /\ IdleList /\ IdleDirectory /\ IdleStruct /\ IdleFile
    \/ /\ subject = "Lifecycle" /\ Life!Init
       /\ IdleDevice /\ IdleProcess /\ IdleList /\ IdleDirectory /\ IdleMemoryArray
       /\ IdleFile
    \/ /\ subject = "Files" /\ F!Init
       /\ IdleDevice /\ IdleProcess /\ IdleList /\ IdleDirectory /\ IdleMemoryArray /\ IdleStruct

MCNext ==
    \/ /\ subject = "NetworkDevice" /\ Next
       /\ UNCHANGED <<subject, processVars, listVars, dirVars, memVars, lifeVars, fileVars>>
    \/ /\ subject = "Process" /\ ProcessNext
       /\ UNCHANGED <<subject, vars, listVars, dirVars, memVars, lifeVars, fileVars>>
    \/ /\ subject = "ListArray" /\ ListNext
       /\ UNCHANGED <<subject, vars, processVars, dirVars, memVars, lifeVars, fileVars>>
    \/ /\ subject = "Directory" /\ DirNext
       /\ UNCHANGED <<subject, vars, processVars, listVars, memVars, lifeVars, fileVars>>
    \/ /\ subject = "MemoryArray" /\ Mem!Next
       /\ UNCHANGED <<subject, vars, processVars, listVars, dirVars, lifeVars, fileVars>>
    \/ /\ subject = "Lifecycle" /\ Life!Next
       /\ UNCHANGED <<subject, vars, processVars, listVars, dirVars, memVars, fileVars>>
    \/ /\ subject = "Files" /\ F!Next
       /\ UNCHANGED <<subject, vars, processVars, listVars, dirVars, memVars, lifeVars>>

allVars == <<subject, vars, processVars, listVars, dirVars, memVars, lifeVars, fileVars>>

\* The fairness of the processes: NetworkDevice's reader and kernel, Process's
\* parent and child.
MCSpec ==
    /\ MCInit /\ [][MCNext]_allVars
    /\ WF_vars(Receive) /\ WF_vars(Kernel)
    /\ WF_processVars(Parent) /\ WF_processVars(Child)

------------------------------------------------------------------------------
\* MemoryArray.DevicesAreTheirOwn: each device gets its own attributes.
DevicesAreTheirOwn == Mem!DevicesAreTheirOwn


\* Files.ReadsAndWritesAreWhole: a file holds what was written, and a number, a
\* link and a command's output are read as they are, where the code is right.
ReadsAndWritesAreWhole == F!ReadsAndWritesAreWhole
=============================================================================
