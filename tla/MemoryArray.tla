----------------------------- MODULE MemoryArray -----------------------------
(***************************************************************************)
(* sysfs/memoryarray.c: the memory modules of the machine, read from what  *)
(* dmidecode prints.  The text is a sequence of lines; an attribute is     *)
(* looked for from where the one before it ended, never from the start of  *)
(* its device, so the reader depends on the order and form of the lines.   *)
(***************************************************************************)
EXTENDS Integers, Sequences, FiniteSets, SequencesExt, TLC

CONSTANTS
    Documents,   \* what dmidecode prints: sequences of lines
    ReportSize   \* what the StringBuilder of the report is made with

VARIABLES
    doc,         \* the lines: [name, block, valid, unit, spaced, value]
    cursor,      \* lines up to this one are passed
    head,        \* the fields of the MemoryArray, by name: the line each was read from
    devices,     \* memoryDeviceList: [fields, installed]
    report,      \* the StringBuilder of toStringMemoryArray
    at           \* "head", "devices", "read", "printed", or how the program ended

vars == <<doc, cursor, head, devices, report, at>>

SB == INSTANCE StringBuilder WITH
         Sizes <- {}, Lengths <- {}, MaxLength <- 0,
         builder <- report, peak <- 0, arrays <- FALSE

\* Kinds of attributes: up to the end of the line "text", a name of a list, a
\* number or a hexadecimal one; up to a space a quantity or a voltage.
Field(name, kind) == [name |-> name, kind |-> kind]

HeadFields ==
    <<Field("Physical Memory Array", "text"), Field("Location", "text"), Field("Use", "text"),
      Field("Error Correction Type", "name"), Field("Maximum Capacity", "quantity"),
      Field("Error Information Handle", "hex"), Field("Number Of Devices", "number")>>

DeviceFields ==
    <<Field("Memory Device", "text"), Field("Array Handle", "hex"),
      Field("Error Information Handle", "hex"), Field("Total Width", "text")>>

EmptySlotFields == <<Field("Locator", "text"), Field("Bank Locator", "text")>>

ModuleFields ==
    <<Field("Data Width", "quantity"), Field("Size", "quantity"), Field("Form Factor", "name"),
      Field("Set", "text"), Field("Locator", "text"), Field("Bank Locator", "text"),
      Field("Type", "name"), Field("Type Detail", "text"), Field("Speed", "quantity"),
      Field("Manufacturer", "text"), Field("Serial Number", "text"), Field("Asset Tag", "text"),
      Field("Part Number", "text"), Field("Rank", "number"),
      Field("Configured Memory Speed", "quantity"), Field("Minimum Voltage", "voltage"),
      Field("Maximum Voltage", "voltage"), Field("Configured Voltage", "voltage")>>

------------------------------------------------------------------------------
Earliest(lines) == CHOOSE k \in lines : \A j \in lines : k <= j

\* search: the next line of that name, if there is one.
search(from, name) == {k \in DOMAIN doc : k > from /\ doc[k].name = name}

\* Mutant of terminate: the rest of the line is given up as well.
terminateAndLine(k, kind) == IF k < Len(doc) THEN {k + 1} ELSE {}

\* terminate: where the reader is when the value of line k has been cut off.  One
\* that must end with a space and has none ends in a later line, behind its name.
terminate(k, kind) ==
    IF kind \in {"quantity", "voltage"} /\ ~doc[k].unit
    THEN {j \in DOMAIN doc : j > k /\ doc[j].spaced}
    ELSE {k}

FormFactors == <<"Unknown", "DIMM", "SO-DIMM">>
ErrorCorrectionTypes == <<"None", "ECC", "Multi-bit ECC">>
MemoryTypes == <<"Unknown", "SDRAM", "DDR", "DDR2", "DDR3", "DDR4">>

\* The places of a name in its list: none ends the program, the first is taken.
getFormFactor(source)          == {i \in DOMAIN FormFactors : FormFactors[i] = source}
getErrorCorrectionType(source) == {i \in DOMAIN ErrorCorrectionTypes : ErrorCorrectionTypes[i] = source}

\* A type is looked for as a part of the names, and is found in those of its successors.
PartOf(source, name) ==
    source = name \/ <<source, name>> \in {"DDR"} \X {"DDR2", "DDR3", "DDR4"}
getMemoryType(source) == {i \in DOMAIN MemoryTypes : PartOf(source, MemoryTypes[i])}

PlacesOf(line) ==
    CASE line.name = "Form Factor"           -> getFormFactor(line.value)
      [] line.name = "Error Correction Type" -> getErrorCorrectionType(line.value)
      [] line.name = "Type"                  -> getMemoryType(line.value)

\* A quantity that runs into the next line is no number; a voltage is then NaN.
IsRead(k, kind) ==
    CASE kind \in {"text", "voltage"} -> TRUE
      [] kind = "quantity"            -> doc[k].valid /\ doc[k].unit
      [] kind = "name"                -> PlacesOf(doc[k]) # {}
      [] OTHER                        -> doc[k].valid

\* One attribute.  A NULL from search is followed, a value that cannot be read
\* exits or aborts.
Read(s, field) ==
    LET lines == search(s.cursor, field.name)
        k     == Earliest(lines)
        rest  == terminate(k, field.kind)
    IN  IF s.end # "none" THEN s
        ELSE IF lines = {} \/ rest = {} THEN [s EXCEPT !.end = "crashed"]
        ELSE IF ~IsRead(k, field.kind) THEN [s EXCEPT !.end = "exited"]
        ELSE [s EXCEPT !.cursor = Earliest(rest),
                       !.fields = (field.name :> k) @@ @]

ReadAll(s, fields) == FoldLeft(Read, s, fields)
Begin == [cursor |-> cursor, fields |-> << >>, end |-> "none"]

Init ==
    /\ doc \in Documents
    /\ cursor = 0 /\ head = << >> /\ devices = << >>
    /\ report = SB!createStringBuilder_uint32(ReportSize)
    /\ at = "head"

ReadHead ==
    /\ at = "head"
    /\ LET s == ReadAll(Begin, HeadFields) IN
       /\ at' = IF s.end = "none" THEN "devices" ELSE s.end
       /\ cursor' = s.cursor /\ head' = s.fields
    /\ UNCHANGED <<doc, devices, report>>

NumDevices == doc[head["Number Of Devices"]].value

\* A slot of unknown width is empty.
ReadDevice ==
    /\ at = "devices" /\ Len(devices) < NumDevices
    /\ LET first     == ReadAll(Begin, DeviceFields)
           installed == first.end = "none" => doc[first.fields["Total Width"]].valid
           s         == ReadAll(first, IF installed THEN ModuleFields ELSE EmptySlotFields)
       IN /\ at' = IF s.end = "none" THEN at ELSE s.end
          /\ cursor' = s.cursor
          /\ devices' = Append(devices, [fields |-> s.fields, installed |-> installed])
    /\ UNCHANGED <<doc, head, report>>

DevicesRead ==
    /\ at = "devices" /\ Len(devices) = NumDevices
    /\ at' = "read"
    /\ UNCHANGED <<doc, cursor, head, devices, report>>

\* The summary that the last loop of createMemoryArray gathers.
Installed == {i \in DOMAIN devices : devices[i].installed}
ValueOf(i, name) == doc[devices[i].fields[name]].value
numInstalled == Cardinality(Installed)

\* toStringMemoryType of what getMemoryType returned.
TypeName(i) == MemoryTypes[Earliest(getMemoryType(ValueOf(i, "Type")))]

\* A bank locator is looked for among those of the devices before.
numChannelsInUse ==
    Cardinality({i \in Installed :
                   \A j \in Installed : j < i => ValueOf(j, "Bank Locator") # ValueOf(i, "Bank Locator")})

------------------------------------------------------------------------------
\* toStringMemoryArray: a line for each field, of one unit each, appended to one
\* StringBuilder whose size does not depend on how many devices there are.  (The
\* lines of a device are appended at once: the size is passed once either way.)
ReportLines(device) == IF device.installed THEN 22 ELSE 6

toStringMemoryArray ==
    /\ at = "read"
    /\ report' = FoldLeft(LAMBDA sb, device : SB!append_string(sb, ReportLines(device)),
                          SB!append_string(report, 10), devices)
    /\ at' = IF report'.overrun THEN "overrun" ELSE "printed"
    /\ UNCHANGED <<doc, cursor, head, devices>>

Next == ReadHead \/ ReadDevice \/ DevicesRead \/ toStringMemoryArray

Spec == Init /\ [][Next]_vars

------------------------------------------------------------------------------
\* Every voltage has its unit: one that has none moves the reader into the line
\* below it, whose attribute is then taken from another device or from nowhere.
VoltagesHaveUnits ==
    \A k \in DOMAIN doc :
      doc[k].name \in {"Minimum Voltage", "Maximum Voltage", "Configured Voltage"} => doc[k].unit

\* The members of the structs that are read from the text.
MemoryArrayMembers ==
    {"Location", "Use", "Error Correction Type", "Error Information Handle", "Maximum Capacity",
     "Number Of Devices"}

MemoryDeviceMembers ==
    {"Asset Tag", "Bank Locator", "Locator", "Manufacturer", "Part Number", "Serial Number", "Set",
     "Type Detail", "Configured Memory Speed", "Size", "Speed", "Array Handle", "Data Width",
     "Error Information Handle", "Rank", "Total Width", "Form Factor", "Type",
     "Configured Voltage", "Maximum Voltage", "Minimum Voltage"}

\* Each device gets the attributes of its own block, all of them, its type keeps
\* its name, and the banks in use are counted once (memoryarray.c:213-282).
DevicesAreTheirOwn ==
    /\ at # "head" /\ VoltagesHaveUnits =>
         /\ at # "crashed"
         /\ \A i \in DOMAIN devices : \A name \in DOMAIN devices[i].fields :
              doc[devices[i].fields[name]].block = i
    /\ at = "read" /\ VoltagesHaveUnits =>
         /\ MemoryArrayMembers \subseteq DOMAIN head
         /\ \A i \in Installed : MemoryDeviceMembers \subseteq DOMAIN devices[i].fields
         /\ numInstalled = Cardinality({k \in DOMAIN doc : doc[k].name = "Size" /\ doc[k].unit})
         /\ numChannelsInUse = Cardinality({ValueOf(i, "Bank Locator") : i \in Installed})
         /\ \A i \in Installed : TypeName(i) = ValueOf(i, "Type")
=============================================================================
