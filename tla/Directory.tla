------------------------------ MODULE Directory ------------------------------
(***************************************************************************)
(* fs/directory.c: find, listContents and printDirectory walk a tree of    *)
(* directories through one DirPath, a StringBuilder that is lengthened by  *)
(* the name of each directory and cut again, while other processes change  *)
(* the tree.  A name is a number, in the order of compare, and counts as   *)
(* one character of the path; a path in the tree is a sequence of names.   *)
(***************************************************************************)
EXTENDS PtrArray, FiniteSets

CONSTANTS
    Names,               \* of directories and files
    Matching,            \* the names that isMatch accepts
    Trees,               \* what may be there at the start: [dirs, files]
    Walks,               \* "find", "list", "list recursively"
    DIRPATH_BUFFER_SIZE, \* how much longer than its text a DirPath is made
    MaxDepth,            \* bound: the longest path other processes make
    MaxChanges           \* bound: how often they change the tree

SLASH == 0

\* Each entry is in a directory of the tree, and is one itself or a file.
IsTree(tree) ==
    /\ IsFiniteSet(tree.dirs) /\ IsFiniteSet(tree.files)
    /\ tree.dirs \cap tree.files = {}
    /\ \A path \in tree.dirs \cup tree.files :
          /\ path \in Seq(Names) /\ path # << >>
          /\ \A k \in 1 .. Len(path) - 1 : SubSeq(path, 1, k) \in tree.dirs

ASSUME DirectoryAssumption ==
    /\ Names \subseteq Int \ {SLASH}
    /\ DIRPATH_BUFFER_SIZE \in Nat \ {0}
    /\ \A tree \in Trees : IsTree(tree)

VARIABLES
    walk,      \* which function was called
    dirs, files, changes,   \* the tree, and how often it was changed
    text, dirPath,          \* the characters of the DirPath, and its StringBuilder
    calls,     \* the calls that are active, the innermost last
    found,     \* filePathList, or the Directory that was listed as a function
    dirAt,     \* "open", "walk", or how the call ended
    kept, seen \* ghosts: the files that were always there, and all that ever were

dirVars == <<walk, dirs, files, changes, text, dirPath, calls, found, dirAt, kept, seen>>

DP == INSTANCE StringBuilder WITH
         Sizes <- {}, Lengths <- {}, MaxLength <- 0,
         builder <- dirPath, peak <- 0, arrays <- FALSE
Start == <<-1>>    \* the text of the path a walk begins with

\* createDirPath.  (The NUL that copyToBuffer writes behind the last of "size"
\* bytes is left out: it falls into what the allocation is rounded up by unless
\* size is a multiple of 16.)
createDirPath(length) ==
    [DP!createStringBuilder_uint32(length + DIRPATH_BUFFER_SIZE) EXCEPT
        !.length = length, !.nul = length]

\* The directory the text names.
Entered(path, c) == IF c = SLASH THEN path ELSE Append(path, c)
Named(t) == FoldLeft(Entered, << >>, SubSeq(t, Len(Start) + 1, Len(t)))

Under(paths, dir) ==
    {Last(p) : p \in {q \in paths : q # << >> /\ Front(q) = dir}}

DirInit ==
    /\ walk \in Walks
    /\ \E tree \in Trees : dirs = tree.dirs /\ files = tree.files
    /\ changes = 0
    /\ text = Start /\ dirPath = createDirPath(Len(Start))
    /\ calls = << >> /\ found = << >>
    /\ dirAt = "open"
    /\ kept = files /\ seen = files

------------------------------------------------------------------------------
Tree == <<dirs, files, changes, kept, seen>>

\* The path is lengthened in the buffer, which a long path overruns.
Lengthens(sb, characters, next) ==
    /\ text' = text \o characters
    /\ dirPath' = sb
    /\ dirAt' = IF sb.overrun \/ sb.aborted THEN "overrun" ELSE next

\* opendir fails where no directory is (any more), or for want of resources: the
\* program is aborted.
OpenFails ==
    /\ dirAt = "open"
    /\ dirAt' = "aborted"
    /\ UNCHANGED <<walk, Tree, text, dirPath, calls, found>>

\* A mutant for the runs: the lists are left in the order they were read in.
readDirectoryUnsorted(names) ==
    {[subdirs |-> s, files |-> f] :
       s \in SetToSeqs(names.subdirs), f \in SetToSeqs(names.files)}

\* readDirectory takes the entries in any order and sorts both lists.  (The
\* entries "." and ".." and those of another type than DT_DIR and DT_REG are
\* skipped: the tree has none.)
readDirectory(names) ==
    {[subdirs |-> sortPtrArray(s).a, files |-> sortPtrArray(f).a] :
       s \in SetToSeqs(names.subdirs), f \in SetToSeqs(names.files)}

\* The start of find and of listContents.
OpenDirectory ==
    /\ dirAt = "open"
    /\ LET dir == Named(text) IN
       /\ dir = << >> \/ dir \in dirs
       /\ \E read \in readDirectory([subdirs |-> Under(dirs, dir), files |-> Under(files, dir)]) :
            /\ calls' = Append(calls, [subdirs |-> read.subdirs, files |-> read.files,
                                       next |-> 1, dirPathLen |-> Len(text) + 1])
            /\ found' = IF walk = "find" THEN found
                        ELSE Append(found, [dir |-> dir, read |-> read])
       /\ Lengthens(DP!append_char(dirPath), <<SLASH>>, "walk")
    /\ UNCHANGED <<walk, Tree>>

Call == Last(calls)
IsRecursive == walk # "list"

Descend ==
    /\ dirAt = "walk" /\ IsRecursive /\ Call.next <= Len(Call.subdirs)
    /\ Lengthens(DP!append_string(dirPath, 1), <<Call.subdirs[Call.next]>>, "open")
    /\ calls' = [calls EXCEPT ![Len(calls)].next = @ + 1]
    /\ UNCHANGED <<walk, Tree, found>>

\* createString puts the name of each match behind the path and cuts it again.
Matched(names, name) == IF name \in Matching THEN Append(names, name) ELSE names
Matches == FoldLeft(Matched, << >>, Call.files)
CreatesString(sb, name) == DP!createString(sb, 1)
CreatesStrings == FoldLeft(CreatesString, dirPath, Matches)

\* A mutant for the runs: the caller's cut is forgotten.
CutOnce(length) == length

\* The call cuts its '/' off, its caller the name of the directory.
Cut(length) == IF Len(calls) = 1 THEN length ELSE calls[Len(calls) - 1].dirPathLen

Return ==
    /\ dirAt = "walk" /\ (IsRecursive => Call.next > Len(Call.subdirs))
    /\ LET sb     == IF walk = "find" THEN CreatesStrings ELSE dirPath
           length == Cut(Call.dirPathLen - 1)
       IN /\ found' = IF walk = "find"
                      THEN found \o [k \in DOMAIN Matches |-> Named(Append(text, Matches[k]))]
                      ELSE found
          /\ text' = SubSeq(text, 1, length)
          /\ dirPath' = DP!reduceLength(sb, length)
          /\ dirAt' = CASE sb.overrun -> "overrun"
                     [] Len(calls) = 1 -> "done"
                     [] OTHER -> "walk"
    /\ calls' = Front(calls)
    /\ UNCHANGED <<walk, Tree>>

\* printDirectory of a listed Directory: the paths above which the entries are
\* printed.  It cuts the names off, but not the '/' it puts before the first.
printDirectory ==
    /\ dirAt = "done" /\ walk # "find"
    /\ IF found[1].read.subdirs = << >>
       THEN dirAt' = "printed" /\ UNCHANGED <<text, dirPath>>
       ELSE Lengthens(DP!append_char(dirPath), <<SLASH>>, "printed")
    /\ UNCHANGED <<walk, Tree, calls, found>>

------------------------------------------------------------------------------
(* What other processes do meanwhile.                                      *)

Changes ==
    /\ dirAt \in {"open", "walk"} /\ changes < MaxChanges
    /\ changes' = changes + 1
    /\ UNCHANGED <<walk, text, dirPath, calls, found, dirAt>>

EntryCreated ==
    /\ Changes
    /\ \E dir \in dirs \cup {<< >>}, name \in Names :
         LET path == Append(dir, name) IN
         /\ Len(path) <= MaxDepth /\ path \notin dirs \cup files
         /\ \/ dirs' = dirs \cup {path} /\ UNCHANGED files
            \/ files' = files \cup {path} /\ UNCHANGED dirs
    /\ kept' = kept /\ seen' = seen \cup files'

EntryRemoved ==
    /\ Changes
    /\ \/ \E path \in files : files' = files \ {path} /\ UNCHANGED dirs
       \/ \E path \in dirs : /\ Under(dirs \cup files, path) = {}
                             /\ dirs' = dirs \ {path} /\ UNCHANGED files
    /\ kept' = kept \cap files' /\ seen' = seen

DirNext == OpenFails \/ OpenDirectory \/ Descend \/ Return \/ printDirectory \/ EntryCreated \/ EntryRemoved

DirSpec == DirInit /\ [][DirNext]_dirVars

------------------------------------------------------------------------------
IsMatch(path) == Last(path) \in Matching

\* Where two paths first differ, files of subdirectories come before those of the
\* directory, else names decide.
Before(p, q) ==
    \E i \in DOMAIN p \cap DOMAIN q :
      /\ \A k \in 1 .. i - 1 : p[k] = q[k]
      /\ p[i] # q[i]
      /\ IF (Len(p) = i) = (Len(q) = i) THEN p[i] < q[i] ELSE Len(q) = i

\* However the tree changes under it, find lists no path twice and none that was
\* never a match, every match that was there all the time, and all of them in the
\* order of the names (directory.c:255-301).
FindsTheFiles ==
    walk = "find" /\ dirAt = "done" =>
      /\ {p \in kept : IsMatch(p)} \subseteq ToSet(found)
      /\ \A i \in DOMAIN found : found[i] \in seen /\ IsMatch(found[i])
      /\ \A i, j \in DOMAIN found : i < j => Before(found[i], found[j])

\* A walk leaves the path it was given as it was, and the path is whole at every
\* call on the way; only printDirectory leaves a '/' behind the path of a directory
\* that has directories (directory.c:195-199, 274, 299, 324-333).
PathIsRestored ==
    /\ dirAt = "done" => text = Start
    /\ dirAt = "printed" => text \in {Start, Append(Start, SLASH)}
    /\ dirAt # "overrun" => dirPath.length = Len(text) /\ dirPath.nul = Len(text)
    /\ dirAt = "walk" => Len(text) = Call.dirPathLen
=============================================================================
