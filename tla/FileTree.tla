------------------------------- MODULE FileTree -------------------------------
(***************************************************************************)
(* A tree of directories and files (external), and what io/file.c and      *)
(* makeDirectory of fs/directory.c do to it.  A path is the sequence of    *)
(* its components; a tree has the set `dirs' of the paths of directories   *)
(* below the root and the function `files' from paths to contents.         *)
(***************************************************************************)
EXTENDS Integers, Sequences, SequencesExt, TLC

CONSTANT LISTARRAY_DEFAULT_SIZE

ASSUME FileTreeAssumption == LISTARRAY_DEFAULT_SIZE \in Nat \ {0}

LA == INSTANCE ListArray WITH
         Elements <- {}, Batches <- {}, ListSizes <- {}, Capacities <- {},
         MaxListLength <- 0, list <- << >>, added <- << >>

EmptyTree == [dirs |-> {}, files |-> << >>]

Paths(tree) == tree.dirs \cup DOMAIN tree.files
Prefix(path, n) == SubSeq(path, 1, n)
IsDirectory(tree, path) == path = << >> \/ path \in tree.dirs

\* mkdir fails when something is there, or when the parent is not a directory.
mkdir(tree, path) ==
    IF path \notin Paths(tree) /\ IsDirectory(tree, Front(path))
    THEN [tree EXCEPT !.dirs = @ \cup {path}]
    ELSE tree

\* splitWithChar of a path that is not empty: the components found are handed to
\* the list from the stack they were pushed on.  More than the list has slots for
\* abort the program, as it is empty.
splitWithChar(path) ==
    LA!addFromStack(LA!createListArrayWithSize(LISTARRAY_DEFAULT_SIZE, "x86-64"),
                    [k \in DOMAIN path |-> k])


\* makeDirectory of a path makes a directory for each component, but not for the
\* last of a file's path, where stat finds nothing (ENOENT: its parent is a
\* directory).  A failure is printed and the next level tried.
Levels(length, hasFilename) == 1 .. length - (IF hasFilename THEN 1 ELSE 0)

makeDirectory(tree, path, hasFilename) ==
    FoldLeft(LAMBDA t, i : mkdir(t, Prefix(path, i)), tree,
             [i \in Levels(splitWithChar(path).length, hasFilename) |-> i])

\* open with O_CREAT and no O_TRUNC: what a file holds stays.
CanCreate(tree, path) ==
    path \notin tree.dirs /\ IsDirectory(tree, Front(path))

createFile(tree, path) ==
    IF path \in DOMAIN tree.files THEN tree
    ELSE [tree EXCEPT !.files = (path :> << >>) @@ @]

\* write puts the content over the beginning of what is there.
writeFile(tree, path, content) ==
    LET old == tree.files[path]
        tail == SubSeq(old, Len(content) + 1, Len(old))
    IN [tree EXCEPT !.files[path] = content \o tail]
===============================================================================
