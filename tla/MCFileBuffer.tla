----------------------------- MODULE MCFileBuffer -----------------------------
(***************************************************************************)
(* Reading through io/filebuffer.c for TLC.  A page is two sectors, so     *)
(* that a file may end inside a page and an offset need not begin one; the *)
(* runs about many outstanding requests make it one sector.                *)
(***************************************************************************)
EXTENDS FileBuffer

\* In a file of five sectors the two pages read from the third sector are a whole
\* and a short one, from the fourth a whole and an empty one, from the last a
\* short and an empty one.
MCFileSize == [f \in File |-> 5]
MCOffsets == [f \in File |-> {0, 3}]
MCTailOffsets == [f \in File |-> {2, 4}]

\* A file of two pages of one sector, always read from its start.
MCShortFileSize == [f \in File |-> 2]
MCShortOffsets == [f \in File |-> {0}]

Symmetry == Permutations(Page)
===============================================================================
