----------------------------- MODULE MCAIOClient -----------------------------
(***************************************************************************)
(* Direct use of io/async.c for TLC: tickets of two requests on a context  *)
(* that queues three, so that a full queue takes two tickets to empty.     *)
(***************************************************************************)
EXTENDS AIOClient

\* Every read is at the end of the file or transfers one sector.
MCFileSize == [f \in File |-> 1]
===============================================================================
