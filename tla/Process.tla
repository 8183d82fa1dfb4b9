------------------------------ MODULE Process ------------------------------
(***************************************************************************)
(* lang/system.c and io/pipe.h: a program runs another one and reads what  *)
(* it prints.  Parent and child are two processes that share a pipe of     *)
(* bounded capacity; a reader sees the end of the output when no write end *)
(* is open in either process, a writer is killed when no read end is.      *)
(* "execute" reads to the end and then waits for the child; "execute_pipe" *)
(* leaves both to its caller, who may choose the order.  The output is     *)
(* gathered in a StringBuilder (module StringBuilder).                     *)
(***************************************************************************)
EXTENDS Integers

CONSTANTS
    Capacity,   \* bytes the pipe holds
    BufLen,     \* PIPE_BUFFER_LENGTH, also the size of the StringBuilder
    Outputs     \* how much the executed program may print

VARIABLES
    parent,     \* where the parent is
    child,      \* where the child is
    status,     \* how the child ended
    ends,       \* the open ends of the pipe, by process
    content,    \* bytes in the pipe
    total,      \* what the program prints when it is not stopped
    printed,    \* what it has printed
    output,     \* the StringBuilder of the parent
    caller      \* which function was called, and what a caller does with a pipe

processVars == <<parent, child, status, ends, content, total, printed, output, caller>>

SB == INSTANCE StringBuilder WITH
         Sizes <- {BufLen}, Lengths <- {}, MaxLength <- 0,
         builder <- output, peak <- 0, arrays <- FALSE

Callers == {"execute", "drains first", "waits first"}
ParentEnded == parent \in {"returned", "exited", "aborted"}
IsDrained == content = 0 /\ ends \cap {"parent write", "child write", "child stdout"} = {}
NoReader == ends \cap {"parent read", "child read"} = {}
ParentEnds == {"parent read", "parent write"}

ProcessInit ==
    /\ parent = "called"
    /\ child = "none"
    /\ status = "none"
    /\ ends = {}
    /\ content = 0
    /\ total \in Outputs
    /\ printed = 0
    /\ output = SB!createStringBuilder_uint32(BufLen)
    /\ caller \in Callers

------------------------------------------------------------------------------
\* createPipe and fork, both fatal when they fail.
Fork ==
    /\ parent = "called"
    /\ \/ /\ parent' = "forked"
          /\ child' = "forked"
          /\ ends' = {"parent read", "parent write", "child read", "child write"}
       \/ /\ parent' = "exited"
          /\ UNCHANGED <<child, ends>>
    /\ UNCHANGED <<status, content, total, printed, output, caller>>

\* A mutant for the runs: the parent keeps its write end.
closeWriteKept ==
    UNCHANGED ends

closeWrite ==
    ends' = ends \ {"parent write"}

\* The parent of a fork closes its write end; execute_pipe then returns the
\* child's pid to a caller that reads the pipe, or waits for the child before.
ParentForked ==
    /\ parent = "forked"
    /\ closeWrite
    /\ parent' = IF caller = "waits first" THEN "waiting" ELSE "reading"
    /\ UNCHANGED <<child, status, content, total, printed, output, caller>>

\* A mutant for the runs: a short read is taken for the end.
EndOfFileShort(n) == n < BufLen

\* END_OF_FILE: read returned nothing.
EndOfFile(n) == n = 0

ParentExits(how) ==
    /\ parent' = how
    /\ ends' = ends \ ParentEnds

\* The parent after its last read.  A caller that waited first has done both.
ReadToTheEnd ==
    /\ ends' = ends \ {"parent read"}
    /\ parent' = IF caller = "waits first" THEN "returned" ELSE "waiting"

\* readFile blocks on an empty pipe that has a writer.
ParentReads ==
    /\ parent = "reading"
    /\ content > 0 \/ IsDrained
    /\ \E n \in 0 .. BufLen :
          /\ n <= content /\ (n = 0 => content = 0)
          /\ content' = content - n
          /\ output' = IF n = 0 THEN output ELSE SB!appendBytes(output, n)
          /\ IF output'.aborted THEN ParentExits("aborted")
             ELSE IF EndOfFile(n) THEN ReadToTheEnd
                  ELSE UNCHANGED <<parent, ends>>
    /\ UNCHANGED <<child, status, total, printed, caller>>

ParentReadFails ==
    /\ parent = "reading"
    /\ ParentExits("exited")
    /\ UNCHANGED <<child, status, content, total, printed, output, caller>>

\* waitForChild: any end but exit(EXIT_SUCCESS) is fatal.
waitForChild ==
    /\ parent = "waiting" /\ child = "ended"
    /\ IF status # "success" THEN ParentExits("exited")
       ELSE /\ parent' = IF caller = "waits first" THEN "reading" ELSE "returned"
            /\ UNCHANGED ends
    /\ UNCHANGED <<child, status, content, total, printed, output, caller>>

------------------------------------------------------------------------------
ChildEnds(how) ==
    /\ child' = "ended"
    /\ status' = how
    /\ ends' = ends \cap ParentEnds

\* redirectToStdout and closeRead: the write end stays open beside stdout.
redirected == (ends \cup {"child stdout"}) \ {"child read"}

ChildRedirects ==
    /\ child = "forked"
    /\ child' = "redirected"
    /\ ends' = redirected
    /\ UNCHANGED <<parent, status, content, total, printed, output, caller>>

\* The child of execute_pipe reports an error in the same way.
ExecFails == ChildEnds("failure")

\* execv; when it fails the child reports an error and exits.
ChildExecutes ==
    /\ child = "redirected"
    /\ \/ child' = "running" /\ UNCHANGED <<status, ends>>
       \/ ExecFails
    /\ UNCHANGED <<parent, content, total, printed, output, caller>>

\* The executed program: it prints as the pipe has room, is killed by SIGPIPE
\* when nobody can read, and ends well or not.
ChildPrints ==
    /\ child = "running" /\ printed < total
    /\ IF NoReader
       THEN ChildEnds("killed") /\ UNCHANGED <<content, printed>>
       ELSE \E n \in 1 .. Capacity :
               /\ n <= total - printed /\ n <= Capacity - content
               /\ content' = content + n
               /\ printed' = printed + n
               /\ UNCHANGED <<child, status, ends>>
    /\ UNCHANGED <<parent, total, output, caller>>

ChildExits ==
    /\ child = "running" /\ printed = total
    /\ ChildEnds("success")
    /\ UNCHANGED <<parent, content, total, printed, output, caller>>

ChildFails ==
    /\ child = "running"
    /\ ChildEnds("failure")
    /\ UNCHANGED <<parent, content, total, printed, output, caller>>

Parent == Fork \/ ParentForked \/ ParentReads \/ waitForChild
Child == ChildRedirects \/ ChildExecutes \/ ChildPrints \/ ChildExits

ProcessNext == Parent \/ ParentReadFails \/ Child \/ ChildFails

\* Both processes go on running; that a read or the program fails is not fair.
ProcessSpec ==
    /\ ProcessInit /\ [][ProcessNext]_processVars
    /\ WF_processVars(Parent) /\ WF_processVars(Child)

------------------------------------------------------------------------------
\* What is returned is all the program printed, in as many reads as it took,
\* and only of a program that ended well.
OutputIsWhole ==
    parent = "returned" => /\ status = "success"
                           /\ printed = total
                           /\ output.length = total
                           /\ ~output.overrun

\* Parent and child both come to an end, whatever the other does and whenever it
\* is stopped: a reader sees the end of the output, and with no reader left a
\* write ends the child.  A caller of execute_pipe that waits first needs a pipe
\* that holds all the output: otherwise they wait for each other.
NeedsThePipeOnly == ~(caller = "waits first" /\ total > Capacity)

BothComeToAnEnd ==
    /\ NeedsThePipeOnly ~> ParentEnded
    /\ (child # "none" /\ NeedsThePipeOnly) ~> child = "ended"
=============================================================================
