------------------------------ MODULE Netlink ------------------------------
(***************************************************************************)
(* A NetlinkSocket (socket/netlink.c, socket/socket.c) and the kernel at   *)
(* its other end.  The program sends a request and reads one datagram per  *)
(* recvmsg into its IOBuffer; the kernel answers a request for a whole     *)
(* table with as many datagrams as it takes, each with as many messages as *)
(* fit, and a last NLMSG_DONE.  It does so while the program reads.  A     *)
(* request that arrives during a dump is refused with an NLMSG_ERROR.      *)
(*                                                                         *)
(* Lengths are counted in messages.  That NLMSG_DONE comes in a datagram   *)
(* of its own is what the kernel the code was written on does (4.15);      *)
(* later ones may put it behind the last rows: "coalesces".                *)
(***************************************************************************)
EXTENDS Integers, Sequences, SequencesExt

CONSTANTS
    Good,       \* the most messages the kernel puts in a datagram
    BufLens,    \* ioBuffer lengths a program may choose
    Tables,     \* the tables a kernel may hold: rows by type of request
    None        \* no dump, no query, a field never written

ASSUME NetlinkAssumption == Good \in Nat \ {0} /\ BufLens \subseteq Nat \ {0}

VARIABLES
    socket,     \* NetlinkSocket: fd, family and the length of its ioBuffer
    datagram,   \* the messages in ioBuffer, as long as the last recvmsg said
    kernel,     \* its tables, the rows of the dump still to send, its habits
    inbox,      \* datagrams the kernel has queued on the socket
    exited      \* the process reported an error and called exit

netlinkVars == <<socket, datagram, kernel, inbox, exited>>

------------------------------------------------------------------------------
\* The requests.  NLF_ROOT asks for the whole table: the kernel takes it for a
\* dump and ends its answer with NLMSG_DONE.
NetlinkAddressRequest(addressType) ==
    [type |-> "RTM_GETADDR", flags |-> {"NLF_REQUEST", "NLF_ROOT"}, family |-> addressType]

\* A mutant for the runs: a request for one entry, which has no NLMSG_DONE.
NetlinkRouteRequestOfOne(addressType) ==
    [type |-> "RTM_GETROUTE", flags |-> {"NLF_REQUEST"}, family |-> addressType]

NetlinkRouteRequest(addressType) ==
    [type |-> "RTM_GETROUTE", flags |-> {"NLF_REQUEST", "NLF_ROOT"}, family |-> addressType]

createNetlinkSocket(family, ioBufLen) == [fd |-> 0, family |-> family, ioBuffer |-> ioBufLen]

NLMSG_DONE  == [type |-> "NLMSG_DONE"]
NLMSG_ERROR == [type |-> "NLMSG_ERROR"]

------------------------------------------------------------------------------
\* The kernel.
Rows(type, family) ==
    FoldLeft(LAMBDA rows, m : IF m.family = family THEN Append(rows, m) ELSE rows,
             <<>>, kernel.tables[type])

\* sendto: a request during a dump is refused (EBUSY).
Answered(request) ==
    LET rows == Rows(request.type, request.family)
    IN  IF kernel.left # None
        THEN /\ inbox' = Append(inbox, <<NLMSG_ERROR>>)
             /\ UNCHANGED kernel
        ELSE IF "NLF_ROOT" \in request.flags
             THEN /\ kernel' = [kernel EXCEPT !.left = rows]
                  /\ UNCHANGED inbox
             ELSE /\ inbox' = IF rows = <<>> THEN inbox ELSE Append(inbox, <<rows[1]>>)
                  /\ UNCHANGED kernel

\* The next datagram of a dump, when the program has made room.
KernelDumps ==
    /\ kernel.left # None /\ Len(inbox) < 2
    /\ \/ /\ kernel.left = <<>>
          /\ inbox' = Append(inbox, <<NLMSG_DONE>>)
          /\ kernel' = [kernel EXCEPT !.left = None]
       \/ \E n \in 1 .. Good :
             /\ n <= Len(kernel.left)
             /\ IF kernel.coalesces /\ n = Len(kernel.left)
                THEN /\ inbox' = Append(inbox, Append(kernel.left, NLMSG_DONE))
                     /\ kernel' = [kernel EXCEPT !.left = None]
                ELSE /\ inbox' = Append(inbox, SubSeq(kernel.left, 1, n))
                     /\ kernel' = [kernel EXCEPT !.left = SubSeq(@, n + 1, Len(@))]
    /\ UNCHANGED <<socket, datagram, exited>>

------------------------------------------------------------------------------
\* The library's side of the socket.
NetlinkInit ==
    /\ \E n \in BufLens : socket = createNetlinkSocket("NETLINK_ROUTE", n)
    /\ \E t \in Tables, c \in BOOLEAN :
          kernel = [tables |-> t, left |-> None, coalesces |-> c]
    /\ datagram = <<>>
    /\ inbox = <<>>
    /\ exited = FALSE

\* exit: the kernel closes the socket and drops what is queued on it.
Exit ==
    /\ exited' = TRUE
    /\ inbox' = <<>>
    /\ kernel' = [kernel EXCEPT !.left = None]

open ==
    /\ socket.fd <= 0
    /\ \/ socket' = [socket EXCEPT !.fd = 1] /\ UNCHANGED <<kernel, inbox, exited>>
       \/ socket' = [socket EXCEPT !.fd = -1] /\ Exit
    /\ UNCHANGED datagram

bind ==
    /\ socket.fd > 0
    /\ Exit
    /\ UNCHANGED <<socket, datagram>>

\* Another option of the socket; that it is set is of no account here.
setExtendedACKReporting ==
    /\ socket.fd > 0
    /\ Exit
    /\ UNCHANGED <<socket, datagram>>

\* The structure keeps the number of the closed fd, 0 here as for one never
\* opened; nothing of an unfinished dump survives on the socket.
close ==
    /\ socket.fd > 0
    /\ socket' = [socket EXCEPT !.fd = 0]
    /\ inbox' = <<>>
    /\ kernel' = [kernel EXCEPT !.left = None]
    /\ UNCHANGED <<datagram, exited>>

sendMessage(request) ==
    /\ \/ Answered(request) /\ UNCHANGED exited
       \/ Exit
    /\ UNCHANGED <<socket, datagram>>

\* What the ioBuffer has no room for is dropped.
ReceiveMessageHeader(message) ==
    SubSeq(message, 1, IF Len(message) <= socket.ioBuffer THEN Len(message) ELSE socket.ioBuffer)

\* recvmsg blocks until there is a datagram; NLMSG_OK then stops at the end of
\* what was received.
receiveMessage ==
    /\ inbox # <<>>
    /\ datagram' = ReceiveMessageHeader(Head(inbox))
    /\ inbox' = Tail(inbox)
    /\ UNCHANGED <<socket, kernel, exited>>
=============================================================================
