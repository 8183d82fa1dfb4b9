--------------------------- MODULE NetworkDevice ---------------------------
(***************************************************************************)
(* net/networkdevice.c and net/ethernet.c: a NetworkDevice is filled in by *)
(* one ioctl for its index and four queries over a shared NetlinkSocket.   *)
(* A query is a loop: receive a datagram, stop if its FIRST message is     *)
(* NLMSG_DONE, otherwise walk its messages and copy what belongs to the    *)
(* device.  A query only ends at that NLMSG_DONE, so nothing of its answer *)
(* is left on the socket for the next one.                                 *)
(***************************************************************************)
EXTENDS Netlink

CONSTANTS
    Index,      \* the index of the device
    MaxQueries  \* the queries a program makes

VARIABLES
    device,     \* the NetworkDevice
    ethernet,   \* the Ethernet of the same name
    query,      \* the query that is running
    asked       \* the queries that have returned, in order

vars == <<socket, datagram, kernel, inbox, exited, device, ethernet, query, asked>>

IPv4Queries == {"IPv4Address", "IPv4Gateway"}
AddressQueries == {"IPv4Address", "IPv6Addresses"}
Queries == AddressQueries \cup {"IPv4Gateway", "IPv6Gateway"}

Family(q) == IF q \in IPv4Queries THEN "AF_INET" ELSE "AF_INET6"

createNetworkDevice ==
    [index |-> 0, ipv4Address |-> None, ipv6Global |-> None, ipv6Local |-> None,
     ipv4Gateway |-> None, ipv6Gateway |-> None]

------------------------------------------------------------------------------
\* getIPv4Address: the address of every message of the device replaces the one
\* before.  IFA_ADDRESS is the address of the peer on a point-to-point device.
IPv4Address(d, m) ==
    IF m.type = "RTM_NEWADDR" /\ m.index = d.index /\ m.scope = "RT_SCOPE_UNIVERSE"
    THEN [d EXCEPT !.ipv4Address = m.address]
    ELSE d

getIPv4Address(d, messages) == FoldLeft(IPv4Address, d, messages)

IPv6Address(d, m) ==
    CASE m.type = "RTM_NEWADDR" /\ m.index = d.index /\ m.scope = "RT_SCOPE_UNIVERSE"
           -> [d EXCEPT !.ipv6Global = m.address]
      [] m.type = "RTM_NEWADDR" /\ m.index = d.index /\ m.scope = "RT_SCOPE_LINK"
           -> [d EXCEPT !.ipv6Local = m.address]
      [] OTHER -> d

getIPv6Addresses(d, messages) == FoldLeft(IPv6Address, d, messages)

------------------------------------------------------------------------------
\* The gateway search, alike for both families.  A route's RTA_GATEWAY is
\* stored when it is met, and the walk over the attributes ends at an RTA_OIF
\* of another device, which the kernel puts behind the gateway.
HasAttribute(route, type) == \E a \in ToSet(route.attributes) : a[1] = type
Says(route, type, value) == \E a \in ToSet(route.attributes) : a[1] = type /\ a[2] = value

IsMainUnicast(m) ==
    m.type = "RTM_NEWROUTE" /\ m.table = "RT_TABLE_MAIN" /\ m.rtype = "RTN_UNICAST"

RouteAttribute(search, a) ==
    CASE search.leave -> search
      [] ~search.leave /\ a[1] = "RTA_GATEWAY" ->
            [search EXCEPT !.gateway = a[2], !.foundGateway = TRUE]
      [] ~search.leave /\ a[1] = "RTA_OIF" ->
            [search EXCEPT !.output = a[2], !.leave = a[2] # search.index]
      [] OTHER -> search

RouteAttributes(search, route) ==
    FoldLeft(RouteAttribute,
             [search EXCEPT !.foundGateway = FALSE, !.output = -1, !.leave = FALSE],
             route.attributes)

\* A mutant for the runs: any gateway ends the walk.
IsFoundEither(search) == search.foundGateway \/ search.output = search.index

IsFound(search) == search.foundGateway /\ search.output = search.index

Gateway(search, m) ==
    IF search.found \/ ~IsMainUnicast(m) THEN search
    ELSE LET s == RouteAttributes(search, m)
         IN  [s EXCEPT !.found = IsFound(s)]

\* The "break" of a find leaves the walk over this datagram only.
SearchGateway(index, gateway, messages) ==
    FoldLeft(Gateway,
             [index |-> index, gateway |-> gateway, found |-> FALSE,
              foundGateway |-> FALSE, output |-> -1, leave |-> FALSE],
             messages)

getIPv4Gateway(d, messages) ==
    [d EXCEPT !.ipv4Gateway = SearchGateway(d.index, @, messages).gateway]

getIPv6Gateway(d, messages) ==
    [d EXCEPT !.ipv6Gateway = SearchGateway(d.index, @, messages).gateway]

Walked(q, d, messages) ==
    CASE q = "IPv4Address"   -> getIPv4Address(d, messages)
      [] q = "IPv6Addresses" -> getIPv6Addresses(d, messages)
      [] q = "IPv4Gateway"   -> getIPv4Gateway(d, messages)
      [] q = "IPv6Gateway"   -> getIPv6Gateway(d, messages)

\* A device has a positive index, and a route leaves by one device.
ASSUME DeviceAssumption ==
    /\ Index \in Nat \ {0}
    /\ \A t \in Tables : \A m \in ToSet(t["RTM_GETROUTE"]) : IsMainUnicast(m) =>
          /\ m.attributes \in Seq(ToSet(m.attributes))
          /\ \A a, b \in ToSet(m.attributes) :
                a[1] = "RTA_OIF" /\ b[1] = "RTA_OIF" => a[2] = b[2]

------------------------------------------------------------------------------
Init ==
    /\ NetlinkInit
    /\ device = createNetworkDevice
    /\ ethernet = [mtu |-> None, speed |-> None]
    /\ query = None
    /\ asked = <<>>

IsIdle == ~exited /\ query = None

\* The SIOCGIFINDEX ioctl, fatal when the device is not there.
getNetworkDeviceIndex ==
    /\ IsIdle /\ device.index = 0
    /\ \/ device' = [device EXCEPT !.index = Index] /\ UNCHANGED <<kernel, inbox, exited>>
       \/ Exit /\ UNCHANGED device
    /\ UNCHANGED <<socket, datagram, ethernet, query, asked>>

\* SIOCGIFMTU is fatal when it fails; SIOCETHTOOL is reported, and the speed is
\* then taken from a status whose other fields were never written.
getEthernetMTU ==
    /\ IsIdle /\ ethernet.mtu = None
    /\ \/ ethernet' = [ethernet EXCEPT !.mtu = "mtu"] /\ UNCHANGED <<kernel, inbox, exited>>
       \/ Exit /\ UNCHANGED ethernet
    /\ UNCHANGED <<socket, datagram, device, query, asked>>

getEthernetStatus ==
    /\ IsIdle /\ ethernet.speed = None
    /\ \E speed \in {"speed", "unwritten"} : ethernet' = [ethernet EXCEPT !.speed = speed]
    /\ UNCHANGED <<netlinkVars, device, query, asked>>

Open == IsIdle /\ open /\ UNCHANGED <<device, ethernet, query, asked>>

\* bind and setExtendedACKReporting only matter when they fail: unbound, a
\* socket is bound by its first send.
Bind ==
    /\ IsIdle /\ asked = <<>>
    /\ bind \/ setExtendedACKReporting
    /\ UNCHANGED <<device, ethernet, query, asked>>

Close == IsIdle /\ close /\ UNCHANGED <<device, ethernet, query, asked>>

\* A query starts: its request is initialized and sent.
Request(q) ==
    IF q \in AddressQueries THEN NetlinkAddressRequest(Family(q))
    ELSE NetlinkRouteRequest(Family(q))

Ask(q) ==
    /\ IsIdle /\ socket.fd > 0 /\ device.index # 0 /\ Len(asked) < MaxQueries
    /\ sendMessage(Request(q))
    /\ query' = q
    /\ UNCHANGED <<device, ethernet, asked>>

\* A mutant for the runs: the search of a gateway returns at its find.
EndsTheAnswerOrFound(messages) ==
    \/ messages[1] = NLMSG_DONE
    \/ SearchGateway(device.index, None, messages).found

\* NLMSG_DONE is looked for in the first message of a datagram only.
EndsTheAnswer(messages) == messages[1] = NLMSG_DONE

Receive ==
    /\ ~exited /\ query # None
    /\ receiveMessage
    /\ IF EndsTheAnswer(datagram')
       THEN /\ query' = None
            /\ asked' = Append(asked, query)
            /\ UNCHANGED device
       ELSE /\ device' = Walked(query, device, datagram')
            /\ UNCHANGED <<query, asked>>
    /\ UNCHANGED ethernet

ReceiveFails ==
    /\ ~exited /\ query # None /\ inbox # <<>>
    /\ Exit
    /\ UNCHANGED <<socket, datagram, device, ethernet, query, asked>>

Kernel == KernelDumps /\ UNCHANGED <<device, ethernet, query, asked>>

Next ==
    \/ getNetworkDeviceIndex \/ getEthernetMTU \/ getEthernetStatus
    \/ Open \/ Bind \/ Close
    \/ \E q \in Queries : Ask(q)
    \/ Receive \/ ReceiveFails
    \/ Kernel

\* A query runs until it is answered, and the kernel goes on with a dump while
\* there is room on the socket.
Spec == Init /\ [][Next]_vars /\ WF_vars(Receive) /\ WF_vars(Kernel)

------------------------------------------------------------------------------
\* The queries share a socket: what a query reads is the answer to its own
\* request and never a rest of the answer to an earlier one, whichever was
\* asked before and wherever its datagrams were cut.
AnswersAreItsOwn ==
    [][Receive =>
         \A m \in ToSet(datagram') :
            \/ m = NLMSG_DONE
            \/ /\ m.type = IF query \in AddressQueries THEN "RTM_NEWADDR" ELSE "RTM_NEWROUTE"
               /\ m.family = Family(query)]_vars

\* What a finished query leaves in the device is what the kernel's tables say
\* of it: the last address of the scope, and a gateway of the device whenever
\* the last route with a gateway is one of the device's.  It takes an ioBuffer
\* that holds the longest datagram.
RowsOf(type, family) ==
    {i \in DOMAIN kernel.tables[type] : kernel.tables[type][i].family = family}
AddressesOf(family, scope) ==
    {i \in RowsOf("RTM_GETADDR", family) :
       LET m == kernel.tables["RTM_GETADDR"][i] IN m.index = Index /\ m.scope = scope}
LastAddress(family, scope) ==
    LET addresses == AddressesOf(family, scope)
    IN  IF addresses = {} THEN None ELSE kernel.tables["RTM_GETADDR"][Max(addresses)].address

GatewayRoutes(family) ==
    {i \in RowsOf("RTM_GETROUTE", family) :
       LET m == kernel.tables["RTM_GETROUTE"][i]
       IN  IsMainUnicast(m) /\ HasAttribute(m, "RTA_GATEWAY")}
RoutesOfDevice(family) ==
    {i \in GatewayRoutes(family) : Says(kernel.tables["RTM_GETROUTE"][i], "RTA_OIF", Index)}
IsGatewayOfDevice(gateway, family) ==
    GatewayRoutes(family) # {} /\ Max(GatewayRoutes(family)) \in RoutesOfDevice(family) =>
       \E i \in RoutesOfDevice(family) :
          Says(kernel.tables["RTM_GETROUTE"][i], "RTA_GATEWAY", gateway)

HasItsAnswer(q) ==
    CASE q = "IPv4Address"   -> device.ipv4Address = LastAddress("AF_INET", "RT_SCOPE_UNIVERSE")
      [] q = "IPv6Addresses" ->
            /\ device.ipv6Global = LastAddress("AF_INET6", "RT_SCOPE_UNIVERSE")
            /\ device.ipv6Local = LastAddress("AF_INET6", "RT_SCOPE_LINK")
      [] q = "IPv4Gateway"   -> IsGatewayOfDevice(device.ipv4Gateway, "AF_INET")
      [] q = "IPv6Gateway"   -> IsGatewayOfDevice(device.ipv6Gateway, "AF_INET6")
FindsWhatTheDeviceHas ==
    socket.ioBuffer >= Good => \A q \in ToSet(asked) \ {query} : HasItsAnswer(q)

\* A query ends, also of an empty table and with an ioBuffer too short for the
\* datagrams, as long as NLMSG_DONE comes in a datagram of its own.  When it
\* comes behind the last rows the query waits for ever.
QueryReturns == (query # None /\ ~kernel.coalesces) ~> (query = None \/ exited)
=============================================================================
