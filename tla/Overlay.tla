------------------------------- MODULE Overlay -------------------------------
(***************************************************************************)
(* The overlay data plane of one router: a single TUN for all peers.       *)
(* Connections to peers are indexed by peer and by overlay address; a loop *)
(* mirrors the kernel's routes, which babeld sets, into a forwarding table;*)
(* the reader sends each packet from the TUN to the connection that the    *)
(* table and the address index name, or, if it is multicast, to all.       *)
(*                                                                         *)
(* A peer's overlay address is the one derived from its id unless another  *)
(* node won that address: then it is the next one derived (own).  The      *)
(* address index is built from the peer's id alone (addr_of).              *)
(***************************************************************************)
EXTENDS Naturals, Functions

CONSTANTS Peer,       \* the peers of the router
          Addr,       \* overlay addresses
          Derived,    \* Derived[p]: backhaul_addr of p, its first choice
          Moved,      \* peers that lost their first choice to another node
          Next2,      \* Next2[p]: the address such a peer p has
          Conn,       \* names for connections of which anything is left
          None

VARIABLES
  task,       \* task[c]: the peer whose connection c is served, or None
  by_peer,    \* ConnManager: the connection of each connected peer
  by_addr,    \* ConnManager: the connection for each overlay address
  kernel,     \* kernel[d]: next hop of the route for prefix d, or None
  listed,     \* the output of `ip route' that is being read, or None
  fib,        \* the router's copy of kernel
  sent        \* the connections the last packet was sent to

vars == <<task, by_peer, by_addr, kernel, listed, fib, sent>>

\* The prefixes babeld may install: client subnets and the default route.
Subnet == {"s", "t"}
Prefix == Subnet \cup {"default"}
Len(d) == IF d \in Subnet THEN 24 ELSE 0
\* Where a packet may go: into a subnet, beyond the mesh, to an overlay address,
\* to a neighbour's link-local address, to a multicast group.
Dest == Subnet \cup {"beyond", "overlay", "multicast"} \cup Addr
Covers(d, dest) == d = dest \/ (d = "default" /\ dest \in Subnet \cup {"beyond"})

own(p) == IF p \in Moved THEN Next2[p] ELSE Derived[p]

\* The values the variables take.
TypeOK ==
  /\ task \in [Conn -> Peer \cup {None}]
  /\ by_peer \in [Peer -> Conn \cup {None}]
  /\ by_addr \in [Addr -> Conn \cup {None}]
  /\ kernel \in [Prefix -> Addr \cup {None}]
  /\ listed \in [Prefix -> Addr \cup {None}] \cup {None}
  /\ fib \in [Prefix -> Addr \cup {None}]
  /\ sent \subseteq Conn

Init ==
  /\ task = [c \in Conn |-> None]
  /\ by_peer = [p \in Peer |-> None]
  /\ by_addr = [a \in Addr |-> None]
  /\ kernel = [d \in Prefix |-> None]
  /\ listed = None /\ fib = kernel
  /\ sent = {}

addr_of(p) == Derived[p]

-----------------------------------------------------------------------------
\* serve_overlay_conn: a connection of p, dialed or accepted, is entered in both
\* indexes, or refused if p has one.
Register(p, c) ==
  /\ task[c] = None /\ by_peer[p] = None
  /\ task' = [task EXCEPT ![c] = p]
  /\ by_peer' = [by_peer EXCEPT ![p] = c]
  /\ by_addr' = [by_addr EXCEPT ![addr_of(p)] = c]
  /\ UNCHANGED <<kernel, listed, fib, sent>>

\* Mutant: the address index keeps the closed connection.
DeregisterPeer(c) ==
  /\ task[c] # None
  /\ by_peer' = [by_peer EXCEPT ![task[c]] = None]
  /\ task' = [task EXCEPT ![c] = None]
  /\ UNCHANGED <<by_addr, kernel, listed, fib, sent>>

\* The connection closes: its peer leaves both indexes.
Deregister(c) ==
  /\ task[c] # None
  /\ by_peer' = [by_peer EXCEPT ![task[c]] = None]
  /\ by_addr' = [by_addr EXCEPT ![addr_of(task[c])] = None]
  /\ task' = [task EXCEPT ![c] = None]
  /\ UNCHANGED <<kernel, listed, fib, sent>>

\* babeld sets routes by way of neighbours, which it knows by their own address.
SetRoute(d) ==
  /\ kernel' = [kernel EXCEPT ![d] = None]
     \/ \E p \in Peer : kernel' = [kernel EXCEPT ![d] = own(p)]
  /\ UNCHANGED <<task, by_peer, by_addr, listed, fib, sent>>

NoRoutes == [d \in Prefix |-> None]

\* fib_mirror runs `ip route': nothing is printed if the command fails ...
ip_route_show ==
  /\ listed = None
  /\ listed' \in {kernel, NoRoutes}
  /\ UNCHANGED <<task, by_peer, by_addr, kernel, fib, sent>>

\* Mutant: a route that is gone from the kernel stays in the table.
MirrorKeeps ==
  /\ listed # None /\ listed' = None
  /\ fib' = [d \in Prefix |-> IF d = "default" \/ listed[d] = None THEN fib[d] ELSE listed[d]]
  /\ UNCHANGED <<task, by_peer, by_addr, kernel, sent>>

\* parse_cidr takes an address, with or without a length; the route to 0.0.0.0/0
\* is printed as `default via ...', which is none.
parse_cidr(d) == d # "default"

\* ... and replaces the whole table by what it can parse of the output, while
\* babeld may have set other routes.
fib_mirror ==
  /\ listed # None /\ listed' = None
  /\ fib' = [d \in Prefix |-> IF parse_cidr(d) THEN listed[d] ELSE None]
  /\ UNCHANGED <<task, by_peer, by_addr, kernel, sent>>

\* Fib::lookup: the longest prefix that covers the destination.
lookup(dest) ==
  LET hits == {d \in Prefix : fib[d] # None /\ Covers(d, dest)}
  IN IF hits = {} THEN None
     ELSE fib[CHOOSE d \in hits : \A e \in hits : Len(e) <= Len(d)]

\* OverlayRouter::next_hop: overlay addresses are not forwarded at all; a
\* neighbour's link-local address names the neighbour's overlay address.
next_hop(dest) ==
  IF dest \in Addr THEN dest
  ELSE IF dest = "overlay" THEN None ELSE lookup(dest)

Live == Range(by_peer) \ {None}

resolve(dest) == IF next_hop(dest) = None THEN None ELSE by_addr[next_hop(dest)]

\* overlay_reader: one packet from the TUN.
Forward(dest) ==
  /\ sent' = IF dest = "multicast" THEN Live ELSE {resolve(dest)} \ {None}
  /\ UNCHANGED <<task, by_peer, by_addr, kernel, listed, fib>>

Next ==
  \/ \E p \in Peer, c \in Conn : Register(p, c)
  \/ \E c \in Conn : Deregister(c)
  \/ \E d \in Prefix : SetRoute(d)
  \/ ip_route_show \/ fib_mirror
  \/ \E dest \in Dest : Forward(dest)

Spec == Init /\ [][Next]_vars

-----------------------------------------------------------------------------
(* Properties.                                                             *)

\* The next hop of the most specific of babeld's routes for a destination.
ByDefault(routes, dest) == dest = "beyond" \/ routes[dest] = None
RouteOf(routes, dest) == routes[IF ByDefault(routes, dest) THEN "default" ELSE dest]

\* The connection to the neighbour that is a route's next hop, if there is one.
Via(hop) ==
  IF \E p \in Peer : own(p) = hop THEN by_peer[CHOOSE p \in Peer : own(p) = hop] ELSE None

\* A poll is over, and packets for dest go where the routes it read say: to the
\* neighbour that is the next hop if that one is connected, else nowhere.
Polled == listed # None /\ listed' = None
Follows(dest) == resolve(dest)' = Via(RouteOf(listed, dest))

\* After each poll packets for a client subnet of the mesh go where babeld's
\* route for it says, as `ip route' printed it, and nowhere when babeld has
\* withdrawn the route, whatever connections came and went before.
DeliveredStep ==
  Polled => \A dest \in Subnet :
    (ByDefault(listed, dest) => RouteOf(listed, dest) = None) => Follows(dest)
Delivered == [][DeliveredStep]_vars

\* The forwarding table is documented as a mirror of babeld's routes in which
\* the default route catches everything else: after each poll packets for the
\* Internet go to the gateway that babeld chose.
DefaultDelivered == [][Polled => Follows("beyond")]_vars
=============================================================================
