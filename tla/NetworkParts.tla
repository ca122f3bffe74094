---------------------------- MODULE NetworkParts ----------------------------
(***************************************************************************)
(* The overlay and the DNS responder of a router.                          *)
(***************************************************************************)
EXTENDS Slots, Naturals

CONSTANTS
  \* Overlay, with peers that all have their first choice of address
  Neighbour, Addr, Derived, Link,
  \* Responder
  WellKnown, Published, Leasable, Owner, RecordKind, Gateway, MaxChanges

Overlays == INSTANCE Overlay
  WITH Peer <- Neighbour, Moved <- {}, Next2 <- Derived, Conn <- Link, None <- Nil,
       task <- s1, by_peer <- s2, by_addr <- s3, kernel <- s4, listed <- s5,
       fib <- s6, sent <- s7

Dns == INSTANCE Responder
  WITH Reserved <- WellKnown, Kind <- RecordKind, None <- Nil,
       gateway <- s1, book <- s2, stale <- s3, leased <- s4, query <- s5, pc <- s6,
       got <- s7, reply <- s8, held <- s9, during <- s10, changes <- s11

\* Addresses are derived from keys: two peers have the same only if the hashes
\* of their keys collide, and then one of them moves on to another.
ASSUME OverlayAssumption ==
  /\ Derived \in [Neighbour -> Addr]
  /\ \A p, q \in Neighbour : Derived[p] = Derived[q] => p = q
  /\ Nil \notin Addr \cup Neighbour \cup Link
  /\ Addr \cap {"s", "t", "default", "beyond", "overlay", "multicast"} = {}

\* Neither a service nor a lease has a well-known name: is_reserved_service_name
\* keeps them out.
ASSUME ResponderAssumption ==
  /\ WellKnown \cap (Published \cup Leasable) = {}
  /\ "other" \notin RecordKind
  /\ Nil \notin Dns!Entry \cup Dns!Lease \cup [name : Dns!Name, type : Dns!QType]

-----------------------------------------------------------------------------
(* A behaviour of one of them.                                             *)

NetworkInit ==
  \/ part = "overlay" /\ Overlays!Init /\ s8 = Nil /\ Idle9 /\ Idle11
  \/ part = "responder" /\ Dns!Init /\ s12 = Nil

NetworkNext ==
  /\ \/ part = "overlay" /\ Overlays!Next /\ UNCHANGED <<s8, from9>>
     \/ part = "responder" /\ Dns!Next /\ UNCHANGED s12
  /\ UNCHANGED part

NetworkSpec == NetworkInit /\ [][NetworkNext]_<<part, slots>>

-----------------------------------------------------------------------------
(* The properties of the parts, as their modules state them.               *)

\* The values the variables take.
NetworkTypeOK == /\ part = "overlay" => Overlays!TypeOK
                 /\ part = "responder" => Dns!TypeOK

\* After each poll of the kernel's routes packets for a client subnet go where
\* babeld's route for it says, and nowhere when it has withdrawn the route.
Delivered == [][part = "overlay" => Overlays!DeliveredStep]_<<part, slots>>

\* Data sent for a query, and the claim that a name does not exist, were right
\* at some moment of the query, though a table changes while they are read.
AnswerWasRight == part = "responder" => Dns!AnswerWasRight
=============================================================================
