---------------------------- MODULE BrowserParts ----------------------------
(***************************************************************************)
(* The rooms of the signalling server, which browsers meet in.             *)
(***************************************************************************)
EXTENDS Slots, Naturals, Sequences, FiniteSets

CONSTANTS Browser, RoomId, maxPeers, MaxMoves, MaxQueue

Meeting == INSTANCE Rooms
  WITH Peer <- Browser, None <- Nil,
       rooms <- s1, peerRooms <- s2, topics <- s3, socket <- s4, queue <- s5, told <- s6,
       slipped <- s7, moves <- s8

ASSUME RoomsAssumption ==
  /\ IsFiniteSet(Browser) /\ maxPeers \in [RoomId -> Nat] /\ MaxMoves \in Nat
  /\ Nil \notin RoomId /\ \A ps \in SUBSET Browser : ps # Nil

MeetingInit == part = "rooms" /\ Meeting!Init /\ Idle9 /\ Idle11

MeetingNext == part = "rooms" /\ Meeting!Next /\ UNCHANGED from9 /\ UNCHANGED part

MeetingSpec == MeetingInit /\ [][MeetingNext]_<<part, slots>>

-----------------------------------------------------------------------------
(* The properties, as the module of the rooms states them.                 *)

\* The values the variables take.
MeetingTypeOK == part = "rooms" => Meeting!TypeOK

\* The rooms of the signalling server and its reverse lookup agree, and a peer
\* that has read its messages knows its room and the room-mates it has, apart
\* from those that slipped out by asking for a full room.
ViewsAgree == part = "rooms" => Meeting!RoomsAgree /\ Meeting!ViewsAgree

\* A signal reaches a peer when it knows the sender as a room-mate.
SenderKnown == part = "rooms" => Meeting!SenderKnown
=============================================================================
