------------------------------- MODULE Rooms -------------------------------
(***************************************************************************)
(* The signalling server that browsers find each other through: peers join,*)
(* leave and switch rooms of bounded size and send signals to room-mates.  *)
(* A request is handled in one step (RoomManager, then the subscriptions,  *)
(* then the messages to send); what it sends is on its way to each peer in *)
(* order, while further requests are handled.  A rejected request (too     *)
(* many, malformed, not in a room) changes nothing.                        *)
(***************************************************************************)
EXTENDS Naturals, Sequences, FiniteSets

CONSTANTS Peer,       \* connections; each gets a fresh id
          RoomId,
          maxPeers,   \* maxPeers[r]: peers room r takes
          None,
          MaxMoves,   \* bound: joins and leaves
          MaxQueue    \* bound: messages on their way to one peer

VARIABLES
  rooms,       \* the members of each room, None for a room that is not there
  peerRooms,   \* the room of each peer, or None
  topics,      \* the topics the socket of each peer is subscribed to
  socket,      \* "new", "open" or "closed"
  queue,       \* messages on their way to a peer
  told,        \* room and room-mates, as the messages a peer has read say
  slipped,     \* <<p, r>>: p went from room r and r was not told
  moves

vars == <<rooms, peerRooms, topics, socket, queue, told, slipped, moves>>

Init ==
  /\ rooms = [r \in RoomId |-> None]
  /\ peerRooms = [p \in Peer |-> None]
  /\ topics = [p \in Peer |-> {}]
  /\ socket = [p \in Peer |-> "new"]
  /\ queue = [p \in Peer |-> <<>>]
  /\ told = [p \in Peer |-> [room |-> None, peers |-> {}]]
  /\ slipped = {} /\ moves = 0

-----------------------------------------------------------------------------
(* RoomManager.                                                            *)

Members(rs, r) == IF rs[r] = None THEN {} ELSE rs[r]

\* Mutant: an empty room stays.
WithoutKeeps(rs, p) ==
  [r \in RoomId |-> IF rs[r] = None THEN None ELSE rs[r] \ {p}]

\* removePeer, and the end of a room with its last peer.
Without(rs, p) == [r \in RoomId |-> IF Members(rs, r) \ {p} = {} THEN None ELSE rs[r] \ {p}]

isFull(rs, r) == Cardinality(Members(rs, r)) >= maxPeers[r]

\* Mutant: the rooms are not compared.
BothInARoom(p, q) == peerRooms[p] # None /\ peerRooms[q] # None

arePeersInSameRoom(p, q) == peerRooms[p] # None /\ peerRooms[p] = peerRooms[q]

-----------------------------------------------------------------------------
(* The messages.                                                           *)

\* Mutant: the topic of the old room is kept.
TopicsAdded(p, r) == IF r = None THEN topics[p] ELSE topics[p] \cup {r}

\* The subscriptions follow the change of rooms.
Topics(p, r) ==
  IF r = peerRooms[p] THEN topics[p]
  ELSE (topics[p] \ {peerRooms[p]}) \cup (IF r = None THEN {} ELSE {r})

\* ws.publish: to the other subscribers of the topic.
publish(p, r, t, m) ==
  [q \in Peer |-> IF q # p /\ r \in t[q] /\ socket[q] = "open" THEN <<m>> ELSE <<>>]

Fits == \A q \in Peer : Len(queue'[q]) <= MaxQueue
Moves == moves < MaxMoves /\ moves' = moves + 1

Left(p) == [type |-> "peer-left", peer |-> p]
Joined(p) == [type |-> "peer-joined", peer |-> p]

-----------------------------------------------------------------------------
(* The handlers.                                                           *)

\* open: a fresh id; the welcome says nothing of rooms.
Open(p) ==
  /\ socket[p] = "new"
  /\ socket' = [socket EXCEPT ![p] = "open"]
  /\ UNCHANGED <<rooms, peerRooms, topics, queue, told, slipped, moves>>

\* join-room: the peer leaves its room first; if the new one is full it is then
\* in none, and its old room is not told.
joinRoom(p, r) ==
  LET old == peerRooms[p]
      after == Without(rooms, p)
      full == isFull(after, r)
      there == Members(after, r)
  IN /\ socket[p] = "open" /\ old # r
     /\ rooms' = IF full THEN after ELSE [after EXCEPT ![r] = there \cup {p}]
     /\ peerRooms' = [peerRooms EXCEPT ![p] = IF full THEN None ELSE r]
     /\ topics' = [topics EXCEPT ![p] = Topics(p, IF full THEN None ELSE r)]
     /\ IF full
          THEN /\ UNCHANGED queue
               /\ slipped' = slipped \cup (IF old = None THEN {} ELSE {<<p, old>>})
          ELSE /\ LET gone == publish(p, old, topics', Left(p))
                      came == publish(p, r, topics', Joined(p))
                      answer == <<[type |-> "room-joined", room |-> r, peers |-> there]>>
                  IN queue' = [q \in Peer |-> queue[q] \o gone[q] \o
                                 (IF q = p THEN answer ELSE came[q])]
               /\ slipped' = slipped \ {<<p, r>>}
     /\ Fits /\ Moves
     /\ UNCHANGED <<socket, told>>

leaveRoom(p) ==
  /\ socket[p] = "open" /\ peerRooms[p] # None
  /\ rooms' = Without(rooms, p)
  /\ peerRooms' = [peerRooms EXCEPT ![p] = None]
  /\ topics' = [topics EXCEPT ![p] = Topics(p, None)]
  /\ queue' = [q \in Peer |-> queue[q] \o publish(p, peerRooms[p], topics', Left(p))[q]]
  /\ Fits /\ Moves
  /\ UNCHANGED <<socket, told, slipped>>

\* An offer, an answer or an ICE candidate for a room-mate.
Signal(p, q) ==
  /\ socket[p] = "open" /\ p # q /\ arePeersInSameRoom(p, q)
  /\ queue' = [queue EXCEPT ![q] = Append(@, [type |-> "signal", peer |-> p])]
  /\ Fits
  /\ UNCHANGED <<rooms, peerRooms, topics, socket, told, slipped, moves>>

\* close: the peer goes with all that is kept for its connection.
Close(p) ==
  /\ socket[p] = "open"
  /\ socket' = [socket EXCEPT ![p] = "closed"]
  /\ rooms' = Without(rooms, p)
  /\ peerRooms' = [peerRooms EXCEPT ![p] = None]
  /\ topics' = [topics EXCEPT ![p] = {}]
  /\ queue' = [q \in Peer |->
                 IF q = p THEN <<>>
                 ELSE queue[q] \o publish(p, peerRooms[p], topics, Left(p))[q]]
  /\ Fits
  /\ UNCHANGED <<told, slipped, moves>>

\* A peer reads a message.
Read(p) ==
  /\ queue[p] # <<>>
  /\ queue' = [queue EXCEPT ![p] = Tail(@)]
  /\ LET m == Head(queue[p])
     IN told' = CASE m.type = "room-joined" ->
                       [told EXCEPT ![p] = [room |-> m.room, peers |-> m.peers]]
                  [] m.type = "peer-joined" -> [told EXCEPT ![p].peers = @ \cup {m.peer}]
                  [] m.type = "peer-left" -> [told EXCEPT ![p].peers = @ \ {m.peer}]
                  [] OTHER -> told
  /\ UNCHANGED <<rooms, peerRooms, topics, socket, slipped, moves>>

Next ==
  \E p \in Peer :
    \/ Open(p) \/ leaveRoom(p) \/ Close(p) \/ Read(p)
    \/ \E r \in RoomId : joinRoom(p, r)
    \/ \E q \in Peer : Signal(p, q)

Spec == Init /\ [][Next]_vars

-----------------------------------------------------------------------------
(* Properties.                                                             *)

\* The values the variables take.
TypeOK ==
  /\ \A r \in RoomId : rooms[r] = None \/ rooms[r] \subseteq Peer
  /\ peerRooms \in [Peer -> RoomId \cup {None}] /\ topics \in [Peer -> SUBSET RoomId]
  /\ \A p \in Peer : told[p].peers \subseteq Peer
  /\ slipped \subseteq Peer \X RoomId /\ moves \in 0..MaxMoves

\* Rooms and reverse lookup agree through refused joins, switches and closed
\* connections: a peer is a member of the room it is looked up in and of no
\* other, and no room outlives its last member or holds more than it may.
RoomsAgree ==
  \A r \in RoomId :
    /\ Members(rooms, r) = {p \in Peer : peerRooms[p] = r}
    /\ rooms[r] # {} /\ Cardinality(Members(rooms, r)) <= maxPeers[r]

\* A peer that has read its messages knows its room and exactly the room-mates
\* it has, apart from those that slipped out by asking for a full room.
ViewsAgree ==
  \A p \in Peer :
    queue[p] = <<>> /\ peerRooms[p] # None =>
      LET r == peerRooms[p]
      IN /\ told[p].room = r
         /\ told[p].peers \ {q \in Peer : <<q, r>> \in slipped} = rooms[r] \ {p}

\* What the peer-left of a switch is there for, and TLC refutes: the same with
\* nobody left out.
RoomMatesTold ==
  \A p \in Peer :
    queue[p] = <<>> /\ peerRooms[p] # None => told[p].peers = rooms[peerRooms[p]] \ {p}

\* A signal reaches a peer when it knows the sender as a room-mate, however
\* many switches of rooms lie between the sending and the reading.
SenderKnown ==
  \A p \in Peer :
    queue[p] # <<>> /\ Head(queue[p]).type = "signal" => Head(queue[p]).peer \in told[p].peers
=============================================================================
