----------------------------- MODULE ControlApi -----------------------------
(***************************************************************************)
(* The local control API: command-line clients publish and withdraw one    *)
(* service name over HTTP, each on a connection of its own that either end *)
(* may drop, while the node's client subnet is claimed and moves, the node *)
(* announces what it has published and peers claim the name as well.       *)
(*                                                                         *)
(* Two stamps of this node, or of two, may come in either order: clocks    *)
(* differ, and are set back.  (The publish of a device is one of a name of *)
(* its own, and differs in the address alone.)                             *)
(***************************************************************************)
EXTENDS Naturals

CONSTANTS
  Client,       \* runs of the command line, one connection each
  Patient,      \* clients that send all of their request and wait
  Asks,         \* the requests they may make together; None: not run at all
  Gateway,      \* gateway addresses the node may come to have
  None,
  MaxChanges,   \* bound: what happens besides: claims, peers' messages, sweeps
  MaxRestarts   \* bound: restarts of the daemon

\* What a request is, as far as its route, its limits and its body go.  A bad
\* body does not parse, or has no name, or one that is not a host label.
Request == {"publish", "unpublish", "bad body", "reserved name", "directory",
            "wrong method", "wrong path", "no path", "long headers", "long body"}
Posts == {"publish", "unpublish", "bad body", "reserved name"}
HasBody == Posts \cup {"wrong method", "long body"}
Entry == [owner : {"self", "peer"}, ip : Gateway \cup {"192.168.1.1"}]

VARIABLES
  up,        \* the daemon listens
  gateway,   \* the gateway address, or None before a subnet is claimed
  book,      \* the entry of the name in the service directory, or None
  tomb,      \* whose tombstone the name has: "self", "peer" or None
  lost,      \* a peer's claim has beaten one of this node
  heard,     \* what the mesh last heard from this node about it
  request,   \* the request of each client
  sent,      \* how much of it was sent: nothing, line, headers, body
  open,      \* the client's end of the connection
  status,    \* the status the daemon answers, or None
  result,    \* what the command line reports, or None
  changes, restarts

client == <<request, sent, open>>
directory == <<book, tomb, lost>>
node == <<up, gateway, directory, heard, changes, restarts>>
vars == <<client, node, status, result>>

Init ==
  /\ up = TRUE /\ gateway = None /\ heard = None
  /\ book = None /\ tomb = None /\ lost = FALSE
  /\ request \in [Client -> Request \cup {None}] \cap Asks
  /\ sent = [c \in Client |-> 0]
  /\ open = [c \in Client |-> TRUE]
  /\ status = [c \in Client |-> None]
  /\ result = [c \in Client |-> None]
  /\ changes = 0 /\ restarts = 0

-----------------------------------------------------------------------------
(* The command line, control_api_client_request.                           *)

Send(c) ==
  /\ up /\ request[c] # None /\ open[c] /\ sent[c] < 3 /\ result[c] = None
  /\ sent' = [sent EXCEPT ![c] = @ + 1]
  /\ UNCHANGED <<request, open, node, status, result>>

\* A client stopped half-way, by its user for instance.
HangUp(c) ==
  /\ c \notin Patient /\ request[c] # None /\ open[c] /\ result[c] = None
  /\ open' = [open EXCEPT ![c] = FALSE]
  /\ UNCHANGED <<request, sent, node, status, result>>

\* An answer given before the request was read to its end may be lost with it.
run_cli(c) ==
  /\ open[c] /\ result[c] = None /\ status[c] # None
  /\ \E r \in {IF status[c] = "200" THEN "ok" ELSE "refused"}
               \cup (IF sent[c] < 3 THEN {"unreachable"} ELSE {}) :
       result' = [result EXCEPT ![c] = r]
  /\ UNCHANGED <<client, node, status>>

NobodyListens(c) ==
  /\ ~up /\ request[c] # None /\ open[c] /\ sent[c] = 0 /\ result[c] = None
  /\ result' = [result EXCEPT ![c] = "unreachable"]
  /\ UNCHANGED <<client, node, status>>

-----------------------------------------------------------------------------
(* The daemon.                                                             *)

\* How much the daemon has of c's request when it stops reading: the headers
\* end where the connection does, the body must be whole.
Whole(c) == IF request[c] \in HasBody THEN sent[c] = 3 ELSE sent[c] >= 2
Truncated(c) == ~open[c] /\ sent[c] = 1

\* Mutant: the body is taken as far as it has come.
ReadAnyBody(c) ==
  IF sent[c] = 0 THEN (IF open[c] THEN "wait" ELSE "gone")
  ELSE IF sent[c] >= 2 THEN "route" ELSE "wait"

\* control_api_read_request: wait for more, give up, or an outcome.
control_api_read_request(c) ==
  CASE sent[c] = 0 -> IF open[c] THEN "wait" ELSE "gone"
    [] sent[c] > 0 /\ request[c] = "no path" -> "malformed"
    [] sent[c] > 0 /\ request[c] # "no path" ->
         CASE request[c] = "long headers" /\ sent[c] >= 2 -> "long headers"
           [] request[c] = "long body" /\ sent[c] >= 2 -> "long body"
           [] request[c] \notin {"long headers", "long body"} /\ Whole(c) -> "route"
           [] Truncated(c) -> "empty"
           [] OTHER -> IF open[c] THEN "wait" ELSE "gone"

current_gateway == IF gateway = None THEN "192.168.1.1" ELSE gateway

Mine == book # None /\ book.owner = "self"
Theirs == book # None /\ book.owner = "peer"

Answers(c, code) ==
  /\ status' = [status EXCEPT ![c] = code]
  /\ UNCHANGED <<directory, heard>>

\* Inserted, Updated, Revived, or a conflict this node wins.
Taken(c) ==
  /\ book = None => tomb # "peer"
  /\ book' = [owner |-> "self", ip |-> current_gateway]
  /\ status' = [status EXCEPT ![c] = "200"]
  /\ UNCHANGED <<tomb, lost>>

\* Unchanged: the node's own entry is no older, and stays.
Kept(c) ==
  /\ Mine
  /\ status' = [status EXCEPT ![c] = "200"]
  /\ UNCHANGED directory

\* A conflict the peer's claim wins.
Beaten(c) ==
  /\ Theirs
  /\ lost' = TRUE
  /\ status' = [status EXCEPT ![c] = "409"]
  /\ UNCHANGED <<book, tomb>>

\* RejectedByTombstone: a peer's, or a younger one of this node.
Rejected(c) ==
  /\ book = None /\ tomb # None
  /\ status' = [status EXCEPT ![c] = "409"]
  /\ UNCHANGED directory

\* Mutant: a claim that was beaten is answered like one that won.
AnswersAll200(c) ==
  \/ lost /\ Answers(c, "409")
  \/ /\ ~lost
     /\ status' = [status EXCEPT ![c] = "200"]
     /\ \/ book' = [owner |-> "self", ip |-> current_gateway] /\ UNCHANGED <<tomb, lost>>
        \/ Theirs /\ lost' = TRUE /\ UNCHANGED <<book, tomb>>
     /\ heard' = [owner |-> "self", ip |-> current_gateway]

\* control_api_handle_publish, publish_service: a name known to be lost is
\* refused at once (LostToPeer).  Otherwise the entry goes out to the mesh
\* whatever the merge came to.
control_api_handle_publish(c) ==
  \/ lost /\ Answers(c, "409")
  \/ /\ ~lost
     /\ Taken(c) \/ Kept(c) \/ Beaten(c) \/ Rejected(c)
     /\ heard' = [owner |-> "self", ip |-> current_gateway]

\* control_api_handle_unpublish, unpublish_service: likewise, and a name that
\* is another node's, live or not, stays as it is (IgnoredNotOwner).
control_api_handle_unpublish(c) ==
  /\ heard' = None
  /\ IF Theirs \/ (book = None /\ tomb = "peer")
       THEN /\ status' = [status EXCEPT ![c] = "409"]
            /\ UNCHANGED directory
       ELSE /\ status' = [status EXCEPT ![c] = "200"]
            /\ book' = None /\ tomb' = "self" /\ UNCHANGED lost

control_api_route(c) ==
  CASE request[c] = "publish"      -> control_api_handle_publish(c)
    [] request[c] = "unpublish"    -> control_api_handle_unpublish(c)
    [] request[c] \in {"bad body", "reserved name"} -> Answers(c, "400")
    [] request[c] = "directory"    -> Answers(c, "200")
    [] request[c] = "wrong method" -> Answers(c, "405")
    [] OTHER                       -> Answers(c, "404")

\* Mutant: connections are served in turn, each to its end.
ServeInTurn(c) ==
  /\ up /\ status[c] = None /\ result[c] = None
  /\ \A d \in Client \ {c} : sent[d] > 0 => status[d] # None
  /\ control_api_read_request(c) = "route" /\ control_api_route(c)
  /\ UNCHANGED <<client, up, gateway, changes, restarts, result>>

\* Each connection is a task; one that waits holds up no other.
control_api_handle_conn(c) ==
  /\ up /\ status[c] = None /\ result[c] = None
  /\ LET read == control_api_read_request(c)
     IN CASE read = "wait"                          -> FALSE
          [] read = "route"                         -> control_api_route(c)
          [] read = "gone"                          -> Answers(c, "gone")
          [] read = "long body"                     -> Answers(c, "413")
          [] read \in {"malformed", "long headers"} -> Answers(c, "400")
          [] read = "empty" ->
               IF request[c] \in Posts THEN Answers(c, "400")
               ELSE control_api_route(c)
  /\ UNCHANGED <<client, up, gateway, changes, restarts, result>>

-----------------------------------------------------------------------------
(* The rest of the daemon.                                                 *)

Happens == up /\ changes < MaxChanges /\ changes' = changes + 1

\* The claim manager lands a subnet, loses it, or lands another.
Reclaim(g) ==
  /\ Happens
  /\ gateway' = g
  /\ UNCHANGED <<client, up, directory, heard, restarts, status, result>>

Untouched == UNCHANGED <<client, up, gateway, heard, restarts, status, result>>

\* Another node's entry takes the name: it is free here, its owner is back
\* with a younger stamp, or its claim is the earlier one.
PeerPublishes ==
  /\ Happens
  /\ Mine \/ (book = None /\ tomb # "self")
  /\ book' = [owner |-> "peer", ip |-> "192.168.1.1"]
  /\ lost' = (lost \/ Mine)
  /\ UNCHANGED tomb /\ Untouched

\* Another node gives the name up.
PeerUnpublishes ==
  /\ Happens
  /\ Theirs \/ (book = None /\ tomb = None)
  /\ book' = None /\ tomb' = "peer"
  /\ UNCHANGED lost /\ Untouched

\* sweep_stale_lanes: the entry of a silent owner goes, or an old tombstone.
sweep_stale_lanes ==
  /\ Happens
  /\ \/ Theirs /\ book' = None /\ UNCHANGED tomb
     \/ tomb # None /\ tomb' = None /\ UNCHANGED book
  /\ UNCHANGED lost /\ Untouched

\* announce_service_book_v2: own entries go out again as they stand, and own
\* tombstones.
announce_service_book_v2 ==
  /\ up
  /\ heard' = IF Mine THEN book ELSE IF tomb = "self" THEN None ELSE heard
  /\ UNCHANGED <<client, up, gateway, directory, changes, restarts, status, result>>

\* The daemon goes down with its connections, and comes back with its book.
Restart ==
  /\ IF up THEN restarts < MaxRestarts /\ restarts' = restarts + 1 ELSE UNCHANGED restarts
  /\ up' = ~up
  /\ gateway' = None
  /\ result' = [c \in Client |-> IF up /\ open[c] /\ sent[c] > 0 /\ result[c] = None
                                   THEN "unreachable" ELSE result[c]]
  /\ status' = [c \in Client |-> IF up /\ sent[c] > 0 /\ status[c] = None
                                   THEN "gone" ELSE status[c]]
  /\ UNCHANGED <<client, directory, heard, changes>>

Next ==
  \/ \E c \in Client : Send(c) \/ HangUp(c) \/ run_cli(c) \/ NobodyListens(c)
                       \/ control_api_handle_conn(c)
  \/ \E g \in Gateway \cup {None} : Reclaim(g)
  \/ PeerPublishes \/ PeerUnpublishes \/ sweep_stale_lanes
  \/ announce_service_book_v2 \/ Restart

Spec == Init /\ [][Next]_vars

(* Fairness: connections are tasks the runtime schedules, the announcement *)
(* runs every 20 s, procd brings the daemon back, a patient client sends.  *)
Fairness ==
  /\ \A c \in Client : WF_vars(control_api_handle_conn(c))
  /\ \A c \in Patient : WF_vars(Send(c)) /\ WF_vars(run_cli(c))
  /\ WF_vars(announce_service_book_v2)
  /\ WF_vars(~up /\ Restart)

FairSpec == Spec /\ Fairness

-----------------------------------------------------------------------------
(* Properties.                                                             *)

\* The values the variables take.
TypeOK ==
  /\ gateway \in Gateway \cup {None} /\ book \in Entry \cup {None} /\ heard \in Entry \cup {None}
  /\ tomb \in {None, "self", "peer"} /\ lost \in BOOLEAN
  /\ request \in [Client -> Request \cup {None}] /\ sent \in [Client -> 0..3]
  /\ \A c \in Client : result[c] \in {None, "ok", "refused", "unreachable"}
  /\ changes \in 0..MaxChanges /\ restarts \in 0..MaxRestarts

\* The command line passes on what the daemon answered.
ResultTrue ==
  \A c \in Client :
    /\ result[c] = "ok" => status[c] = "200"
    /\ result[c] = "refused" => status[c] \in {"400", "404", "405", "409", "413"}

\* The daemon answers for what it did: a publish is confirmed only if the name
\* is this node's from then on, an unpublish only if it is gone and its
\* tombstone is this node's; a refused request leaves book and tombstone as
\* they were, and one that is not whole is not confirmed.
AnswerTrue ==
  \A c \in Client :
    status'[c] # status[c] =>
      /\ status'[c] = "200" /\ request[c] = "publish" => Mine' /\ sent[c] = 3
      /\ status'[c] = "200" /\ request[c] = "unpublish"
           => book' = None /\ tomb' = "self" /\ sent[c] = 3
      /\ status'[c] # "200" => UNCHANGED <<book, tomb>>

\* What was confirmed stands: the name leaves this node only with an unpublish
\* it confirms or to a claim that beats its own, and a name lost that way this
\* node never takes back.
NameStands ==
  /\ Mine /\ ~Mine' =>
       \/ \E c \in Client : request[c] = "unpublish" /\ status[c] = None /\ status'[c] = "200"
       \/ Theirs' /\ lost'
  /\ lost => lost' /\ (Mine' => Mine)

CliHonest == []ResultTrue /\ [][AnswerTrue /\ NameStands]_vars

\* A client that sends its request and waits gets an answer, for good, whatever other
\* clients leave unfinished.
PatientAnswered == \A c \in Patient : <>[](request[c] # None => result[c] # None)

\* A published service ends up at the address of the node's gateway, also when
\* it was published before the subnet was claimed or the subnet has moved.
GatewayPinned ==
  <>[](Mine /\ gateway # None => heard.ip = gateway)
=============================================================================
