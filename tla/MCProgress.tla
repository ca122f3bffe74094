----------------------------- MODULE MCProgress -----------------------------
(***************************************************************************)
(* What the parts of a router get done, under the fairness their modules   *)
(* state, and the merge of claim maps.  As in MCRouter a behaviour follows *)
(* one part, and s1, s2, ... are the variables of that part in the order   *)
(* in which its module declares them.                                      *)
(***************************************************************************)
EXTENDS MCSubnetConvergence, Sequences

CONSTANTS User, Service,   \* of the books
          Torn, Done       \* of the front desk and of the projection

VARIABLES part, s1, s2, s3, s4, s5, s6, s7, s8, s9, s10, s11, s12, s13, s14, s15, s16

Pair == {1, 2}
Of(k) == [n \in Pair |-> k]
First(k) == [n \in Pair |-> IF n = 1 THEN k ELSE 0]

-----------------------------------------------------------------------------
(* The parts.                                                              *)

\* Two routers whose ids hash to one /24 of three.
Claiming == INSTANCE SubnetClaims
  WITH Node <- Pair, NumSlots <- 3, Preferred <- Of(0), Uci <- {1},
       Flaky <- {}, Fragile <- {}, Legacy <- {}, MaxWall <- Of(1), MaxRestarts <- 0,
       MaxInFlight <- 2, MaxReclaim <- 1,
       store <- s1, disk <- s2, inbox <- s3, reclaim <- s4, pc <- s5, target <- s6,
       claim <- s7, extras <- s8, dropping <- s9, avoid <- s10, addrs <- s11, lan <- s12,
       gateway <- s13, wall <- s14, restarts <- s15, adrift <- s16

\* Both nodes publish one name; the first may take it down.
Services == INSTANCE ServicesV2
  WITH Node <- Pair, Name <- {"wiki"}, Reserved <- {}, Request <- {"api"}, Silent <- {},
       Kept <- {}, Fragile <- {}, Flaky <- {}, MaxPublish <- Of(1), MaxUnpublish <- First(1),
       MaxWall <- 2, MaxRestarts <- 0, MaxInFlight <- 2,
       svc <- s1, file <- s2, inbox <- s3, at <- s4, snap <- s5, doomed <- s6,
       observed <- s7, wall <- s8, asked <- s9, restarts <- s10

\* The addresses of node 1 change.  No node restarts, so no file is read, and no
\* clock is set back.
Recording == INSTANCE Books
  WITH Node <- Pair, Moving <- {1}, Named <- {1},
       Seed <- [n \in Pair |-> IF n = 2 THEN User ELSE {}], Value <- {"stub", "ann"},
       Flaky <- {}, Jumpy <- {}, Fragile <- {}, MaxWall <- 2, MaxRestarts <- 0,
       MaxInFlight <- 2, lane <- s1, book <- s2, file <- s3, snap <- s4, inbox <- s5,
       wall <- s6, restarts <- s7, written <- s8

Desk == INSTANCE FrontDesk
  WITH Key <- {"k", "l"}, Nonce <- {1, 2}, Unfit <- {2},
       challenge <- s1, request <- s2, out <- s3, spool <- s4, sweep <- s5, bad <- s6,
       accepted <- s7, taken <- s8

\* hello serves two requests at a time, of which the first is repeated for ever.
Shown == INSTANCE Projection
  WITH Order <- <<"claims", "users">>, Request <- {1, 2},
       MaxVersion <- 1, version <- s1, clones <- s2, tmp <- s3, file <- s4, stat <- s5,
       cache <- s6

Uplink == INSTANCE Egress
  WITH DEMOTE_AFTER <- 3, Urls <- 2, HasWget <- TRUE, Bypass <- FALSE,
       routes <- s1, internet <- s2, hyst <- s3, verdict <- s4, probing <- s5, failures <- s6

Babel == INSTANCE BabelReconciler
  WITH Iface <- {"mj-1"}, Subnet <- {"s"}, L2 <- FALSE, Gateway <- TRUE,
       MaxChanges <- 2, MaxFails <- 1,
       mode <- s1, inputs <- s2, sample <- s3, last <- s4, started <- s5,
       pc <- s6, disk <- s7, babeld <- s8, changes <- s9, fails <- s10

Tunnel == INSTANCE Tunnels
  WITH Conn <- {1, 2, 3}, NoConn <- None, MaxFaults <- 2,
       dialed <- s1, closed <- s2, dead <- s3, task <- s4, slot <- s5, iface <- s6,
       sender <- s7, faults <- s8

\* The first node sends three beacons; either may restart.
Live == INSTANCE Liveness
  WITH Node <- Pair, Stale <- 0, HardExpiry <- 1, Fragile <- Pair, MaxBeacons <- First(3),
       MaxBoots <- 1,
       up <- s1, incarnation <- s2, counter <- s3, sent <- s4, seen <- s5, boots <- s6

\* Both nodes derive address 0 first, and 1 next; only the second has a third.
Addresses == INSTANCE Backhaul
  WITH Node <- Pair,
       Derive <- [n \in Pair |-> IF n = 1 THEN <<0, 1>> ELSE <<0, 1, 2>>],
       Fragile <- {1}, MaxWall <- 1, MaxCrashes <- 1, MaxInFlight <- 3,
       proc <- s1, addr <- s2, store <- s3, disk <- s4, inbox <- s5, wall <- s6,
       crashes <- s7, lost <- s8

\* The roster names the node itself and peer 2; peer 1 is known from the
\* address book, and peer 3 as an owner of claims only.
Swarm == INSTANCE Rejoin
  WITH Peer <- {1, 2, 3}, Self <- 0, Roster <- <<0, 2>>, Book <- {1}, Owners <- {3},
       Announced <- [p \in {1, 2, 3} |-> p], HardExpiry <- 1, Cap <- 2, MaxFlaps <- 1,
       neighbors <- s1, reach <- s2, book <- s3, heard <- s4, backoff <- s5, flaps <- s6

Host == INSTANCE UciReconciler
  WITH Subnet <- {"a", "b"}, MaxClaims <- 3, MaxFails <- 1, MaxTimeouts <- 1, MaxReboots <- 1,
       claim <- s1, lan <- s2, lanSaved <- s3, lanLive <- s4, pool <- s5, dhcp <- s6,
       dhcpSaved <- s7, dhcpLive <- s8, task <- s9, scripts <- s10, count <- s11

Life == INSTANCE Daemon
  WITH MaxFaults <- 2, MaxTroubles <- 2, lan <- s1, overlay <- s2, lanTunnels <- s3, trouble <- s4, pc <- s5,
       l2 <- s6, pinned <- s7, hints <- s8, loaded <- s9, tasks <- s10, disk <- s11,
       forward <- s12, faults <- s13, stopped <- s14

\* A patient client, alone or beside one that publishes and may leave its
\* request unfinished.
Asking ==
  {<<r, "publish">> : r \in {"publish", "unpublish", "long body"}} \cup
  {<<r, None>> : r \in {"bad body", "reserved name", "directory", "wrong method",
                        "wrong path", "no path", "long headers"}}
Control == INSTANCE ControlApi
  WITH Client <- {1, 2}, Patient <- {1},
       Asks <- Asking, Gateway <- {"g"}, MaxChanges <- 2, MaxRestarts <- 1,
       up <- s1, gateway <- s2, book <- s3, tomb <- s4, lost <- s5, heard <- s6,
       request <- s7, sent <- s8, open <- s9, status <- s10, result <- s11, changes <- s12,
       restarts <- s13

-----------------------------------------------------------------------------
(* A behaviour of one of them.                                             *)

\* Variables from the one after the k-th on, which a part does not use.
Idle14 == s15 = None /\ s16 = None
Idle13 == s14 = None /\ Idle14
Idle11 == s12 = None /\ s13 = None /\ Idle13
Idle10 == s11 = None /\ Idle11
Idle8 == s9 = None /\ s10 = None /\ Idle10
Idle6 == s7 = None /\ s8 = None /\ Idle8
Idle0 == s1 = None /\ s2 = None /\ s3 = None /\ s4 = None /\ s5 = None /\ s6 = None /\ Idle6

PartInit ==
  /\ ReplicasInit
  /\ \/ part = "merge" /\ Idle0
     \/ part = "subnet" /\ Claiming!Init
     \/ part = "services" /\ Services!Init /\ Idle10
     \/ part = "books" /\ Recording!Init /\ Idle8
     \/ part = "desk" /\ Desk!Init /\ Idle8
     \/ part = "projection" /\ Shown!Init /\ Idle6
     \/ part = "egress" /\ Uplink!Init /\ Idle6
     \/ part = "babel" /\ Babel!Init /\ Idle10
     \/ part = "tunnels" /\ Tunnel!TunnelsInit /\ Idle8
     \/ part = "liveness" /\ Live!Init /\ Idle6
     \/ part = "backhaul" /\ Addresses!Init /\ Idle8
     \/ part = "rejoin" /\ Swarm!Init /\ Idle6
     \/ part = "uci" /\ Host!Init /\ Idle11
     \/ part = "daemon" /\ Life!Init /\ Idle14
     \/ part = "control" /\ Control!Init /\ Idle13

from15 == <<s15, s16>>
from14 == <<s14, from15>>
from12 == <<s12, s13, from14>>
from11 == <<s11, from12>>
from9 == <<s9, s10, from11>>
from7 == <<s7, s8, from9>>

\* Variables up to the k-th.
upto8 == <<s1, s2, s3, s4, s5, s6, s7, s8>>
upto10 == <<upto8, s9, s10>>
upto16 == <<upto10, from11>>

PartNext ==
  /\ \/ part = "merge" /\ ReplicasNext /\ UNCHANGED upto16
     \/ /\ UNCHANGED replicaVars
        /\ \/ part = "subnet" /\ Claiming!Next
           \/ part = "services" /\ Services!Next /\ UNCHANGED from11
           \/ part = "books" /\ Recording!Next /\ UNCHANGED from9
           \/ part = "desk" /\ Desk!Next /\ UNCHANGED from9
           \/ part = "projection" /\ Shown!Next /\ UNCHANGED from7
           \/ part = "egress" /\ Uplink!Next /\ UNCHANGED from7
           \/ part = "babel" /\ Babel!Next /\ UNCHANGED from11
           \/ part = "tunnels" /\ Tunnel!TunnelsNext /\ UNCHANGED from9
           \/ part = "liveness" /\ Live!Next /\ UNCHANGED from7
           \/ part = "backhaul" /\ Addresses!Next /\ UNCHANGED from9
           \/ part = "rejoin" /\ Swarm!Next /\ UNCHANGED from7
           \/ part = "uci" /\ Host!Next /\ UNCHANGED from12
           \/ part = "daemon" /\ Life!Next /\ UNCHANGED from15
           \/ part = "control" /\ Control!Next /\ UNCHANGED from14
  /\ UNCHANGED part

all == <<replicaVars, part, upto16>>

-----------------------------------------------------------------------------
(* The fairness of the parts, as their modules state it (Fairness and      *)
(* FairSpec).  A behaviour follows one part, so the conjunction of the     *)
(* parts' conditions is one condition on an action of whichever part it is;*)
(* each line below is such an action, and n, i and the messages tell a     *)
(* part's actions apart.                                                   *)

Task == <<"tick", "dispatch", "api">>

Weak(n) ==
  \/ part = "subnet" /\ Claiming!Manager(n)
  \/ part = "services" /\ Services!Tick(n) /\ UNCHANGED from11
  \/ part = "liveness" /\ Live!Tick(n) /\ UNCHANGED from7
  \/ part = "backhaul" /\ Addresses!Respawn(n) /\ UNCHANGED from9
  \/ part = "control" /\ Control!control_api_handle_conn(n) /\ UNCHANGED from14
  \/ part = "desk" /\ Desk!Sweep(IF n = 1 THEN "identity" ELSE "names") /\ UNCHANGED from9
  \/ part = "projection" /\ n = 1 /\ Shown!CloneNext /\ UNCHANGED from7
  \/ part = "projection" /\ n = 2 /\ Shown!WriteTmp /\ UNCHANGED from7
  \/ part = "egress" /\ n = 1 /\ Uplink!ProbeLook /\ UNCHANGED from7
  \/ part = "egress" /\ n = 2 /\ Uplink!ProbeVerdict /\ UNCHANGED from7
  \/ part = "daemon" /\ n = 1 /\ Life!Start /\ UNCHANGED from15
  \/ part = "daemon" /\ n = 2 /\ Life!Respawn /\ UNCHANGED from15
  \/ part = "uci" /\ UNCHANGED from12
     /\ \E s \in s10 : (s.name = "late" <=> n = 2) /\ Host!Script(s)
  \/ part = "babel" /\ n = 1 /\ Babel!Loop /\ UNCHANGED from11
  \/ part = "tunnels" /\ n = 1 /\ (\E c \in {1, 2, 3} : Tunnel!Dial(c)) /\ UNCHANGED from9
  \/ part = "rejoin" /\ n = 1 /\ Swarm!Joined /\ UNCHANGED from7

WeakOf(n, i) ==
  \/ part = "services" /\ Services!Step(n, Task[i]) /\ UNCHANGED from11
  \/ part = "books" /\ i # 3 /\ Recording!Persist(n, Task[i]) /\ UNCHANGED from9
  \/ part = "tunnels" /\ Tunnel!Serve(IF n = 1 THEN "dialer" ELSE "acceptor", i)
     /\ UNCHANGED from9
  \/ part = "rejoin" /\ n = 1 /\ Swarm!NeighborDown(i) /\ UNCHANGED from7
  \/ part = "rejoin" /\ n = 2 /\ Swarm!Dialed(i) /\ UNCHANGED from7
  \/ part = "liveness" /\ i # 3 /\ Live!Receive(n, i, Len(s4[i])) /\ UNCHANGED from7
  \/ part = "backhaul" /\ i = 1 /\ Addresses!claim_backhaul_and_publish(n) /\ UNCHANGED from9
  \/ part = "uci" /\ n = 1 /\ i = 1 /\ Host!reconcile_dnsmasq_uci /\ UNCHANGED from12
  \/ part = "desk" /\ n = 1 /\ i = 1 /\ (Desk!OpenFile \/ Desk!WriteFile) /\ UNCHANGED from9
  \/ part = "projection" /\ n = 1 /\ i = 1 /\ Shown!Stat(1) /\ UNCHANGED from7
  \/ part = "control" /\ n = 1 /\ i = 1 /\ Control!Send(1) /\ UNCHANGED from14
  \/ part = "control" /\ n = 1 /\ i = 2 /\ Control!run_cli(1) /\ UNCHANGED from14
  \/ part = "control" /\ n = 2 /\ i = 1 /\ Control!announce_service_book_v2 /\ UNCHANGED from14
  \/ part = "control" /\ n = 2 /\ i = 2 /\ ~s1 /\ Control!Restart /\ UNCHANGED from14

\* Every message in flight is received.  (In a behaviour of the books here a
\* stamp tells which key its record is of.)
Received(n) ==
  /\ \A m \in Claiming!GossipMsg : WF_upto16(part = "subnet" /\ Claiming!Deliver(n, m))
  /\ \A m \in Services!Gossip : WF_upto10(part = "services" /\ Services!Deliver(n, m))
  /\ \A h \in Recording!Stamps :
       WF_upto8(/\ part = "books"
                /\ \E m \in s5[n] : m.entry.at = h /\ Recording!Deliver(n, m))
  /\ \A a \in Slot, c \in Addresses!Claims :
       WF_upto8(/\ part = "backhaul" /\ Addresses!Update(a, c) \in s5[n]
                /\ Addresses!Deliver(n, Addresses!Update(a, c)))

Strong(n) ==
  \/ part = "subnet" /\ Claiming!Heard(n, 3 - n)
  \/ part = "services" /\ Services!Heard(n, 3 - n) /\ UNCHANGED from11
  \/ part = "books" /\ Recording!Heard(n, 3 - n) /\ UNCHANGED from9
  \/ part = "backhaul" /\ Addresses!Heard(n, 3 - n) /\ UNCHANGED from9
  \/ part = "projection" /\ n = 1 /\ Shown!Renamed /\ UNCHANGED from7
  \/ part = "projection" /\ n = 2 /\ Shown!ReadOk(1) /\ UNCHANGED from7
  \/ part = "egress" /\ n = 1 /\ Uplink!Evidence /\ UNCHANGED from7

PartSpec ==
  /\ PartInit /\ [][PartNext]_all
  /\ \A n \in Pair :
       /\ WF_upto16(Weak(n))
       /\ \A i \in 1..3 : WF_upto16(WeakOf(n, i))
       /\ Received(n)
       /\ SF_upto16(Strong(n))

-----------------------------------------------------------------------------
(* The properties of the parts, as their modules state them.               *)

\* The values the variables of the part take.
PartTypeOK ==
  CASE part = "subnet" -> Claiming!TypeOK
    [] part = "services" -> Services!TypeOK
    [] part = "books" -> Recording!TypeOK
    [] part = "desk" -> Desk!TypeOK
    [] part = "babel" -> Babel!TypeOK
    [] part = "tunnels" -> Tunnel!TunnelsTypeOK
    [] part = "liveness" -> Live!TypeOK
    [] part = "backhaul" -> Addresses!TypeOK
    [] part = "rejoin" -> Swarm!TypeOK
    [] part = "uci" -> Host!TypeOK
    [] part = "daemon" -> Life!TypeOK
    [] part = "control" -> Control!TypeOK
    [] OTHER -> ReplicasTypeOK

\* The mesh sorts itself out: from some point on all nodes hold the same claims
\* and no two have the gateway address of one /24 up.
EventuallySettled == <>[](part = "subnet" => Claiming!AllUnique /\ Claiming!AllAgree)

\* The directory follows the owners: a name its owner holds for good becomes
\* known to every node without a tombstone for it, and one that its owner took
\* down for good, and whose tombstone it still has, disappears everywhere.
DirectoryFollows ==
  /\ \A o \in Pair : \A k \in Pair \ {o} :
       <>[](part = "services" /\ Services!Offered(o, k, "wiki"))
         => <>[](part = "services" => Services!Holds(k, o, "wiki"))
  /\ \A k \in Pair :
       <>[](part = "services" /\ Services!TakenDown(1, "wiki"))
         => <>[](part = "services" => ~Services!Holds(k, 1, "wiki"))

\* In the end all nodes hold the newest record of every key that some node
\* keeps announcing.
BooksAgree == <>[](part = "books" => Recording!AllHold)

\* The front desk is sound and the spool drains: a challenge buys one
\* submission, what the daemon merges is whole and was verified, and every file
\* hello leaves, half-written ones included, is ingested or quarantined.
DeskServes ==
  /\ [](part = "desk" => Desk!SingleUse /\ Desk!TakenWasVerified)
  /\ <>[](part = "desk" => Desk!SpoolEmpty)

\* hello serves whole files and takes no old body for the current one, and
\* when the stores come to rest it ends up serving what they hold.
EventuallyShown ==
  /\ [](part = "projection" => Shown!CacheCurrent /\ Shown!ServedWhole)
  /\ <>[](part = "projection" => Shown!Shown)

\* The advertisement follows the uplink: only DEMOTE_AFTER probes in a row that
\* ran and failed take a gateway off the air, one that is dead or captive for
\* good is in the end not advertised, and unplugging resets the verdict.
UplinkFollows ==
  /\ [](part = "egress" => Uplink!FailOpen)
  /\ <>[](part = "egress" /\ Uplink!DeadUplink)
       => <>[](part = "egress" => Uplink!local_egress # "healthy")
  /\ <>[](part = "egress" /\ Uplink!Unplugged) => <>[](part = "egress" => s4)

\* Once tunnels, claim and uplink come to rest, babeld runs with what they call
\* for, and it is not restarted for nothing on the way, as long as no call to
\* its init script fails.
BabeldFollows ==
  /\ [](part = "babel" => Babel!NoThrash)
  /\ <>[](part = "babel" => Babel!UpToDate)

\* The tunnel registry names interfaces that exist and carry the registered
\* connection, and however connections break or are refused, both ends come to
\* serve one and the same connection.
TunnelReturns ==
  /\ [](part = "tunnels" => Tunnel!RegistryTrue)
  /\ <>[](part = "tunnels" => Tunnel!SameTunnel)

\* The liveness view goes forward only, replays or not; a node that falls
\* silent for good is in the end stale and no gateway, and what a running node
\* last advertised is in the end what the others hold.
TrackerTrue ==
  /\ [][part = "liveness" => Live!ForwardStep]_all
  /\ \A o \in Pair : \A r \in Pair \ {o} :
       <>[](part = "liveness" /\ ~s1[o] /\ s1[r])
         => <>[](part = "liveness" => Live!Dropped(r, o))
  /\ <>[](part = "liveness" /\ Live!Speaks(2, 1))
       => <>[](part = "liveness" => Live!Current(2, 1))

\* While a node is up its own claim stands for the address it is bound to, and
\* in the end every node is up on an address of its own and dialed there.
AddressesSettle ==
  /\ [](part = "backhaul" => Addresses!BoundIsOurs)
  /\ <>[](part = "backhaul" => Addresses!Dialable)

\* A node that can reach a peer of its roster, or one it has not lost sight of
\* and has room to dial, gets back into the swarm.
Rejoins ==
  \A p \in {1, 2, 3} :
    <>[](part = "rejoin" /\ Swarm!WithinReach(p)) => []<>(part = "rejoin" => s1 # {})

\* The router always boots with its recovery address and one portal URL at
\* most, unless the very command fails that adds the one or takes the other
\* out, and bridge and leases follow the last claim, wedged calls included.
LeasesFollow ==
  /\ [](part = "uci" => Host!RecoveryAlias /\ Host!OnePortal)
  /\ <>[](part = "uci" => Host!Follows)

\* No lasting trouble but a fatal one (a bad key, option or roster, the port of
\* the responder taken, no tunnel device for the overlay) keeps the daemon down;
\* on its way up it rewrites no file before it was read, and it comes up with
\* the data plane its mode asks for.
EventuallyHolds ==
  /\ [](part = "daemon" => Life!NothingForgotten /\ Life!OneDataPlane)
  /\ <>[](part = "daemon" => Life!Holds)

\* The command line reports what happened to the directory, what was confirmed
\* stands, and a client that sends its request and waits gets an answer.
CliHonest ==
  /\ [](part = "control" => Control!ResultTrue)
  /\ [][part = "control" => Control!AnswerTrue /\ Control!NameStands]_all
  /\ <>[](part = "control" => s11[1] # None)
=============================================================================
