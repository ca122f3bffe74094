----------------------------- MODULE ServicesV2 -----------------------------
(***************************************************************************)
(* The service directory of a mesh: the service state of each daemon, the  *)
(* tasks that work on it (the gossip dispatch loop, the anti-entropy tick  *)
(* with its sweep, and one task per control-API request), and the file it  *)
(* is kept in.                                                             *)
(*                                                                         *)
(* A task changes the state under the locks and writes the file later,     *)
(* from a snapshot.  The control API and the tick take the snapshot with   *)
(* all locks held and await their broadcasts before the write; the         *)
(* dispatch loop and the sweep clone the three maps one lock at a time.    *)
(* The daemon's runtime has several threads, so every other task may run   *)
(* between any two of these steps.  A broadcast is a step with the change  *)
(* it reports: a message may be late by any time anyway.                   *)
(*                                                                         *)
(* The file matters to nobody but a later run of the same daemon.  It is   *)
(* followed at the nodes in Kept; elsewhere a task ends where its writing  *)
(* would begin.                                                            *)
(***************************************************************************)
EXTENDS Hlc, FiniteSets

-----------------------------------------------------------------------------
(* The directory as pure operators: the merge of two records               *)
(* (crdt/merge.rs) and what a publish and an unpublish do to the three     *)
(* maps a node keeps (crdt/service_apply.rs).  Of a record only the owner  *)
(* and the two stamps are kept: no rule of the lane looks at the address,  *)
(* the port or the other payload.                                          *)
CONSTANTS Name,       \* service names
          Reserved,   \* the well-known names nobody may claim
          None        \* no record

ServiceEntryV2 == [owner : Node, first_claimed_at : HLC, updated_at : HLC]
ServiceTombstone == [owner : Node, hlc : HLC]
LostName == [winner : Node, hlc : HLC]

ASSUME NameAssumption == Reserved \subseteq Name
ASSUME NoRecordAssumption ==
  None \notin ServiceEntryV2 /\ None \notin ServiceTombstone /\ None \notin LostName

\* The service state of a node: what it keeps in memory and writes to its file.
ServiceStateV2 ==
  [book : [Name -> ServiceEntryV2 \cup {None}],
   tombstones : [Name -> ServiceTombstone \cup {None}],
   lost_names : [Name -> LostName \cup {None}]]
Nothing == [x \in Name |-> None]
DefaultState == [book |-> Nothing, tombstones |-> Nothing, lost_names |-> Nothing]

\* The gossip messages of the lane.
PublishMsg == [type : {"publish"}, name : Name, entry : ServiceEntryV2]
UnpublishMsg == [type : {"unpublish"}, name : Name, owner : Node, hlc : HLC]
Msg == PublishMsg \cup UnpublishMsg

Publish(x, e) == [type |-> "publish", name |-> x, entry |-> e]
Unpublish(x, o, h) == [type |-> "unpublish", name |-> x, owner |-> o, hlc |-> h]

LocalStays(a, b) == [winner |-> a, loser |-> b]

\* Lower first claim wins; equal stamps fall back to the owner's id.
resolve_service_conflict_v2(a, b) ==
  IF \/ HlcLess(a.first_claimed_at, b.first_claimed_at)
     \/ a.first_claimed_at = b.first_claimed_at /\ a.owner <= b.owner
  THEN [winner |-> a, loser |-> b]
  ELSE [winner |-> b, loser |-> a]

merge_service_v2(x, local, incoming) ==
  CASE x \in Reserved -> [result |-> "Reserved"]
    [] x \notin Reserved /\ local = None -> [result |-> "Inserted"]
    [] x \notin Reserved /\ local # None /\ local.owner = incoming.owner ->
         [result |-> IF HlcLess(local.updated_at, incoming.updated_at)
                     THEN "Updated" ELSE "Unchanged"]
    [] OTHER ->
         LET r == resolve_service_conflict_v2(local, incoming) IN
         [result |-> "Conflict", winner |-> r.winner, loser |-> r.loser]

\* What a publish comes to.  A live entry makes a tombstone moot; without one
\* a tombstone lets only its own owner back, with a younger stamp.
PublishOutcome(st, x, e) ==
  IF st.book[x] # None \/ st.tombstones[x] = None
  THEN merge_service_v2(x, st.book[x], e)
  ELSE IF /\ e.owner = st.tombstones[x].owner
          /\ HlcLess(st.tombstones[x].hlc, e.updated_at)
       THEN [result |-> "Revived"]
       ELSE [result |-> "RejectedByTombstone"]

\* apply_merge_result, and the insert of a revived entry.
BookAfter(st, x, e) ==
  LET r == PublishOutcome(st, x, e) IN
  [st.book EXCEPT ![x] =
     CASE r.result \in {"Inserted", "Updated", "Revived"} -> e
       [] r.result = "Conflict" -> r.winner
       [] OTHER -> @]

\* The winner taken for the loser.
WinTracked(st, n, x, e) ==
  LET r == PublishOutcome(st, x, e) IN
  [st.lost_names EXCEPT ![x] =
     IF r.result = "Conflict" /\ r.winner.owner = n
     THEN [winner |-> r.winner.owner, hlc |-> r.winner.first_claimed_at]
     ELSE @]

\* track_conflict_loss: node n notes who took the name from it.
LossTracked(st, n, x, e) ==
  LET r == PublishOutcome(st, x, e) IN
  [st.lost_names EXCEPT ![x] =
     IF r.result = "Conflict" /\ r.loser.owner = n
     THEN [winner |-> r.winner.owner, hlc |-> r.winner.first_claimed_at]
     ELSE @]

\* apply_service_publish_v2_tracking_loss at node n.
ApplyPublish(st, n, x, e) ==
  [book |-> BookAfter(st, x, e),
   tombstones |-> st.tombstones,
   lost_names |-> LossTracked(st, n, x, e)]

AnyoneTakesDown(st, x, o) == st.book[x] # None

\* Whether an unpublish by o removes the live entry: it asks who owns the
\* entry and not how the two stamps compare.
TakesDown(st, x, o) == st.book[x] # None /\ st.book[x].owner = o

\* Whether it leaves a tombstone.
Buries(st, x, o, h) ==
  \/ TakesDown(st, x, o)
  \/ /\ st.book[x] = None
     /\ \/ st.tombstones[x] = None
        \/ /\ st.tombstones[x].owner = o
           /\ HlcLess(st.tombstones[x].hlc, h)

\* apply_service_unpublish_v2.
ApplyUnpublish(st, x, o, h) ==
  [book |-> IF TakesDown(st, x, o) THEN [st.book EXCEPT ![x] = None] ELSE st.book,
   tombstones |-> IF Buries(st, x, o, h)
                  THEN [st.tombstones EXCEPT ![x] = [owner |-> o, hlc |-> h]]
                  ELSE st.tombstones,
   lost_names |-> st.lost_names]

\* One gossip message at node n.
ApplyService(st, n, m) ==
  IF m.type = "publish"
  THEN ApplyPublish(st, n, m.name, m.entry)
  ELSE ApplyUnpublish(st, m.name, m.owner, m.hlc)

-----------------------------------------------------------------------------
CONSTANTS Request,       \* control-API requests that may be open at a node at once
          Silent,        \* nodes whose beacons may stop reaching the others
          Kept,          \* nodes whose state file is followed
          Fragile,       \* nodes whose daemon may restart
          Flaky,         \* nodes where a file write can fail
          MaxPublish,    \* bound: publish requests node n gets
          MaxUnpublish,  \* bound: unpublish requests node n gets
          MaxWall,       \* bound: wall-clock readings are 1..MaxWall
          MaxRestarts,   \* bound: daemon restarts in a behaviour
          MaxInFlight    \* bound: messages on their way to one node

ASSUME RequestAssumption == {"dispatch", "tick"} \cap Request = {}
ASSUME NodesAssumption == /\ Silent \subseteq Node
                          /\ Kept \subseteq Node /\ Fragile \subseteq Kept /\ Flaky \subseteq Kept
ASSUME BoundAssumption == /\ MaxPublish \in [Node -> Nat]
                          /\ MaxUnpublish \in [Node -> Nat]
                          /\ MaxWall \in Nat \ {0} /\ MaxRestarts \in Nat
                          /\ MaxInFlight \in Nat

Task == {"dispatch", "tick"} \cup Request

VARIABLES
  svc,        \* the service state of each daemon
  file,       \* its state file
  inbox,      \* gossip broadcast to a node and not yet received
  at,         \* where each task of a node is
  snap,       \* task's local: the snapshot it is about to write
  doomed,     \* sweep's local: the names it decided to drop
  observed,   \* sweep's local: tombstones an earlier sweep has seen
  wall,       \* the last wall-clock reading of each node
  asked,      \* requests a node's control API got so far, by kind
  restarts    \* restarts so far

taskVars == <<at, snap>>
vars == <<svc, file, inbox, taskVars, doomed, observed, wall, asked,
          restarts>>

FreshTasks == [t \in Task |-> IF t = "tick" THEN "announce" ELSE "free"]

Init ==
  /\ svc = [n \in Node |-> DefaultState]
  /\ file = [n \in Node |-> DefaultState]
  /\ inbox = [n \in Node |-> {}]
  /\ at = [n \in Node |-> FreshTasks]
  /\ snap = [n \in Node |-> [t \in Task |-> None]]
  /\ doomed = [n \in Node |-> {}]
  /\ observed = [n \in Node |-> {}]
  /\ wall = [n \in Node |-> 1]
  /\ asked = [n \in Node |-> [publish |-> 0, unpublish |-> 0]]
  /\ restarts = 0

Owns(n, x) == svc[n].book[x] # None /\ svc[n].book[x].owner = n

\* Gossip is best effort: of the messages a node sends, each other node gets
\* some, in any order and at any later time.
Broadcast(n, ms) ==
  \E got \in [Node \ {n} -> SUBSET ms] :
    /\ inbox' = [k \in Node |-> IF k = n THEN inbox[k] ELSE inbox[k] \cup got[k]]
    /\ \A k \in Node \ {n} : Cardinality(inbox'[k]) <= MaxInFlight

\* A task goes on to write the file, if the file is followed, or else to next.
GoesOn(n, t, stage, next) ==
  at' = [at EXCEPT ![n][t] = IF n \in Kept THEN stage ELSE next]

\* The broadcast without the write after it.
BroadcastOnly(n, t, ms) ==
  /\ Broadcast(n, ms)
  /\ at' = [at EXCEPT ![n][t] = "free"]
  /\ UNCHANGED snap

\* A task of n broadcasts ms and is left with a snapshot of the state to write.
BroadcastAndWrite(n, t, ms) ==
  /\ Broadcast(n, ms)
  /\ GoesOn(n, t, "write", "free")
  /\ snap' = [snap EXCEPT ![n][t] = IF n \in Kept THEN svc'[n] ELSE None]

-----------------------------------------------------------------------------
(* The control API.                                                        *)

\* control_api_handle_publish builds the entry: both stamps are now, for a
\* first claim and for a refresh.
NewEntry(n, w) ==
  [owner |-> n, first_claimed_at |-> now_hlc(n, w), updated_at |-> now_hlc(n, w)]

\* publish_service_v2 refuses reserved names and names lost to a peer.
AllowsReserved(n, x) == svc[n].lost_names[x] = None
MayPublish(n, x) == x \notin Reserved /\ svc[n].lost_names[x] = None

\* publish_service: apply, snapshot, then broadcast whatever came of it.
\* A refused request changes nothing.
ApiPublish(n, t, x) ==
  /\ t \in Request /\ at[n][t] = "free"
  /\ asked[n].publish < MaxPublish[n]
  /\ asked' = [asked EXCEPT ![n].publish = @ + 1]
  /\ \E w \in wall[n]..MaxWall :
       /\ wall' = [wall EXCEPT ![n] = w]
       /\ IF MayPublish(n, x)
          THEN LET e == NewEntry(n, w) IN
               /\ svc' = [svc EXCEPT ![n] = ApplyPublish(@, n, x, e)]
               /\ BroadcastAndWrite(n, t, {Publish(x, e)})
          ELSE UNCHANGED <<svc, inbox, taskVars>>
  /\ UNCHANGED <<file, doomed, observed, restarts>>

\* unpublish_service.  Any name may be unpublished, a reserved one too.
ApiUnpublish(n, t, x) ==
  /\ t \in Request /\ at[n][t] = "free"
  /\ asked[n].unpublish < MaxUnpublish[n]
  /\ asked' = [asked EXCEPT ![n].unpublish = @ + 1]
  /\ \E w \in wall[n]..MaxWall :
       /\ wall' = [wall EXCEPT ![n] = w]
       /\ svc' = [svc EXCEPT ![n] = ApplyUnpublish(@, x, n, now_hlc(n, w))]
       /\ BroadcastAndWrite(n, t, {Unpublish(x, n, now_hlc(n, w))})
  /\ UNCHANGED <<file, doomed, observed, restarts>>

-----------------------------------------------------------------------------
(* The dispatch loop and the anti-entropy tick.                            *)

\* One message is applied under the locks; the write follows.
Deliver(n, m) ==
  /\ m \in inbox[n]
  /\ at[n]["dispatch"] = "free"
  /\ inbox' = [inbox EXCEPT ![n] = @ \ {m}]
  /\ svc' = [svc EXCEPT ![n] = ApplyService(@, n, m)]
  /\ GoesOn(n, "dispatch", "applied", "free")
  /\ UNCHANGED <<file, snap, doomed, observed, wall, asked,
                 restarts>>

\* sweep_stale_lanes, first part: the names whose owner is hard-expired, which
\* this node never is for itself, having touched its own liveness just before.
SweepCollect(n) ==
  /\ at[n]["tick"] = "free"
  /\ \E expired \in SUBSET (Silent \ {n}) :
       doomed' = [doomed EXCEPT ![n] =
         {x \in Name : /\ svc[n].book[x] # None
                       /\ svc[n].book[x].owner \in expired}]
  /\ at' = [at EXCEPT ![n]["tick"] = IF doomed'[n] = {} THEN "gc" ELSE "sweep"]
  /\ UNCHANGED <<svc, file, inbox, snap, observed, wall, asked,
                 restarts>>

\* Second part: the entries go by name, whoever owns them by now.
Without(f, xs) == [x \in Name |-> IF x \in xs THEN None ELSE f[x]]
SweepDrop(n) ==
  /\ at[n]["tick"] = "sweep"
  /\ svc' = [svc EXCEPT ![n].book = Without(@, doomed[n])]
  /\ at' = [at EXCEPT ![n]["tick"] = "gc"]
  /\ UNCHANGED <<file, inbox, snap, doomed, observed, wall, asked,
                 restarts>>

\* Third part: tombstones past their retention go; one this task sees for the
\* first time stays.  The file is written if anything went.
Buried(n) == {x \in Name : svc[n].tombstones[x] # None}
SweepGc(n) ==
  /\ at[n]["tick"] = "gc"
  /\ \E gc \in SUBSET (Buried(n) \cap observed[n]) :
       /\ svc' = [svc EXCEPT ![n].tombstones = Without(@, gc)]
       /\ observed' = [observed EXCEPT ![n] = Buried(n) \ gc]
       /\ GoesOn(n, "tick", IF doomed[n] \cup gc = {} THEN "announce" ELSE "applied",
                 "announce")
  /\ doomed' = [doomed EXCEPT ![n] = {}]
  /\ UNCHANGED <<file, inbox, snap, wall, asked, restarts>>

\* announce_service_book_v2: the node's own entries and tombstones.
OwnEntries(n) == {Publish(x, svc[n].book[x]) : x \in {y \in Name : Owns(n, y)}}
OwnTombstones(n) ==
  {Unpublish(x, n, svc[n].tombstones[x].hlc) :
     x \in {y \in Buried(n) : svc[n].tombstones[y].owner = n}}
NoTombstones(n) == OwnEntries(n)
Own(n) == OwnEntries(n) \cup OwnTombstones(n)
Announce(n) ==
  /\ at[n]["tick"] = "announce"
  /\ UNCHANGED svc
  /\ BroadcastAndWrite(n, "tick", Own(n))
  /\ UNCHANGED <<file, doomed, observed, wall, asked, restarts>>

-----------------------------------------------------------------------------
(* The state file and restarts.                                            *)

\* snapshot_service_state_v2 clones the book ...
CloneBook(n, t) ==
  /\ at[n][t] = "applied"
  /\ snap' = [snap EXCEPT ![n][t] = [DefaultState EXCEPT !.book = svc[n].book]]
  /\ at' = [at EXCEPT ![n][t] = "cloning"]
  /\ UNCHANGED <<svc, file, inbox, doomed, observed, wall, asked,
                 restarts>>

\* ... and then, under locks of their own, the other two maps.
CloneRest(n, t) ==
  /\ at[n][t] = "cloning"
  /\ snap' = [snap EXCEPT ![n][t] = [svc[n] EXCEPT !.book = snap[n][t].book]]
  /\ at' = [at EXCEPT ![n][t] = "flush"]
  /\ UNCHANGED <<svc, file, inbox, doomed, observed, wall, asked,
                 restarts>>

\* persist_service_state_v2 replaces the file by a rename, best effort.  After
\* its sweep the tick goes on to the announcement.
Persist(n, t) ==
  /\ at[n][t] \in {"flush", "write"}
  /\ \/ file' = [file EXCEPT ![n] = snap[n][t]]
     \/ n \in Flaky /\ UNCHANGED file
  /\ snap' = [snap EXCEPT ![n][t] = None]
  /\ at' = [at EXCEPT ![n][t] =
              IF t = "tick" /\ @ = "flush" THEN "announce" ELSE "free"]
  /\ UNCHANGED <<svc, inbox, doomed, observed, wall, asked,
                 restarts>>

\* The daemon dies and comes back with its file, or with nothing when the file
\* does not decode.
Restart(n) ==
  /\ n \in Fragile
  /\ restarts < MaxRestarts
  /\ restarts' = restarts + 1
  /\ \E st \in {file[n], DefaultState} : svc' = [svc EXCEPT ![n] = st]
  /\ inbox' = [inbox EXCEPT ![n] = {}]
  /\ at' = [at EXCEPT ![n] = FreshTasks]
  /\ snap' = [snap EXCEPT ![n] = [t \in Task |-> None]]
  /\ doomed' = [doomed EXCEPT ![n] = {}]
  /\ observed' = [observed EXCEPT ![n] = {}]
  /\ UNCHANGED <<file, wall, asked>>

Step(n, t) == CloneBook(n, t) \/ CloneRest(n, t) \/ Persist(n, t)
Tick(n) == SweepCollect(n) \/ SweepDrop(n) \/ SweepGc(n) \/ Announce(n)

Next ==
  \E n \in Node :
    \/ \E t \in Request, x \in Name : ApiPublish(n, t, x) \/ ApiUnpublish(n, t, x)
    \/ \E m \in inbox[n] : Deliver(n, m)
    \/ \E t \in Task : Step(n, t)
    \/ Tick(n)
    \/ Restart(n)

Spec == Init /\ [][Next]_vars

-----------------------------------------------------------------------------
(* Fairness: every task of a daemon goes on (none of its awaits is         *)
(* unbounded), the tick's timer fires again and again, a message that can  *)
(* be received is, and a link loses messages but not for ever: what a node *)
(* announces at every tick gets through to each other node now and then.   *)

Stamps == {now_hlc(n, w) : n \in Node, w \in 1..MaxWall}
Gossip ==
  {Publish(x, [owner |-> h.node_id, first_claimed_at |-> h, updated_at |-> h]) :
     x \in Name, h \in Stamps}
    \cup {Unpublish(x, h.node_id, h) : x \in Name, h \in Stamps}

Heard(n, k) == Announce(n) /\ Own(n) \subseteq inbox'[k]

\* The tick's write, when it does not fail; it does not do so for ever.
Written(n) ==
  at[n]["tick"] = "write" /\ Persist(n, "tick") /\ file'[n] = snap[n]["tick"]

Fairness ==
  \A n \in Node :
    /\ \A t \in Task : WF_vars(Step(n, t))
    /\ WF_vars(Tick(n))
    /\ \A m \in Gossip : WF_vars(Deliver(n, m))
    /\ \A k \in Node \ {n} : SF_vars(Heard(n, k))
    /\ SF_vars(Written(n))

FairSpec == Spec /\ Fairness

-----------------------------------------------------------------------------
(* Properties.                                                             *)

\* The values the variables take.
TypeOK ==
  /\ svc \in [Node -> ServiceStateV2] /\ file \in [Node -> ServiceStateV2]
  /\ inbox \in [Node -> SUBSET Msg]
  /\ at \in [Node -> [Task -> {"free", "applied", "cloning", "flush", "sweep",
                               "gc", "announce", "write"}]]
  /\ snap \in [Node -> [Task -> ServiceStateV2 \cup {None}]]
  /\ doomed \in [Node -> SUBSET Name] /\ observed \in [Node -> SUBSET Name]
  /\ wall \in [Node -> 1..MaxWall]
  /\ asked \in [Node -> [publish : Nat, unpublish : Nat]]
  /\ restarts \in 0..MaxRestarts

\* A reserved name (hello, id) is in no node's directory, although an
\* unpublish may bury it and the revival of a buried name does not ask
\* whether the name is reserved.
ReservedUnclaimed == \A n \in Node, x \in Reserved : svc[n].book[x] = None

\* A node that lost a name to another owner's claim does not hold the name
\* for itself again, whatever happens to the winner's entry afterwards.  (A
\* daemon that restarts may: the file's maps need not be of one moment.)
LostIsLost ==
  \A n \in Node \ Fragile, x \in Name :
    svc[n].lost_names[x] # None => ~Owns(n, x)

\* Nobody takes a service down but its owner: an entry leaves a running
\* daemon's directory only by its owner's request or message, by losing
\* to an older claim, or by a sweep that found the name with a silent owner
\* (and removes it by name, so that a live owner's newer entry may go).
TakenDownStep ==
  \A n \in Node, x \in Name :
    LET e == svc[n].book[x]
        f == svc'[n].book[x] IN
    restarts' = restarts /\ e # None /\ f # e =>
      \/ /\ f = None
         /\ \/ at[n]["tick"] = "sweep" /\ x \in doomed[n]
            \/ \E m \in inbox[n] \ inbox'[n] :
                 m.type = "unpublish" /\ m.owner = e.owner
            \/ e.owner = n /\ asked'[n].unpublish > asked[n].unpublish
      \/ f # None /\ f.owner = e.owner /\ HlcLess(e.updated_at, f.updated_at)
      \/ f # None /\ f.owner # e.owner
         /\ HlcLeq(f.first_claimed_at, e.first_claimed_at)
OnlyOwnerTakesDown == [][TakenDownStep]_vars

\* A published service becomes known: once an owner holds its entry for good,
\* every node without a tombstone for the name ends up holding it for good.
Holds(k, o, x) == svc[k].book[x] # None /\ svc[k].book[x].owner = o
Offered(o, k, x) == Holds(o, o, x) /\ svc[k].tombstones[x] = None
EventuallyKnown ==
  \A o, k \in Node, x \in Name : <>[]Offered(o, k, x) => <>[]Holds(k, o, x)

\* The directories converge: from some point on all nodes hold the same one.
EventuallySame == <>[](\A n, k \in Node : svc[n].book = svc[k].book)

\* A service its owner took down for good, and whose tombstone it still has,
\* disappears from every node.
TakenDown(o, x) ==
  svc[o].tombstones[x] # None /\ svc[o].tombstones[x].owner = o /\ ~Holds(o, o, x)
EventuallyGone ==
  \A o, k \in Node, x \in Name : <>[]TakenDown(o, x) => <>[](~Holds(k, o, x))

\* An unpublish does not take down what its owner published after it.
RevivalStays ==
  [][\A n \in Node : \A m \in inbox[n] \ inbox'[n] :
       /\ m.type = "unpublish" /\ restarts' = restarts
       /\ Holds(n, m.owner, m.name)
       /\ HlcLess(m.hlc, svc[n].book[m.name].updated_at)
       => svc'[n].book[m.name] # None]_vars

\* A stale snapshot or a write that failed does not stay: if a node's service
\* state comes to rest, its file ends up equal to it for good.
FileCatchesUp ==
  \A n \in Kept :
    <>[][svc'[n] = svc[n]]_vars => <>[](file[n] = svc[n])
=============================================================================
