# Lightning mesh: TLA+ models, checks and proofs

This directory holds a formal model of the mesh daemon `mjolnir-meshd` and of
the programs around it. The TLA+ modules are written from the source under
`src/`. TLC checks them on small instances. TLAPS proves the theorems for every
value of the constants. `PROJECT.json` lists the components, the runs with their
properties, the source lines behind every definition, the hazards and the
theorems.

## 1. The system

Every router of the mesh runs one daemon. The daemons share state by gossip: a
message is broadcast, some neighbours get it, in any order and perhaps twice.
Every daemon keeps a copy of every *lane* (a map of one kind of entry), merges
what it receives, sends its whole map again every 20 s (anti-entropy), and
writes it to a file of its own. Nothing else coordinates the routers.

| Part | State | Operations | Talks to |
|---|---|---|---|
| Hybrid logical clock (`crdt/hlc.rs`) | none | stamp, compare | every lane |
| Subnet claims (`crdt/subnet.rs`, `merge.rs`, `bin/mjolnir-meshd.rs` 1790-2261) | claim map, claims file, reclaim channel, gateway addresses, UCI lan address | claim, publish, conflict, release, retract, rebroadcast, restore | gossip, netlink, UCI, DNS responder |
| Backhaul claims (meshd 1999-2100) | same claim map | pick, publish, exit 86 on a lost collision | gossip, interface set-up |
| Allocator (`alloc.rs`) | none | pick a free subnet of a wanted or smaller size | subnet claims |
| Service directory v2 (`crdt/service*.rs`) | entries, tombstones, lost names | publish, unpublish, merge, revive, sweep | gossip, control API, DNS |
| Service directory v1, users, node names, peer addresses | one last-writer-wins map each | announce, merge, persist | gossip, DNS, dialers |
| Leased names (`crdt/leased_name.rs`) | leases | claim, renew, expire, conflict | gossip, name-claim spool, DNS |
| Liveness (`crdt/liveness.rs`) | last beacon of each node | observe, touch, stale, hard-expire, forget | gossip, lane sweep, egress |
| Egress (`crdt/egress.rs`, meshd 3862-3984) | probe hysteresis, advertisement | probe, classify, advertise | liveness beacons |
| Rejoin loop (meshd 608-671) | neighbour count, back-off | join again | gossip transport |
| Control API (meshd 4529-5110) | none of its own | publish, unpublish, directory, route | service directory |
| DNS responder (`dns_responder.rs`) | name tables, gateway handle | answer a query | all books |
| Babel reconciler (meshd 5808-5936, `babel/config.rs`) | tunnel set, last configuration | reconcile, restart babeld | tunnels |
| Overlay (meshd 6077-6452, `tun/*.rs`) | connection map, FIB | dial, accept, forward, mirror | babel, peers |
| Directory projection (meshd 2949-3200, `mjolnir-hello/src/routes.rs` 45-111) | `directory.json`, hello's cache | clone, write, rename, serve | all books, browsers |
| UCI reconcilers (meshd 5400-5644) | the router's own configuration | edit, commit, reload | subnet claims, dnsmasq |
| Per-peer tunnels (meshd 5950-6065) | registry, interfaces | dial, accept, serve | babel, peers |
| Daemon life (`main`, `run_mesh`) | tasks, files read | start, hold, stop, respawn | everything |
| Hello web service (`mjolnir-hello`) | challenges, spool files | challenge, submit | daemon's spool ingest |
| meshctl (`mjolnir-meshctl`) | inventory, observed resources | plan, apply, deploy | RouterOS over ssh |
| Signalling server (`src/src`) | rooms, peers, rate windows | join, leave, switch, relay | browsers |

What is hard about it:

* every daemon is several tasks that share a map under a lock and await network,
  netlink and subprocesses between two looks at it;
* gossip loses, duplicates, delays and reorders;
* clocks are not synchronised and the stamp's counter is never advanced;
* the daemon may die between any two steps, and what it put into the kernel
  survives a respawn while its memory does not;
* netlink, UCI and file operations are best effort: a failure is logged and the
  daemon goes on.

What should hold: no two routers serve one /24; a router never answers on a /24
it lost; the first writer keeps a subnet; replicas that saw the same changes
agree; the mesh settles after a collision; what was unpublished stays
unpublished; a name has one owner at a time; a dead node leaves every table and
a live one does not.

## 2. Modules

One module per component. A component's state is its VARIABLES, and each handler
or step of the code between two awaits, unlocks or subprocesses is an action,
named after the function where there is one. `Mutant:` comments mark variants of
a definition that a run can be given instead, to show that a property notices.

| Module | What it models |
|---|---|
| `Hlc` | Stamps, their total order, `now_hlc`. |
| `SubnetMerge`, `SubnetClaims`, `SubnetConvergence` | The subnet lane: its merge; claim manager, dispatch and anti-entropy of every node; the merge alone. |
| `ServicesV2` | The service directory: its merge with tombstones and lost names; control API, dispatch, tick and file of every node. |
| `NewestWins`, `Books` | What a last-write-wins book promises; the four books that implement it. |
| `LeasedNames` | Leases of client names: claim, renewal, expiry, conflict, file. |
| `FrontDesk` | hello's challenges and spool files, and the daemon's sweep of them. |
| `Projection` | `directory.json` from clones of the stores, and hello's cache of it. |
| `Liveness` | Beacons with incarnation and counter, and every node's tracker. |
| `Egress` | Uplink classification, probe and hysteresis. |
| `Backhaul` | Backhaul addresses: derive, bind, claim, exit on a lost collision. |
| `Rejoin` | Neighbours, candidate ranking, the rejoin loop. |
| `BabelReconciler` | The two loops that configure and restart babeld. |
| `UciReconciler` | The two functions that rewrite the router's UCI configuration. |
| `Tunnels` | Per-peer tunnels between two routers. |
| `Overlay` | The single-TUN data plane: connection indexes, route mirror, lookup. |
| `Daemon` | `main` and `run_mesh`: the order of the start, shutdown, respawn. |
| `ControlApi` | HTTP requests over connections either end may drop, and the command line. |
| `Responder` | One DNS query over three tables under three locks. |
| `Allocator` | `alloc.rs` on blocks of mixed sizes, in a space of any width. |
| `MeshctlApply`, `MeshctlDeploy` | The operator's tool against a RouterOS router. |
| `Rooms` | The signalling server. |
| `Slots`, `NamesParts`, `NetworkParts`, `MeshctlParts`, `BrowserParts` | The parts of run `router` side by side: leases and services; tunnels, overlay and responder; the operator's tool; the signalling server. |
| `MC...` | Instances for TLC. |
| `...Proofs` | Theorems and proofs. |

### Subnet claims

`SubnetClaims` models claims on the client /24s. A /24 is a *slot*, a number in
`0..NumSlots-1`; a node's id hashes to its `Preferred` slot. State and actions
follow the three tasks of the daemon that touch the claim store:

* The **dispatch loop** applies one message under the lock (`Deliver`). If a
  conflict takes an own claim away, the subnet goes to the reclaim channel.
* The **claim manager** is a program with a counter `pc`. It looks at the store
  once (`PartitionClaims`); releases all but its senior claim, one after the
  other (`ReleaseDrop`, `ReleasePublish`, `ReleaseRetract`); or picks a free
  slot from the snapshot and inserts the claim blindly (`PickAndInsert`,
  `PickNothing`); publishes (`PublishClaim`); puts the address up and tells the
  responder (`AssignAddr`); and waits for a loss (`HandleLoss`). Between two of
  these steps the code awaits, so other tasks run there.
* The **anti-entropy loop** broadcasts the whole map and writes the claims file
  (`AntiEntropy`).

`Restart` is a daemon that dies and comes back: by a respawn, with the kernel's
addresses as they were, or by a reboot, with the lan address UCI has. It restores
the claims file or, if that does not decode, nothing. The wait for a first
neighbour before the first pick only delays the manager; the model lets it wait
at every step.

`Flaky` are the nodes whose netlink, UCI and file operations may fail, `Uci` those
with OpenWrt's configuration, `Fragile` those that restart, `Legacy` those that
start with a claims file of an earlier boot, which may hold several own claims
(the comment at meshd 2102-2107 says how they came about). A clock reading is any
value from the last one up to `MaxWall`; two nodes' readings are unrelated.

`adrift` is a history variable: the subnets whose claim went without the manager
being told, because a peer released it, a restart forgot it, or the kernel
refused to delete the address. These are the exceptions the properties name, and
run `subnet_shared` shows what they cost.

`SubnetConvergence` has replicas and a fixed set `Ops` of messages; a replica
receives any message at any time, again if it comes twice. `Converged` is strong
eventual consistency: replicas that received the same set hold the same map. It
is true when every owner claims a subnet once (`SingleClaims`) and false
otherwise. Messages with a release are left out: a release leaves no tombstone,
so a copy of the claim that comes after it brings the claim back.

### The service directory

`ServicesV2` has one service state per node (`svc`: book, tombstones, lost names)
and tasks with a stage `at`:

* A **request** of the control API (`ApiPublish`, `ApiUnpublish`) changes the state
  under the locks and takes a snapshot; after the broadcast it writes the
  snapshot. A second publish of a name stamps `first_claimed_at` anew, as the
  code does.
* The **dispatch loop** applies a message (`Deliver`), clones the three maps under
  one lock after the other (`CloneBook`, `CloneRest`) and writes them.
* The **tick** sweeps in three steps, as the code takes and releases its locks
  (`SweepCollect`, `SweepDrop`, `SweepGc`), writes if something went, announces
  its own entries and tombstones (`Announce`) and writes again. Whose silence is
  long enough, and which tombstones are old enough, is a choice: the sweep may
  expire any owner in `Silent` and drop any tombstone an earlier sweep saw.
* `Persist` is the write, which may fail at `Flaky` nodes. `Restart` brings a
  `Fragile` node back with its file or, if that does not decode, with nothing.

The file is followed at the nodes in `Kept` only. The clock reading of a request
and the change it stamps are one step. Services of a device (`--ip`) are left
out: their name is scoped to the node, so no other node contends for it.

### The last-write-wins books, and what they implement

`Books` follows one of four lanes (peer addresses, node names, users, services of
the first version), chosen in `Init`. A tick refreshes the records its node is the
source of, broadcasts the book and later writes the snapshot it took; the dispatch
loop merges a record and later writes the snapshot it took. The two snapshots race
to one file, and a restart goes back to whatever was written last. Identity
submissions enter the user lane, with a label or without. A file that cannot be
read or decoded counts as lost, since the next tick replaces it. Readings of a
clock go forward, through restarts too, except at the nodes in `Jumpy`, whose clock
may be set back.

`NewestWins` is the abstract specification: a node's record of a key is replaced
only by a newer record that some node wrote, or by what a restart brings back,
which is an older record or none; a node whose clock is set back still replaces what
it says of itself. `Books!KeepsPromise` is `NewestWins!Spec` under the mapping
`copy <- book`; it is checked in run `router` and proved in `DaemonProofs`.

### Leases and the front desk

`LeasedNames` has one book and one clock per node. The clocks drift apart, and those
of `Jumpy` nodes are also set back (`Wait`). A claim ingested at a desk (`Claim`) is
merged and, if it prevails, broadcast once; `name_owned_by` finds one live name of a
key, the first in the book's order. A restart brings back the file or, if that does
not decode, nothing. `TakesOnlyLapsed` is about the clock of the node that takes the
claim: a lease it can date is safe there until it has run out by that clock. Across
nodes no more can be said: a node whose clock is ahead of the others' takes over a
name while their clocks still call its lease live. `OneNamePerKey` assumes that the
key's desk is one node and that its clock is not set back. `MCLeasedNames` adds
`heard`, a history of what each node has applied to its book.

`FrontDesk` has two processes that meet in the file system. hello verifies a
submission, consumes its challenge and writes the spool file in place, in two
steps (`OpenFile`, `WriteFile`); a write that fails on the way (`SpoolFails`) is
answered with an error and leaves a torn file behind. The daemon lists a directory, reads a file, merges
or quarantines it and removes whatever is then under the name. Either may run
between any two steps of the other.

### Liveness, uplink, addresses, swarm

`Liveness` keeps every beacon ever sent, so that it may arrive again at any time;
time is the age of the accepted beacon at each receiver. `Egress` has the routes,
what is behind the uplink, and the probe task between its look and its verdict.
`Backhaul` uses `SubnetMerge` with addresses for slots; a node that loses its
address saves the winner's claim and exits. `Rejoin` follows one node, its peers'
reachability and the exponential back-off, and models `rank_bootstrap_candidates`
whole.

### What runs on the router

`BabelReconciler` has the loop's sample, the last rendering, the file and what
babeld runs with; `UciReconciler` runs the shell scripts command by command, with
time-outs that leave a script running and reboots that drop what is not committed.
A failing commit or init script ends a script (`&&`); a failing edit is passed over
(`;`) and what the others made of the list is committed (`SkipLan`, `SkipDhcp`). An
address whose `add_list` failed is then not added again while the primary address is
the claimed one.
`Tunnels` has two ends, each with a task per connection, a registry slot and an
interface that outlives its tunnel a little. `Overlay` has the two indexes of
`ConnManager`, babeld's kernel routes, what a poll of them printed and the mirror made
of it (`ip_route_show`, then `fib_mirror`: routes may change in between); prefixes are a
host, a subnet and the default. `Daemon` has every step of the start that can fail,
with lasting troubles (chosen once) and transient faults. Troubles are `Tolerated` (the
daemon goes on without the part) or `Fatal` (the step returns its error with `?`, and
every start ends there: a bad key, option or roster, the responder's port taken, no
tunnel device for the overlay). Its lanes and tasks say what is read before what is
rewritten. `Projection` and `Responder` read stores under one
lock after the other while other tasks change them.

`ControlApi` follows each connection by how much of the request was sent, and one
service name: its entry, its tombstone and whether this node has lost it. The handlers
have every outcome of the merge (`Taken`, `Kept`, `Beaten`, `Rejected`, a name known to
be lost) with its status; stamps are abstracted to the choice among the outcomes they
allow. As in the code, a request whose claim was beaten or rejected is broadcast all
the same. Applying, broadcasting and saving are one step here; `ServicesV2` takes them
apart. A publish that merges as unchanged is answered 200 although the older entry of
this node stays.

### The operator's tool and the signalling server

`MeshctlApply` observes a router resource by resource, derives the changes and runs
them one by one; an SSH command may fail before or after it took effect, and
people edit and delete by hand (nothing is added by hand during a session). The
router starts in any state, with resources that are missing, drifted or there several
times and items left from earlier desired states. What RouterOS accepts (`Accepts`) is
external: an item needs those it refers to, and what is owned by its name or address is
unique. `MeshctlDeploy` replaces the container on one router after the other and points
a connector at the address it finds in its listener's log, or at the `peer_blob` of the
inventory, which may change from run to run; a connector with neither is skipped. Each
router is new at first, or was deployed earlier and runs since.

`Rooms` handles a request in one step, as the event loop does, and delivers what
it sends in order to each socket. `told` is what a browser that reads its messages
believes. Messages to an open socket are assumed not to be dropped for
back-pressure; requests that the rate limiter or the parser rejects change
nothing and are left out.

## 3. Runs

`MCRouter` and `MCProgress` check many parts in one run. The variable `part` says
which part a behaviour follows, and `s1`, `s2`, ... are that part's variables. Parts
checked side by side in this way share no state, so nothing is lost by not
interleaving them. `MCSubnetClaims` does the same with three scenarios of one
module.

| Run | Asks | Result |
|---|---|---|
| `subnet` | two routers that hash to one /24: a mesh with moving clocks and failing netlink; a claims file of older firmware; a daemon that dies anywhere. Are addresses and gateway always backed, are /24s unique once settled, does the first writer win? | holds |
| `services_restart` | a reserved name that gets buried, torn and stale snapshots, failing writes, a sweep and a restart: does the name stay out, does the file catch up? | holds |
| `router` | safety of books, leases, services, overlay, responder, allocator, apply, deploy and rooms (below) | holds |
| `progress` | what the other parts promise under fairness, with their invariants (below) | holds |
| `subnet_shared` | no two settled, agreeing nodes serve one /24 | violated: respawn before the first tick |
| `subnet_merge_again` | convergence when an owner claims twice | violated: replicas differ |
| `services_split` | both publish twice: do the directories agree in the end? | violated: each node ends with the other's entry |
| `services_revive` | publish, unpublish, publish again: does the revived entry stay? | violated: the old tombstone takes it down |
| `leased_split` | do nodes that applied the same leases agree? | violated: the claims of three keys beat each other in a circle, so the order decides |
| `spool_lost` | is every accepted submission ingested? | violated: swept between creation and content |
| `gateway_pin` | does a published service end up at the node's gateway address? | violated: it keeps the address of the publish |
| `overlay_default` | is a packet for the Internet sent where babeld routes it? | violated: `default` is not parsed |

The violated properties are what a document or comment of the repository says;
`findings` in `PROJECT.json` quotes the lines.

`router` checks, part by part:

* books: `KeepsPromise` (refinement of `NewestWins`), `LabelSticks` (a chosen name is
  not replaced by the bare key); the clock of node 1 may be set back;
* leases: `OneNamePerKey`, `TakesOnlyLapsed` (a name is taken from another key only when
  its lease has run out by the clock of the node that takes the claim); the clock of
  node 2 may be set back;
* services: `LostIsLost`, `OnlyOwnerTakesDown`;
* overlay: `Delivered` (once a listing of the kernel's routes is taken in, a packet goes
  by a live connection to the peer the listing names, whatever changed since it was
  printed; multicast to every peer once);
* responder: `AnswerWasRight` (an answer was right at some moment of the query, if at
  most one store changed during it);
* allocator: `LargestThatFits` (what is granted is free and of the largest size of
  which any aligned block is free);
* apply: `OneOfEach` (no second item is made, and none of several touched),
  `OnePassConverges` (an undisturbed session leaves everything as desired but for
  ambiguous resources); deploy: `DoneIsStable` (a deployment reported as done left one
  container under its own identity), `DialsPrinted` (a connector gets its listener's
  kept identity, and the address the running process has printed once it has);
* rooms: `ViewsAgree` (the server's two maps agree, and so does what a browser that
  has read its messages believes), `SenderKnown`.

`progress` checks one promise per part, made of what must always hold and what
must come about: `Converged` for the claim merge, `EventuallySettled`,
`DirectoryFollows`, `BooksAgree`, `DeskServes`, `EventuallyShown`, `UplinkFollows`,
`BabeldFollows`, `TunnelReturns`, `TrackerTrue`, `AddressesSettle`, `Rejoins`,
`LeasesFollow`, `EventuallyHolds` (the daemon comes up unless a fatal trouble ends every
start) and `CliHonest` (answers say what happened to the directory, what was confirmed
stands, patient clients are answered). The conjuncts are defined and explained in the
parts' modules. `BooksAgree` is checked with clocks that are not set back: after that
the others keep the owner's earlier record, which has the higher stamp, until its clock
has caught up.

### Bounds

* Nodes: two, three owners in the merge, three peers in `Rejoin` and `Rooms`.
  Collisions, ties, overtaking and lost messages need two. Both routers prefer one
  slot, and one service or name is contended; a second name would be a second
  copy of the lane, except for leases, where `OneNamePerKey` needs two names.
* `MaxInFlight` bounds the messages on their way to one node: two let an update and
  a release, or two owners' claims, overtake each other. `MaxReclaim` bounds the
  losses waiting for a manager.
* `MaxWall` is two readings: an older, an equal and a younger stamp. Leases have
  three readings of each node's clock and a lease of one, so that it can lapse and be
  claimed again, and so that clocks disagree on whether it has.
* Restarts, reboots and crashes: one. A second starts from a state the first
  already produces. `MaxFails`, `MaxTimeouts`, `MaxFaults`: one or two, so that a
  failure meets the recovery from another.
* Requests: one publish per node (two where a refresh is the question); two
  clients of the control API, one with any request beside one that publishes (a
  second reader would change nothing), and two changes of the name by peers, so that
  one can take it and give it up again; two requests of hello at a time; two
  challenges and two keys.
* Changes of inputs: two for babeld, so that one comes while the other is being
  applied; three claims for UCI, so that a third meets a script the daemon gave up
  waiting for; three beacons, so that an old
  one can come after two newer; three tunnel connections, so that a third is
  dialled while two are being taken down; two overlay connections, of two peers or one
  replacing the other of one peer.
* Lasting troubles of the start: two at a time, so that one hides another. The swarm
  rejoins with a cap of two, below its three candidates.
* Allocator: 32 addresses of which the upper half is the mesh's, blocks of 16 down
  to 4, three at a time: enough to fragment. The real space differs in width only.
* Rooms: three peers, five moves, a room of two and one of one, so that a switch
  can fail for a full room.

`LiveView` leaves out the claims files (`subnet`) and the books' files and what their
snapshots hold (`router`) once no restart is left to read them. No
symmetry is used: nodes differ in role in every instance.

Deadlock is not checked in `router` and `progress`, whose counters are bounded:
a part that has used them up may have nothing left to do.

### Fairness

* Tasks of a daemon (`Manager`, `Step`, `Tick`, `Persist`, `Sweep`, `Loop`, `Script`,
  `Serve`, `Joined`, `control_api_handle_conn`...): weak. The runtime schedules them, their
  awaits end (subprocesses have time-outs) and the tickers fire.
* Messages in flight are received: weak, per message.
* `Heard`: strong. What a node sends again at every tick gets through to each other
  node again and again. This is what the 20 s tick is there for; it is an
  assumption about the links, not about the code.
* `Respawn`, `Start`: weak. procd restarts the daemon; its start goes on.
* `Evidence` in `Egress`: strong. Of the probes of a dead uplink, those that ran
  and failed come up again and again: fetches do not fail to start for ever.
* `Renamed`, `ReadOk` in `Projection`: strong. Writing the file and reading it do
  not fail for ever. Only the first request of hello is fair: a client keeps
  asking.
* `Written` in `ServicesV2`: strong. The tick's write of the state file does not fail
  for ever.
* `Dialed` in `Rejoin`: weak. A dial to a peer that stays reachable succeeds.
* `Send` and `run_cli` in `ControlApi`: weak, for the patient client only.
* No fairness for faults, crashes, changes of routes or claims, or users.

In `MCProgress` a behaviour follows one part, so a fairness condition on the
disjunction of one action of each part is that condition on the part's action;
`Weak`, `WeakOf`, `Received` and `Strong` gather them.

## 4. Theorems

A theorem holds for every value of the constants: any set of nodes, slots, names,
keys, connections, routers or peers, any bounds, any choice of flaky, fragile or
legacy nodes. It rests on the named ASSUMEs of the modules (the types of the
constants, that `None` or `Nil` is no record, that an inventory names a router once
and an item after those it needs), or on the `...Params` it states itself. Node ids
are numbers, compared as such. Where `MCRouter` checks a property for a part, the
theorem is about that part's specification in `NamesParts`, `NetworkParts`,
`MeshctlParts` or `BrowserParts`. Where a part is checked under `MCProgress`, whose
one promise per part mixes safety and liveness, the theorem is about the part's own
`Spec`, and states the safety conjuncts; the proof module takes the part as an
`INSTANCE` (`Life`, `Uplinks`, `Live`, `Routing`, `Addrs`, `Conf`, `Api`, `Hello`).

Each proof goes the same way: an inductive invariant, that it holds at first, that
each action keeps it, and that it implies the property. What the invariant adds to
the property is the argument, so that is what is listed here.

**Addresses** (`SubnetProofs`)

* `Invariance`: `TypeOK`, `ManagerInv`, `AddressBacked`, `GatewayBacked`. `AssignAddr`
  puts up the address of `target`, which the manager chose several steps earlier,
  so `ManagerInv` carries the fact that `target` is still backed across every message
  that arrives in between; that a loss queued for `target` cannot be handled before
  the address is up needs the manager's program counter. The proof is per node: a
  step of one node leaves the rest alone (`OtherNodes`, `Frame`), and its own part is
  kept by the manager (`ManagerStep`), the dispatch loop (`DeliverStep`), a tick and a
  restart. From it `TypeCorrect`, `AddressesBacked`, `GatewaysBacked`, `SubnetsUnique` (two
  nodes with one map cannot both own an entry of it), and the action property
  `FirstWriter`.
* `SeniorHeldHolds`, `Convergence`: under `SingleClaims` a replica holds for every
  subnet the senior claim among those it received, so replicas that received the
  same hold the same. Seniority is a total order (`HlcOrder`, `BeatsOrder`) and the
  merge takes the senior of two claims (`MergedIsSenior`).
* `AddressIsOurs` (`Backhaul`): `BoundIsOurs` is inductive with the types. The work is
  in `pick_backhaul_addr`: it takes the senior of the node's own claims or else the first
  free candidate, and both exist for any store and derivation (`LeastStamp`, `Least`).

**Directory of services** (`ServicesV2Proofs`, and `NamesProofs` for the part in run
`router`)

* `ReservedStayOut`, `LostStaysLost`, `ServicesTypeCorrect`. Reserved names are absent
  also from files, waiting snapshots and messages in flight; a task that is cloning
  or about to write has a snapshot; and no message carries the receiver's own entry.
  The last is what `LostStaysLost` rests on: gossip never brings a lost name back to
  its loser.
* `OwnersTakeDown`, an action property: every way an entry can go, by message, request,
  sweep or restart, is one the property allows.
* For the part in run `router`: `LostIsLostHolds`, `OwnersTakeDownHolds`.

**Leases** (`LeasedNamesProofs`, and `NamesProofs`)

* `OneNameEach`, `TakesLapsedOnly`. A lease in flight to a node was made elsewhere, at a
  desk of its key (`ForeignInv`): so a key with one desk gets new leases into that
  desk's book only through `MayClaim` there, also from the file after a restart
  (`OneInv`, for desks whose clock is not set back: a lease that has run out would be
  live again). `TakesLapsedOnly` needs only the types: of two keys' leases the merge keeps
  the earlier unless it has run out by the later one's claim (`TakesOver`).
* For the parts in run `router`: `OneNameHolds`, `TakesLapsedHolds`.

**Books, start, allocator, uplink** (`DaemonProofs`)

* `PromiseKept`: `Spec => KeepsPromise`, the refinement of `NewestWins`. That a step of a
  node moves its book only forward follows from the merge; that a restart brings back
  only what the abstract specification allows needs the invariant: files and waiting
  snapshots hold records that were written (`Known`) and are never newer than the book
  (`Behind`), whichever task wrote last (`FileInv`, `SnapInv`), and messages carry
  written records (`InboxInv`). What a node says of itself it overwrites without
  looking at the old stamp; that this goes forward is `OwnInv`: in the address and name
  lanes every record of a key was stamped by that node no later than its last reading,
  unless its clock may be set back (`Unordered`).
* `LabelsStick` needs `LabelInv`: before a restart a node holds what it wrote or
  something newer, and of a user with one desk every bare key was written before
  every name.
* `LargestFits` (`Allocator`), for a space of any width. `shl` is shown to be the powers
  of two (`ShlDef`, `ShlSum`); two aligned blocks are nested or disjoint
  (`ContainsOrDisjoint`); the walk of `pick_subnet` visits every aligned block of a size
  (`WalkCovers`, `EveryBlockASlot`); and `pick_subnet_or_smaller` stops at the largest
  size that has a free one (`PickSound`). Statements about all numbers are proved by
  their least counterexample (`Least`), from the well-foundedness of `<`.
* `DaemonSafe` (`Daemon`): `NothingForgotten` and `OneDataPlane`. The invariant says which
  lanes have been read at each step of the start and that no task that writes them
  runs before (`LifeInv`), and which data plane is up when (`PlaneInv`), for any lasting
  troubles, fatal or tolerated.
* `GatewayFailsOpen` (`Egress`): the count of the hysteresis is the history of the probe's
  failures, and a demoted gateway has the full count (`ProbeInv`); a round is "no" only
  if the tool is there and "yes" exactly if a page answered (`ProbeRight`).

**Desk, network, router configuration** (`NetworkProofs`)

* `ChallengesSingleUse`, `OnlyVerifiedTaken` (`FrontDesk`): what was accepted answered a
  challenge that is gone (`HelloInv`), and files and half-done sweeps hold accepted
  submissions, torn files or nothing (`SpoolInv`, `SweepInv`).
* `RegistryIsTrue` (`Tunnels`): a task has the slot from its reservation until the
  connection is closed (`SlotInv`), and the interface, which no other task can have,
  until the kernel has removed it (`IfaceInv`).
* `PacketsDelivered` (`Overlay`): the two indexes of `ConnManager` name one connection for
  each peer, and routes, those a listing has printed too, go by way of peers (`OverlayInv`,
  `ViaPeers`).
* `AnswersRight` (`Responder`), for queries during which the stores change at most once:
  there was a moment of the query whose answer is the one being put together, or
  would be from what is read next (`Past`, `Moment`).
* `ViewsForward` (`Liveness`): what a node has sent is in order and before its next
  beacon (`SentInv`), and what others hold of it was made from one of these
  (`HeardInv`), so an entry moves only to later beacons.
* `BabeldNotThrashed` (`BabelReconciler`): as long as nothing failed, the loop believes
  babeld to run with the file only if it does, and restarts it only if it does not
  (`LoopInv`).
* `RouterStaysReachable` (`UciReconciler`): `RecoveryAlias` and `OnePortal`. Half-edited
  lists do exist, so the invariant says of every command of a script which list it
  finds (`LanFor`), and that of the scripts that run, those the daemon gave up waiting
  for have committed already (`Running`), so that only one can still edit. A failed edit
  shows in every later list, so both properties exempt what a failed edit leaves behind
  (no alias after a failed `add_list`, the old addresses after a failed `delete`, a second
  portal URL after a failed `del_list`), and
  the invariant's `LanAt` and `DhcpAt` ask whether there was one; the count of these
  never goes down (`Remembers`). Other failures, time-outs and reboots are not exempt.

**Operator** (`MeshctlProofs`)

* `NothingTwice`, `PassConverges` (`MeshctlApply`), from any state of the router. With no
  two sessions at a time (`OneActive`) the plan is in dependency order, what it adds is
  still missing, and if nothing disturbed the session, what was seen so far is as
  desired, ambiguous or on the plan (`Settled`, `Covers`), and what is left over is to be
  removed (`SessionInv`). Hence each change finds what it needs and is accepted.
* `DoneStable`, `GivenPrinted` (`MeshctlDeploy`): how far a router is when the next command
  is of a given step (`Reached`), and that what the present process printed is the last
  entry of the log (`PrintedInv`). Processes are numbered by their starts, of which each
  deployment and each reboot makes one at most (`StartsInv`).
* `CliTellsTruth` (`ControlApi`): the module's `CliHonest`, the safety part of the run's. Of each
  connection, what a client reports is what it was answered (`Honest`). What an answer
  says of the name is a matter of the step that gives it (`PublishDoes` and the like), and
  that the name stands after a 200 until someone changes it, of every step (`Sound`).

**Browser** (`BrowserProofs`)

* `ViewsCorrect`, `SendersKnown` (`Rooms`): after what is on its way a browser will know
  its room and its room-mates (`UpToDate`), and a signal comes after what makes its
  sender known (`SignalsKnown`). Both are stated without recursion, by the last
  message about a peer (`Knows`), so that queues may be of any length.
* `ProjectionShown` (`Projection`): `CacheCurrent` and `ServedWhole`. A file has a time
  exactly if it has a content (`ProjectionInv`); that a rename gives a time nobody has
  is a count of the times in use (`NewTimeNew`).

Types of the parts: `BooksTypeCorrect`, `NamesTypes`, `NetworkTypes`, `MeshctlTypes`,
`MeetingTypes`.

Model-checked only:

* Liveness: every promise of `progress` that something comes about. The prover does
  not reason about fairness and ENABLED.
* `FileCatchesUp` of the services' state file, for the same reason.
* `Rejoin`: its promise, `Rejoins`, is liveness.
* The composite promises of `progress` as such: their safety conjuncts are proved
  one by one, for the part's own specification.

## 5. What does not hold beyond the runs

Stronger statements that TLC refutes on the models. They are not claims of the
repository, so they are no runs; they bound what the runs show. Those with a name
are defined in the modules.

* `LostOnce` (`Backhaul`, three nodes): a node can exit twice over one address,
  since its own dead claim may come back by gossip before it is saved.
* `NoIsland` (`Rejoin`): a peer outside the roster that is hard-expired is not
  dialled, even if it is the only one in reach.
* `DialsPrinted` without `printed[p]` (`MeshctlDeploy`): while the listener's process has
  not printed its address yet, a connector may be given one that an earlier process
  printed. The id in it is right.
* `TakesOnlyLapsed` by the clocks of all nodes (`LeasedNames`): a node whose clock is
  ahead takes over names that others still call live, and the others follow it.
* `SrvBesideA` (`Responder`): for a name that is both published and leased, address
  and port may come from different hosts.
* `OutboundRuns` (`Tunnels`): one packet too large for a datagram ends the sending
  task of a tunnel that stays up.
* `RoomMatesTold` (`Rooms`): a peer whose switch fails for a full room has left its
  old room, and nobody there is told.
* `UpToDate` without `fails = 0` (`BabelReconciler`): a restart that failed is
  not tried again until the configuration changes.
* `Delivered` with `Moved` peers (`Overlay`): the index knows derived addresses only.
* `OneOfEach` with `Overlap` (`MeshctlApply`): two sessions at a time add twice.
* A session that skipped ambiguous resources and had nothing else to do reports
  "already converged".

## 6. Not modelled

* Encodings (postcard, JSON, DNS wire format), logging, command-line and inventory
  parsing, read-only status commands: pure functions of their input, with no
  state to model; messages are what they decode to.
* Addresses, MTU and netlink messages of an interface, static assets, captive-portal
  redirects, radio status: I/O. The files radio status ends in take the way
  `Projection` models.
* The kernel, babeld, netifd, iroh's transport and RouterOS: modelled as far as
  the code relies on them, and marked external in `PROJECT.json`.
* Cryptography: a signature is a flag.
* The claim cool-down type, which the daemon does not use; the browser front end;
  the deployment scripts.
