---------------------------- MODULE SubnetClaims ----------------------------
(***************************************************************************)
(* How the routers of a mesh share out the client /24s: the claim store    *)
(* each daemon keeps, the three tasks of a daemon that touch it (the       *)
(* gossip dispatch loop, the claim manager and the anti-entropy loop), the *)
(* claims file, and the gateway addresses the manager puts up.             *)
(*                                                                         *)
(* The dispatch loop applies one message under the store's lock.  The      *)
(* manager takes the lock twice, to look at the store and to record its    *)
(* pick, and awaits the network and netlink in between, so every step that *)
(* another task can fall between is an action here.                        *)
(***************************************************************************)
EXTENDS SubnetMerge, Sequences, FiniteSets

CONSTANTS NumSlots,     \* number of /24s in the mesh space
          Preferred,    \* the slot each node's id hashes to
          Uci,          \* nodes whose lan addresses are also kept in UCI (OpenWrt)
          Flaky,        \* nodes where netlink, uci and file writes can fail
          Fragile,      \* nodes whose daemon may restart
          Legacy,       \* nodes that start from a claims file of an earlier boot
          MaxWall,      \* bound: node n's wall-clock readings are 1..MaxWall[n]
          MaxRestarts,  \* bound: daemon restarts in a behaviour
          MaxInFlight,  \* bound: messages on their way to one node
          MaxReclaim    \* bound: losses waiting on a reclaim channel

ASSUME SlotAssumption == NumSlots \in Nat \ {0} /\ Slot = 0..(NumSlots - 1)
ASSUME PreferredAssumption == Preferred \in [Node -> Slot]
ASSUME PlatformAssumption == Uci \subseteq Node /\ Flaky \subseteq Node
                             /\ Fragile \subseteq Node /\ Legacy \subseteq Node
ASSUME BoundAssumption == MaxWall \in [Node -> Nat \ {0}] /\ MaxRestarts \in Nat
                          /\ MaxInFlight \in Nat /\ MaxReclaim \in Nat

VARIABLES
  store,      \* the claim store of each daemon
  disk,       \* the claims file of each node
  inbox,      \* gossip broadcast to a node and not yet received
  reclaim,    \* the reclaim channel: own subnets lost in conflicts
  pc,         \* where the claim manager is
  target,     \* manager's local: the subnet it publishes and assigns
  claim,      \* manager's local: the claim it publishes
  extras,     \* manager's local: own claims it has yet to release
  dropping,   \* manager's local: the extra being released
  avoid,      \* manager's local: the foreign subnets its snapshot saw
  addrs,      \* gateway addresses up on the client interface (kernel state)
  lan,        \* the primary lan address in UCI (survives a reboot)
  gateway,    \* what the .mesh responder answers for the well-known names
  wall,       \* the last wall-clock reading of each node
  restarts,   \* restarts so far
  adrift      \* history: subnets whose claim went without the manager knowing

managerVars == <<pc, target, claim, extras, dropping, avoid>>
hostVars == <<addrs, lan, gateway>>
vars == <<store, disk, inbox, reclaim, managerVars, hostVars, wall, restarts,
          adrift>>

Owns(n, s) == store[n][s] # None /\ store[n][s].owner = n

\* What load_claims can restore at the first start: nothing, or claims of
\* earlier boots.  Firmware before the reuse of a restored claim could leave
\* several of a node's own in the file.
FreshClaim(n, w) == [owner |-> n, claimed_at |-> now_hlc(n, w)]
Restorable(n) ==
  IF n \in Legacy
  THEN [Slot -> {None} \cup {FreshClaim(n, w) : w \in 0..1}]
  ELSE {EmptyStore}

Init ==
  /\ disk \in [Node -> UNION {Restorable(n) : n \in Node}]
  /\ \A n \in Node : disk[n] \in Restorable(n)
  /\ store = disk
  /\ inbox = [n \in Node |-> {}]
  /\ reclaim = [n \in Node |-> <<>>]
  /\ pc = [n \in Node |-> "claim"]
  /\ target = [n \in Node |-> None]
  /\ claim = [n \in Node |-> None]
  /\ extras = [n \in Node |-> {}]
  /\ dropping = [n \in Node |-> None]
  /\ avoid = [n \in Node |-> {}]
  /\ addrs = [n \in Node |-> {}]
  /\ lan = [n \in Node |-> None]
  /\ gateway = [n \in Node |-> None]
  /\ wall = [n \in Node |-> 1]
  /\ restarts = 0
  /\ adrift = [n \in Node |-> {}]

\* Gossip is best effort: of the messages a node sends, each other node gets
\* some, in any order and at any later time.
Broadcast(n, ms) ==
  \E got \in [Node \ {n} -> SUBSET ms] :
    /\ inbox' = [k \in Node |-> IF k = n THEN inbox[k] ELSE inbox[k] \cup got[k]]
    /\ \A k \in Node \ {n} : Cardinality(inbox'[k]) <= MaxInFlight

-----------------------------------------------------------------------------
(* The claim manager.                                                      *)

\* partition_claims: the own claims in a store, the senior one among them,
\* the others, and the subnets of other nodes.
OwnSlots(st, n) == {s \in Slot : st[s] # None /\ st[s].owner = n}
IsSenior(st, own, s) ==
  s \in own /\ \A t \in own : HlcLeq(st[s].claimed_at, st[t].claimed_at)
ExtraSlotsWithSenior(own, keep) == own
ExtraSlots(own, keep) == own \ {keep}
ForeignSlots(st, n) == {s \in Slot : st[s] # None /\ st[s].owner # n}

\* claim_and_publish looks at the store once, under the lock.  Two own claims
\* with one stamp sort by the hash map's order: either may be kept.
PartitionClaims(n) ==
  LET own == OwnSlots(store[n], n) IN
  /\ pc[n] = "claim"
  /\ \/ /\ own = {}
        /\ avoid' = [avoid EXCEPT ![n] = ForeignSlots(store[n], n)]
        /\ pc' = [pc EXCEPT ![n] = "pick"]
        /\ UNCHANGED <<target, claim, extras>>
     \/ \E keep \in Slot :
          /\ IsSenior(store[n], own, keep)
          /\ target' = [target EXCEPT ![n] = keep]
          /\ claim' = [claim EXCEPT ![n] = store[n][keep]]
          /\ extras' = [extras EXCEPT ![n] = ExtraSlots(own, keep)]
          /\ pc' = [pc EXCEPT ![n] =
                      IF own = {keep} THEN "publish" ELSE "release"]
          /\ UNCHANGED avoid
  /\ UNCHANGED <<store, disk, inbox, reclaim, dropping, hostVars, wall,
                 restarts, adrift>>

\* release_claim, first half: the subnet leaves the store, whoever's claim on
\* it the store holds by now.
ReleaseDrop(n) ==
  /\ pc[n] = "release"
  /\ \E s \in extras[n] :
       /\ dropping' = [dropping EXCEPT ![n] = s]
       /\ extras' = [extras EXCEPT ![n] = @ \ {s}]
       /\ store' = [store EXCEPT ![n][s] = None]
  /\ pc' = [pc EXCEPT ![n] = "unpublish"]
  /\ UNCHANGED <<disk, inbox, reclaim, target, claim, avoid, hostVars, wall,
                 restarts, adrift>>

\* Second half: gossip the release, stamped now ...
ReleasePublish(n) ==
  /\ pc[n] = "unpublish"
  /\ \E w \in wall[n]..MaxWall[n] :
       /\ wall' = [wall EXCEPT ![n] = w]
       /\ Broadcast(n, {Release(dropping[n], now_hlc(n, w))})
  /\ pc' = [pc EXCEPT ![n] = "retract"]
  /\ UNCHANGED <<store, disk, reclaim, target, claim, extras, dropping, avoid,
                 hostVars, restarts, adrift>>

\* ... and take the address down.
RetractedNothing(n, s) == addrs[n]
Retracted(n, s) == addrs[n] \ {s}
ReleaseRetract(n) ==
  /\ pc[n] = "retract"
  /\ \/ /\ addrs' = [addrs EXCEPT ![n] = Retracted(n, dropping[n])]
        /\ UNCHANGED adrift
     \/ /\ n \in Flaky
        /\ adrift' = [adrift EXCEPT ![n] = @ \cup {dropping[n]}]
        /\ UNCHANGED addrs
  /\ dropping' = [dropping EXCEPT ![n] = None]
  /\ pc' = [pc EXCEPT ![n] = IF extras[n] = {} THEN "publish" ELSE "release"]
  /\ UNCHANGED <<store, disk, inbox, reclaim, target, claim, extras, avoid,
                 lan, gateway, wall, restarts>>

\* The k-th candidate of the allocator's walk: from the preferred slot,
\* upwards, wrapping round.
Candidate(n, k) == (Preferred[n] + k) % NumSlots
IsPick(n, taken, s) ==
  \E k \in 0..(NumSlots - 1) :
    /\ s = Candidate(n, k)
    /\ s \notin taken
    /\ \A j \in 0..(k - 1) : Candidate(n, j) \in taken

\* Pick and record a free subnet: free in the snapshot; the insert does not
\* look at what the store holds for it by now.
PickAndInsert(n) ==
  /\ pc[n] = "pick"
  /\ \E s \in Slot, w \in wall[n]..MaxWall[n] :
       LET fresh == FreshClaim(n, w) IN
       /\ IsPick(n, avoid[n], s)
       /\ wall' = [wall EXCEPT ![n] = w]
       /\ store' = [store EXCEPT ![n][s] = fresh]
       /\ target' = [target EXCEPT ![n] = s]
       /\ claim' = [claim EXCEPT ![n] = fresh]
  /\ avoid' = [avoid EXCEPT ![n] = {}]
  /\ pc' = [pc EXCEPT ![n] = "publish"]
  /\ UNCHANGED <<disk, inbox, reclaim, extras, dropping, hostVars, restarts,
                 adrift>>

\* Every subnet is taken: the manager gives up until the next conflict.
PickNothing(n) ==
  /\ pc[n] = "pick"
  /\ Slot \subseteq avoid[n]
  /\ avoid' = [avoid EXCEPT ![n] = {}]
  /\ pc' = [pc EXCEPT ![n] = "idle"]
  /\ UNCHANGED <<store, disk, inbox, reclaim, target, claim, extras, dropping,
                 hostVars, wall, restarts, adrift>>

PublishClaim(n) ==
  /\ pc[n] = "publish"
  /\ Broadcast(n, {Update(target[n], claim[n])})
  /\ pc' = [pc EXCEPT ![n] = "assign"]
  /\ UNCHANGED <<store, disk, reclaim, target, claim, extras, dropping, avoid,
                 hostVars, wall, restarts, adrift>>

\* assign_client_addr and reconcile_client_uci.  A lan address already
\* current is left alone; otherwise UCI gets the new one and the network
\* reload (external: netifd) replaces the address it had put up for the old.
Assigned(n, s) == addrs[n] \cup {s}
ReconciledOldKept(n, s) ==
  [addrs |-> Assigned(n, s) \cup {lan[n]}, lan |-> s]
Reconciled(n, s) ==
  IF n \in Uci /\ lan[n] # s
  THEN [addrs |-> (Assigned(n, s) \ {lan[n]}) \cup {s}, lan |-> s]
  ELSE [addrs |-> Assigned(n, s), lan |-> lan[n]]

\* The address goes up, best effort (a reload can fail after UCI has changed),
\* and the responder answers on it.
AssignAddr(n) ==
  LET s == target[n] IN
  /\ pc[n] = "assign"
  /\ \/ /\ addrs' = [addrs EXCEPT ![n] = Reconciled(n, s).addrs]
        /\ lan' = [lan EXCEPT ![n] = Reconciled(n, s).lan]
     \/ /\ n \in Flaky
        /\ addrs' \in {addrs, [addrs EXCEPT ![n] = Assigned(n, s)]}
        /\ \/ UNCHANGED lan
           \/ n \in Uci /\ lan' = [lan EXCEPT ![n] = s]
  /\ gateway' = [gateway EXCEPT ![n] = s]
  /\ target' = [target EXCEPT ![n] = None]
  /\ claim' = [claim EXCEPT ![n] = None]
  /\ pc' = [pc EXCEPT ![n] = "idle"]
  /\ UNCHANGED <<store, disk, inbox, reclaim, extras, dropping, avoid, wall,
                 restarts, adrift>>

\* A lost subnet comes off the reclaim channel: its address is retracted and
\* the manager claims again.
HandleLoss(n) ==
  LET lost == Head(reclaim[n]) IN
  /\ pc[n] = "idle"
  /\ reclaim[n] # <<>>
  /\ reclaim' = [reclaim EXCEPT ![n] = Tail(@)]
  /\ \/ /\ addrs' = [addrs EXCEPT ![n] = Retracted(n, lost)]
        /\ UNCHANGED adrift
     \/ /\ n \in Flaky
        /\ adrift' = [adrift EXCEPT ![n] = @ \cup {lost}]
        /\ UNCHANGED addrs
  /\ gateway' = [gateway EXCEPT ![n] = None]
  /\ pc' = [pc EXCEPT ![n] = "claim"]
  /\ UNCHANGED <<store, disk, inbox, target, claim, extras, dropping, avoid,
                 lan, wall, restarts>>

-----------------------------------------------------------------------------
(* The gossip dispatch loop, the anti-entropy loop, and restarts.          *)

\* One message, applied under the lock; a loss is sent to the manager.
Deliver(n, m) ==
  /\ m \in inbox[n]
  /\ WeLost(store[n], m, n) => Len(reclaim[n]) < MaxReclaim
  /\ inbox' = [inbox EXCEPT ![n] = @ \ {m}]
  /\ store' = [store EXCEPT ![n] = ApplySubnet(@, m)]
  /\ reclaim' = [reclaim EXCEPT ![n] =
                   IF WeLost(store[n], m, n) THEN Append(@, m.slot) ELSE @]
  /\ adrift' = [adrift EXCEPT ![n] =
                  IF m.type = "release" /\ Owns(n, m.slot)
                     /\ store'[n][m.slot] = None
                  THEN @ \cup {m.slot} ELSE @]
  /\ UNCHANGED <<disk, managerVars, hostVars, wall, restarts>>

\* The claims file is replaced as a whole, by a rename.  The write is best
\* effort, and the daemon may die before it.
persist_claims(n, snapshot) ==
  \/ disk' = [disk EXCEPT ![n] = snapshot]
  \/ n \in Flaky \cup Fragile /\ UNCHANGED disk

\* One tick: the whole claim map is broadcast again, other nodes' claims
\* included, and then written to the claims file.
Held(n) == {s \in Slot : store[n][s] # None}
AntiEntropy(n) ==
  /\ Broadcast(n, {Update(s, store[n][s]) : s \in Held(n)})
  /\ persist_claims(n, store[n])
  /\ UNCHANGED <<store, reclaim, managerVars, hostVars, wall, restarts,
                 adrift>>

\* The addresses after a reboot: the one UCI has, if any.
Rebooted(n) == {lan[n]} \ {None}

\* The daemon dies and comes back with what the claims file gives: its last
\* contents, or nothing when the file is missing or does not decode.  A
\* respawn leaves the kernel's addresses as they are; a reboot leaves only
\* the lan address UCI has.
Restart(n) ==
  /\ n \in Fragile
  /\ restarts < MaxRestarts
  /\ restarts' = restarts + 1
  /\ \E restored \in {disk[n], EmptyStore} :
       store' = [store EXCEPT ![n] = restored]
  /\ pc' = [pc EXCEPT ![n] = "claim"]
  /\ inbox' = [inbox EXCEPT ![n] = {}]
  /\ reclaim' = [reclaim EXCEPT ![n] = <<>>]
  /\ target' = [target EXCEPT ![n] = None]
  /\ claim' = [claim EXCEPT ![n] = None]
  /\ extras' = [extras EXCEPT ![n] = {}]
  /\ dropping' = [dropping EXCEPT ![n] = None]
  /\ avoid' = [avoid EXCEPT ![n] = {}]
  /\ addrs' \in {addrs, [addrs EXCEPT ![n] = Rebooted(n)]}
  /\ gateway' = [gateway EXCEPT ![n] = None]
  /\ adrift' = [adrift EXCEPT ![n] =
                  @ \cup {s \in addrs'[n] : store'[n][s] = None
                                            \/ store'[n][s].owner # n}]
  /\ UNCHANGED <<disk, lan, wall>>

Manager(n) ==
  \/ PartitionClaims(n)
  \/ ReleaseDrop(n) \/ ReleasePublish(n) \/ ReleaseRetract(n)
  \/ PickAndInsert(n) \/ PickNothing(n) \/ PublishClaim(n) \/ AssignAddr(n)
  \/ HandleLoss(n)

Next ==
  \E n \in Node :
    \/ Manager(n)
    \/ \E m \in inbox[n] : Deliver(n, m)
    \/ AntiEntropy(n)
    \/ Restart(n)

Spec == Init /\ [][Next]_vars

-----------------------------------------------------------------------------
(* Fairness: the manager is a task of its own and none of its awaits is    *)
(* unbounded; a message in flight is eventually received; and the link to  *)
(* each neighbour loses messages but not for ever: what a node rebroadcasts *)
(* at every tick of the anti-entropy interval gets through now and then.   *)

Stamps == UNION {{now_hlc(n, w) : w \in (IF n \in Legacy THEN 0 ELSE 1)..MaxWall[n]}
                 : n \in Node}
GossipUpdates ==
  {Update(s, [owner |-> h.node_id, claimed_at |-> h]) : s \in Slot, h \in Stamps}
GossipMsg == GossipUpdates \cup {Release(s, h) : s \in Slot, h \in Stamps}

Heard(n, k) == /\ AntiEntropy(n)
               /\ {Update(s, store[n][s]) : s \in Held(n)} \subseteq inbox'[k]

Fairness ==
  \A n \in Node :
    /\ WF_vars(Manager(n))
    /\ \A m \in GossipMsg : WF_vars(Deliver(n, m))
    /\ \A k \in Node \ {n} : SF_vars(Heard(n, k))

FairSpec == Spec /\ Fairness

-----------------------------------------------------------------------------
(* Properties.                                                             *)

PcValues == {"claim", "release", "unpublish", "retract", "pick",
             "publish", "assign", "idle"}

\* The values the variables take.
TypeOK ==
  /\ store \in [Node -> Store] /\ disk \in [Node -> Store]
  /\ inbox \in [Node -> SUBSET Msg]
  /\ reclaim \in [Node -> Seq(Slot)]
  /\ pc \in [Node -> PcValues]
  /\ target \in [Node -> Slot \cup {None}]
  /\ claim \in [Node -> Claim \cup {None}]
  /\ extras \in [Node -> SUBSET Slot]
  /\ dropping \in [Node -> Slot \cup {None}]
  /\ avoid \in [Node -> SUBSET Slot]
  /\ addrs \in [Node -> SUBSET Slot]
  /\ lan \in [Node -> Slot \cup {None}]
  /\ gateway \in [Node -> Slot \cup {None}]
  /\ wall \in [Node -> Nat] /\ \A n \in Node : wall[n] \in 1..MaxWall[n]
  /\ restarts \in 0..MaxRestarts
  /\ adrift \in [Node -> SUBSET Slot]

\* The loss of subnet s is known to the manager of n: it waits on the reclaim
\* channel, or the manager is in the middle of releasing s.
Queued(n, s) == \E i \in 1..Len(reclaim[n]) : reclaim[n][i] = s
BeingDropped(n, s) == pc[n] \in {"unpublish", "retract"} /\ dropping[n] = s
Accounted(n, s) == Owns(n, s) \/ Queued(n, s) \/ BeingDropped(n, s)
Backed(n, s) == Accounted(n, s) \/ s \in adrift[n]

\* A node never keeps answering on a /24 it lost in a conflict: every address
\* up on the client interface is backed by an own claim, or the manager has
\* its retraction still to do, or the claim went behind the manager's back
\* (released by a peer, forgotten in a restart, or a failed netlink call).
AddressBacked ==
  \A n \in Node : \A s \in addrs[n] : Backed(n, s)

\* The same for the address the .mesh responder gives out for the well-known
\* names: it is never left on a /24 this node no longer owns.
GatewayBacked ==
  \A n \in Node : gateway[n] # None => Backed(n, gateway[n])

\* The manager's locals stay good while it awaits: the subnet it is about to
\* publish and assign is still backed although the store may have changed
\* under it, it is not among those it releases, and the responder has no
\* address to give out until the manager is idle again.
HasTarget(n) == pc[n] \in {"release", "unpublish", "retract", "publish", "assign"}
ManagerInv ==
  \A n \in Node :
    /\ HasTarget(n) => /\ target[n] \in Slot \ extras[n]
                       /\ claim[n] \in Claim
                       /\ Backed(n, target[n])
    /\ pc[n] \in {"unpublish", "retract"} => dropping[n] \in Slot \ {target[n]}
    /\ pc[n] \notin {"release", "unpublish", "retract"} => extras[n] = {}
    /\ gateway[n] # None => pc[n] = "idle"

\* Once two nodes hold the same claim map and have no loss left to handle,
\* they do not both have the gateway address of one /24 up.
Settled(n) == pc[n] = "idle" /\ reclaim[n] = <<>>
UniqueOnceSettled ==
  \A n, k \in Node :
    n # k /\ Settled(n) /\ Settled(k) /\ store[n] = store[k]
      => addrs[n] \cap addrs[k] \subseteq adrift[n] \cup adrift[k]

\* First writer wins: while a daemon runs, its store never replaces one
\* owner's claim by another owner's younger one, except where the manager
\* records a pick made from a snapshot that did not have the claim yet.
FirstWriterStep ==
  \A n \in Node, s \in Slot :
    /\ restarts' = restarts
    /\ store[n][s] # None /\ store'[n][s] # None
    /\ store'[n][s].owner # store[n][s].owner
    => \/ ~ HlcLess(store[n][s].claimed_at, store'[n][s].claimed_at)
       \/ pc[n] = "pick" /\ s \notin avoid[n]
FirstWriterKept == [][FirstWriterStep]_vars

\* Two routers do not serve one /24: what UniqueOnceSettled says, without its
\* exceptions.
NoSharedSubnet ==
  \A n, k \in Node :
    n # k /\ Settled(n) /\ Settled(k) /\ store[n] = store[k]
      => addrs[n] \cap addrs[k] = {}

\* The mesh sorts itself out: from some point on no two nodes have the
\* gateway address of one /24 up.
AllUnique == \A n, k \in Node : n # k => addrs[n] \cap addrs[k] = {}
EventuallyUnique == <>[]AllUnique

\* Claim maps converge: from some point on all nodes hold the same one.
AllAgree == \A n, k \in Node : store[n] = store[k]
EventuallyAgree == <>[]AllAgree
=============================================================================
