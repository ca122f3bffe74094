------------------------------ MODULE Liveness ------------------------------
(***************************************************************************)
(* The liveness plane (crdt/liveness.rs): the beacon every node broadcasts *)
(* at each tick of the anti-entropy loop, and the tracker every node keeps *)
(* of the last beacon it accepted from each origin, which decides what is  *)
(* stale, what is hard-expired and who is a live internet gateway.         *)
(*                                                                         *)
(* Gossip may lose, repeat, delay and reorder beacons: what was sent stays *)
(* in `sent' and may arrive any number of times, even after a restart of   *)
(* its origin or of its receiver.  Receiver-local time is kept as the age  *)
(* of each accepted beacon, up to the age where nothing changes any more.  *)
(***************************************************************************)
EXTENDS Naturals, Sequences

CONSTANTS Node,
          Stale,        \* stale_threshold_ms, in ticks of a receiver's clock
          HardExpiry,   \* hard_expiry_ms
          None,         \* never heard; no egress advertisement
          Fragile,      \* nodes whose daemon may die and come back
          MaxBeacons,   \* bound: MaxBeacons[n] beacons sent by n
          MaxBoots      \* bound: restarts in a behaviour

Egress == {"healthy", "unhealthy", None}

VARIABLES
  up,           \* the daemon of n runs
  incarnation,  \* boot wall-clock time of n
  counter,      \* the beacon counter of the anti-entropy loop
  sent,         \* sent[n]: the beacons of n, in the order it sent them
  seen,         \* seen[r][n]: the tracker of r
  boots         \* restarts so far

vars == <<up, incarnation, counter, sent, seen, boots>>

Seen == [incarnation : Nat, counter : Nat, egress : Egress, age : 0..(HardExpiry + 1)]

\* A started daemon has an empty tracker but for itself (touch).
Touched == [incarnation |-> 0, counter |-> 0, egress |-> None, age |-> 0]
Fresh(n) == [o \in Node |-> IF o = n THEN Touched ELSE None]

Init ==
  /\ up = [n \in Node |-> TRUE]
  /\ incarnation = [n \in Node |-> 1]
  /\ counter = [n \in Node |-> 0]
  /\ sent = [n \in Node |-> <<>>]
  /\ seen = [n \in Node |-> Fresh(n)]
  /\ boots = 0

-----------------------------------------------------------------------------
(* The tracker.                                                            *)

\* Mutants: a repeated beacon is newer; a restart is not.
AnyBeacon(s, b) == TRUE
CounterOnly(s, b) == b.counter > s.counter
NotOlder(s, b) ==
  \/ b.incarnation > s.incarnation
  \/ b.incarnation = s.incarnation /\ b.counter >= s.counter

superseded_by(s, b) ==
  \/ b.incarnation > s.incarnation
  \/ b.incarnation = s.incarnation /\ b.counter > s.counter

Accepts(s, b) == s = None \/ superseded_by(s, b)

observe_with_egress(t, o, b) ==
  IF Accepts(t[o], b)
    THEN [t EXCEPT ![o] = [incarnation |-> b.incarnation, counter |-> b.counter,
                           egress |-> b.egress, age |-> 0]]
    ELSE t

touch(t, n) == [t EXCEPT ![n] = IF @ = None THEN Touched ELSE [@ EXCEPT !.age = 0]]

is_stale(t, o) == t[o] = None \/ t[o].age > Stale
is_hard_expired(t, o) == t[o] # None /\ t[o].age > HardExpiry
live_gateways(t) == {o \in Node : ~is_stale(t, o) /\ t[o].egress = "healthy"}

-----------------------------------------------------------------------------
(* The daemon.                                                             *)

\* One tick: the beacon carries what local_egress answers, and the node
\* refreshes its own record.
emit_liveness_beacon(n) ==
  /\ up[n]
  /\ Len(sent[n]) < MaxBeacons[n]
  /\ \E ad \in Egress :
       sent' = [sent EXCEPT ![n] = Append(@, [incarnation |-> incarnation[n],
                                              counter |-> counter[n], egress |-> ad])]
  /\ counter' = [counter EXCEPT ![n] = @ + 1]
  /\ seen' = [seen EXCEPT ![n] = touch(@, n)]
  /\ UNCHANGED <<up, incarnation, boots>>

\* The dispatch loop.
Receive(r, o, i) ==
  /\ up[r] /\ r # o
  /\ i \in DOMAIN sent[o]
  /\ seen' = [seen EXCEPT ![r] = observe_with_egress(@, o, sent[o][i])]
  /\ UNCHANGED <<up, incarnation, counter, sent, boots>>

\* A receiver's clock moves on.
Age(s) == IF s = None \/ s.age > HardExpiry THEN s ELSE [s EXCEPT !.age = @ + 1]
Tick(r) ==
  /\ up[r]
  /\ seen' = [seen EXCEPT ![r] = [o \in Node |-> Age(@[o])]]
  /\ UNCHANGED <<up, incarnation, counter, sent, boots>>

\* The daemon dies, for good or until it is started again: its incarnation is
\* the wall clock, which is taken to be past that of its last boot.
Die(n) ==
  /\ up[n] /\ n \in Fragile
  /\ up' = [up EXCEPT ![n] = FALSE]
  /\ seen' = [seen EXCEPT ![n] = Fresh(n)]
  /\ UNCHANGED <<incarnation, counter, sent, boots>>

Boot(n) ==
  /\ ~up[n] /\ boots < MaxBoots
  /\ up' = [up EXCEPT ![n] = TRUE]
  /\ incarnation' = [incarnation EXCEPT ![n] = @ + 1]
  /\ counter' = [counter EXCEPT ![n] = 0]
  /\ boots' = boots + 1
  /\ UNCHANGED <<sent, seen>>

Next ==
  \E n \in Node :
    \/ emit_liveness_beacon(n)
    \/ \E o \in Node : \E i \in DOMAIN sent[o] : Receive(n, o, i)
    \/ Tick(n)
    \/ Die(n)
    \/ Boot(n)

Spec == Init /\ [][Next]_vars

(* Fairness: time passes at every receiver, and the last beacon sent is    *)
(* received at last by every node that stays up.                           *)
Fairness ==
  \A r \in Node :
    /\ WF_vars(Tick(r))
    /\ \A o \in Node : WF_vars(Receive(r, o, Len(sent[o])))

FairSpec == Spec /\ Fairness

-----------------------------------------------------------------------------
(* Properties.                                                             *)

\* The values the variables take.
TypeOK ==
  /\ up \in [Node -> BOOLEAN]
  /\ \A n \in Node : incarnation[n] \in 1..(MaxBoots + 1) /\ counter[n] \in 0..MaxBeacons[n]
  /\ \A n \in Node : \A i \in DOMAIN sent[n] :
       sent[n][i] \in [incarnation : Nat, counter : Nat, egress : Egress]
  /\ seen \in [Node -> [Node -> Seen \cup {None}]]
  /\ boots \in 0..MaxBoots

\* The place in the order of sending of the beacon a record was made from.
Place(o, s) ==
  CHOOSE i \in DOMAIN sent[o] : [s EXCEPT !.age = 0] =
    [incarnation |-> sent[o][i].incarnation, counter |-> sent[o][i].counter,
     egress |-> sent[o][i].egress, age |-> 0]

\* A replay can neither refresh a silent node nor bring a withdrawn gateway
\* back: while a node runs, what it holds of another follows the order in
\* which that node sent its beacons, and its age goes back to zero only with a
\* later beacon.
ForwardStep ==
  \A r, o \in Node :
    LET was == seen[r][o] is == seen'[r][o] IN
    r # o /\ was # None /\ is # None /\ is # was =>
      \/ [is EXCEPT !.age = was.age] = was /\ is.age = was.age + 1
      \/ Place(o, was) < Place(o, is)
ViewForward == [][ForwardStep]_vars

\* A node that falls silent for good is in the end stale everywhere, and no
\* gateway, however often its old beacons are repeated.
Dropped(r, o) == is_stale(seen[r], o) /\ o \notin live_gateways(seen[r])
SilentGoesStale ==
  \A o, r \in Node : <>[](~up[o] /\ up[r]) => <>[]Dropped(r, o)

\* A node that is up, restarted or not, is heard: what it last advertised is
\* in the end what every other running node holds of it.
Speaks(r, o) == r # o /\ up[o] /\ up[r] /\ counter[o] > 0
Current(r, o) ==
  /\ seen[r][o] # None
  /\ seen[r][o].incarnation = incarnation[o]
  /\ seen[r][o].counter = counter[o] - 1
  /\ seen[r][o].egress = sent[o][Len(sent[o])].egress
LastHeard ==
  \A o, r \in Node : <>[]Speaks(r, o) => <>[]Current(r, o)
=============================================================================
