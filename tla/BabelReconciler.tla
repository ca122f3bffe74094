-------------------------- MODULE BabelReconciler --------------------------
(***************************************************************************)
(* Who tells babeld what to route.  Every few seconds a loop of the daemon *)
(* samples the live interfaces, the node's own client subnet and whether   *)
(* it is an Internet gateway now, renders babeld.conf, writes it if it     *)
(* changed, and starts, restarts or stops babeld through its init script.  *)
(* There are two loops: the one for per-peer tunnels and the L2 backhaul   *)
(* ("lan") waits until a configuration held for two samples; the one for   *)
(* the overlay ("overlay") has one static interface.                       *)
(***************************************************************************)
EXTENDS Naturals

CONSTANTS Iface,        \* per-peer tunnel interfaces
          Subnet,       \* client subnets the node may own
          L2,           \* TRUE: there is an L2 backhaul interface
          Gateway,      \* the --gateway flag
          None,
          MaxChanges,   \* bound: changes of the inputs
          MaxFails      \* bound: init-script calls and writes that fail

Mode == {"lan", "overlay"}
Inputs == [ifaces : SUBSET Iface, subnet : Subnet \cup {None}, uplink : BOOLEAN]
Conf == [ifaces : SUBSET Iface, subnet : Subnet \cup {None}, gateway : BOOLEAN]
Off == None             \* babeld does not run

VARIABLES
  mode,      \* which loop runs
  inputs,    \* tunnel registry, claim store, local_egress().healthy
  sample,    \* the interfaces and the subnet the loop has read
  last,      \* last_rendered
  started,   \* does the loop believe that babeld runs?
  pc,        \* where the loop is: "sample", "render" or the service call to make
  disk,      \* babeld.conf
  babeld,    \* the configuration babeld runs with, or Off
  changes, fails

vars == <<mode, inputs, sample, last, started, pc, disk, babeld, changes, fails>>

\* The values the variables take.
TypeOK ==
  /\ mode \in Mode
  /\ inputs \in Inputs
  /\ sample \in Inputs
  /\ {last, disk, babeld} \subseteq Conf \cup {None}
  /\ started \in BOOLEAN
  /\ pc \in {"sample", "render", "start", "restart", "stop"}
  /\ changes \in 0..MaxChanges
  /\ fails \in 0..MaxFails

\* A daemon that starts: babeld may be running since an earlier life of it.
Init ==
  /\ mode \in Mode
  /\ inputs = [ifaces |-> {}, subnet |-> None, uplink |-> FALSE]
  /\ sample = inputs
  /\ last = None
  /\ started = FALSE
  /\ pc = "sample"
  /\ disk \in {None, [ifaces |-> {}, subnet |-> None, gateway |-> TRUE]}
  /\ babeld \in {Off, disk}
  /\ changes = 0 /\ fails = 0

\* render_babeld_conf and render_overlay_babeld_conf: the interfaces babel
\* speaks on, the one subnet it may announce, and the default route if the node
\* is a gateway.  The overlay's interface never changes.
Render(i) ==
  [ifaces |-> IF mode = "lan" THEN i.ifaces ELSE {},
   subnet |-> i.subnet,
   gateway |-> Gateway /\ i.uplink]

HaveIfaces(i) == mode = "overlay" \/ L2 \/ i.ifaces # {}

-----------------------------------------------------------------------------
Sample ==
  /\ pc = "sample"
  /\ sample' = inputs
  /\ pc' = "render"
  /\ UNCHANGED <<mode, inputs, last, started, disk, babeld, changes, fails>>

\* Mutant: a restart whenever babeld is up.
CallAlways(i, changed) ==
  IF ~HaveIfaces(i) THEN IF started THEN "stop" ELSE "sample"
  ELSE IF ~started THEN "start" ELSE "restart"

\* Mutant: a changed file is left to procd's watch.
CallNever(i, changed) ==
  IF ~HaveIfaces(i) THEN IF started THEN "stop" ELSE "sample"
  ELSE IF ~started THEN "start" ELSE "sample"

\* What to call once the file is written.
Call(i, changed) ==
  IF ~HaveIfaces(i) THEN IF started THEN "stop" ELSE "sample"
  ELSE IF ~started THEN "start" ELSE IF changed THEN "restart" ELSE "sample"

\* local_egress is read after the interfaces and the subnet were (it awaits the
\* kernel); a new configuration is remembered and, in the lan loop, looked at
\* again after the settle time before anything is done.
Rendered == Render([sample EXCEPT !.uplink = inputs.uplink])

Settle ==
  /\ pc = "render" /\ mode = "lan" /\ last # Rendered
  /\ last' = Rendered
  /\ pc' = "sample"
  /\ UNCHANGED <<mode, inputs, sample, started, disk, babeld, changes, fails>>

\* write_atomic_if_changed
Write ==
  /\ pc = "render"
  /\ IF mode = "lan" THEN last = Rendered ELSE last # Rendered
  /\ \/ /\ disk' = Rendered
        /\ pc' = Call(sample, disk # Rendered)
        /\ last' = Rendered
        /\ UNCHANGED fails
     \/ /\ fails < MaxFails
        /\ fails' = fails + 1
        /\ pc' = "sample"
        /\ UNCHANGED <<disk, last>>
  /\ UNCHANGED <<mode, inputs, sample, started, babeld, changes>>

\* The overlay loop does nothing about a configuration it has written before.
Skip ==
  /\ pc = "render" /\ mode = "overlay" /\ last = Rendered
  /\ pc' = "sample"
  /\ UNCHANGED <<mode, inputs, sample, last, started, disk, babeld, changes, fails>>

\* babeld_service: the init script makes babeld read the file, or stops it.
\* A script that fails, or that is killed after ten seconds, may have left
\* babeld as it was, stopped or restarted.
babeld_service ==
  /\ pc \in {"start", "restart", "stop"}
  /\ LET done == IF pc = "stop" THEN Off ELSE disk
     IN \/ /\ babeld' = done
           /\ started' = (pc # "stop")
           /\ UNCHANGED fails
        \/ /\ fails < MaxFails
           /\ fails' = fails + 1
           /\ babeld' \in {babeld, Off, done}
           /\ started' = (pc = "restart")
  /\ pc' = "sample"
  /\ UNCHANGED <<mode, inputs, sample, last, disk, changes>>

\* Tunnels, claims and the uplink change.
Change ==
  /\ changes < MaxChanges
  /\ changes' = changes + 1
  /\ inputs' \in Inputs \ {inputs}
  /\ UNCHANGED <<mode, sample, last, started, pc, disk, babeld, fails>>

Loop == Sample \/ Settle \/ Write \/ Skip \/ babeld_service
Next == Loop \/ Change

Spec == Init /\ [][Next]_vars
FairSpec == Spec /\ WF_vars(Loop)   \* the loop sleeps a few seconds and goes on

-----------------------------------------------------------------------------
(* Properties.                                                             *)

\* Once tunnels, claim and uplink come to rest, babeld in the end runs, for
\* good, with the configuration that they call for, if there is an interface to
\* route over and no call has failed.
UpToDate == fails = 0 /\ HaveIfaces(inputs) => babeld = Render(inputs)
BabeldFollows == <>[]UpToDate

\* babeld is not restarted for nothing: as long as no call has failed, the loop
\* restarts it only when it runs with another configuration than the file's.
NoThrash == fails = 0 /\ pc = "restart" => babeld # disk
=============================================================================
