------------------------------- MODULE Daemon -------------------------------
(***************************************************************************)
(* The life of the mesh daemon: main and run_mesh bring the parts up in a  *)
(* fixed order, hold until they are told to stop, and take them down.      *)
(* procd starts the process again whenever it exits with an error.         *)
(*                                                                         *)
(* A step of the start either goes on, goes on without the part it could   *)
(* not bring up, or ends the process.  Troubles that outlast a restart are *)
(* chosen once: the Tolerated ones cost a part, the Fatal ones end every   *)
(* start at the same step.  Other errors are transient and bounded.        *)
(***************************************************************************)
EXTENDS Naturals, FiniteSets

CONSTANTS MaxFaults,    \* bound: errors, kills and gossip failures
          MaxTroubles   \* bound: lasting troubles of a router

Lane == {"claims", "services2", "leased", "addrs", "users", "names", "services"}
Tolerated == {"no interface", "address busy", "no lookup", "no topic", "port taken"}
Fatal == {"bad key", "bad options", "dns port taken", "bad roster", "no tun"}
Trouble == Tolerated \cup Fatal

VARIABLES
  lan, overlay, lanTunnels,   \* the mode the command line selects
  trouble,    \* lasting troubles of this router
  pc,         \* the step main or run_mesh is at, or "down"
  l2,         \* the backhaul interface was found
  pinned,     \* the endpoint is bound to the backhaul address
  hints,      \* peers' addresses were handed to the endpoint
  loaded,     \* lanes read from disk since the start
  tasks,      \* tasks that run
  disk,       \* lanes whose file still holds all it ever held
  forward,    \* dnsmasq is configured to forward .mesh to the responder
  faults,     \* faults so far
  stopped     \* the operator stopped the daemon

config == <<lan, overlay, lanTunnels, trouble>>
net == <<l2, pinned, hints>>
outside == <<disk, forward, stopped>>
vars == <<config, pc, net, loaded, tasks, outside, faults>>

Init ==
  /\ lan \in BOOLEAN /\ overlay \in BOOLEAN /\ lanTunnels \in BOOLEAN
  /\ trouble \in {t \in SUBSET Trouble : Cardinality(t) <= MaxTroubles}
  /\ pc = "secret"
  /\ l2 = FALSE /\ pinned = FALSE /\ hints = FALSE
  /\ loaded = {} /\ tasks = {}
  /\ disk = Lane /\ forward \in BOOLEAN /\ stopped = FALSE
  /\ faults = 0

At(here, there) == pc = here /\ pc' = there

\* The process ends, and with it everything it held.
Exits ==
  /\ pc' = "down"
  /\ tasks' = {} /\ loaded' = {}
  /\ l2' = FALSE /\ pinned' = FALSE /\ hints' = FALSE

\* The step returns the error its caller passes on with `?'.
Returns(here, error) ==
  /\ pc = here /\ error \in trouble
  /\ Exits
  /\ UNCHANGED <<config, outside, faults>>

-----------------------------------------------------------------------------
(* main.                                                                   *)

load_or_create_secret ==
  \/ Returns("secret", "bad key")
  \/ /\ At("secret", "backhaul") /\ "bad key" \notin trouble
     /\ loaded' = loaded \cup {"claims"}
     /\ UNCHANGED <<config, net, tasks, outside, faults>>

\* In overlay mode the backhaul address belongs on the overlay interface.
assign_backhaul_addr ==
  /\ At("backhaul", "endpoint")
  /\ l2' = (~overlay /\ "no interface" \notin trouble)
  /\ UNCHANGED <<config, pinned, hints, loaded, tasks, outside, faults>>

\* Mutant: a LAN endpoint insists on its address.
BindOrDie ==
  \/ Returns("endpoint", "bad options")
  \/ lan /\ ~overlay /\ l2 /\ Returns("endpoint", "address busy")
  \/ /\ At("endpoint", "directory") /\ "bad options" \notin trouble
     /\ lan /\ ~overlay /\ l2 => "address busy" \notin trouble
     /\ pinned' = (lan /\ ~overlay /\ l2) /\ l2' = (lan /\ l2)
     /\ UNCHANGED <<config, hints, loaded, tasks, outside, faults>>

\* A LAN endpoint that cannot have its address takes any.
build_endpoint ==
  \/ Returns("endpoint", "bad options")
  \/ /\ At("endpoint", "directory") /\ "bad options" \notin trouble
     /\ pinned' = (lan /\ ~overlay /\ l2 /\ "address busy" \notin trouble)
     /\ l2' = (lan /\ l2)
     /\ UNCHANGED <<config, hints, loaded, tasks, outside, faults>>

-----------------------------------------------------------------------------
(* run_mesh, up to the gossip.                                             *)

restore_directory ==
  /\ At("directory", "responder")
  /\ loaded' = loaded \cup {"services2", "leased"}
  /\ UNCHANGED <<config, net, tasks, outside, faults>>

start_responder ==
  \/ Returns("responder", "dns port taken")
  \/ /\ At("responder", "dnsmasq") /\ "dns port taken" \notin trouble
     /\ tasks' = tasks \cup {"dns"}
     /\ UNCHANGED <<config, net, loaded, outside, faults>>

reconcile_dnsmasq_uci ==
  /\ At("dnsmasq", "roster")
  /\ forward' = TRUE
  /\ UNCHANGED <<config, net, loaded, tasks, disk, stopped, faults>>

load_roster ==
  \/ Returns("roster", "bad roster")
  \/ /\ At("roster", "overlay") /\ "bad roster" \notin trouble
     /\ UNCHANGED <<config, net, loaded, tasks, outside, faults>>

spawn_overlay ==
  \/ overlay /\ Returns("overlay", "no tun")
  \/ /\ At("overlay", "lanes")
     /\ overlay => "no tun" \notin trouble
     /\ tasks' = tasks \cup (IF overlay THEN {"writer", "fib", "reader"} ELSE {})
     /\ UNCHANGED <<config, net, loaded, outside, faults>>

\* Mutant: the first service directory is not read back.
RestoreSome ==
  /\ At("lanes", "router")
  /\ loaded' = loaded \cup {"addrs", "users", "names"}
  /\ UNCHANGED <<config, net, tasks, outside, faults>>

restore_lanes ==
  /\ At("lanes", "router")
  /\ loaded' = loaded \cup {"addrs", "users", "names", "services"}
  /\ UNCHANGED <<config, net, tasks, outside, faults>>

spawn_router ==
  /\ At("router", "lookup")
  /\ tasks' = tasks \cup {"router"}
  /\ UNCHANGED <<config, net, loaded, outside, faults>>

seed_lookup ==
  /\ At("lookup", "subscribe")
  /\ hints' = ("no lookup" \notin trouble)
  /\ UNCHANGED <<config, l2, pinned, loaded, tasks, outside, faults>>

-----------------------------------------------------------------------------
(* run_mesh, from the gossip on.                                           *)

Gossiping == {"rejoin", "dispatch", "claim", "anti-entropy", "sweep", "radio"}

\* Without the topic the daemon goes on, and nothing subscribes again.
subscribe ==
  /\ pc = "subscribe"
  /\ IF "no topic" \in trouble
       THEN pc' = "babel" /\ UNCHANGED tasks
       ELSE pc' = "control" /\ tasks' = tasks \cup Gossiping
  /\ UNCHANGED <<config, net, loaded, outside, faults>>

control_api_start ==
  /\ At("control", "babel")
  /\ tasks' = tasks \cup (IF "port taken" \in trouble THEN {} ELSE {"control"})
  /\ UNCHANGED <<config, net, loaded, outside, faults>>

spawn_babel ==
  /\ At("babel", "dial")
  /\ tasks' = tasks \cup {IF overlay THEN "babel overlay" ELSE "babel", "probe"}
  /\ UNCHANGED <<config, net, loaded, outside, faults>>

\* Mutant: the interface found decides, not the mode.
TunnelsOverL2 == overlay \/ ~l2 \/ lanTunnels

want_tunnels == overlay \/ ~lan \/ lanTunnels

spawn_dialers ==
  /\ At("dial", "holding")
  /\ tasks' = tasks \cup (IF want_tunnels THEN {"dialers"} ELSE {})
  /\ UNCHANGED <<config, net, loaded, outside, faults>>

\* The tasks it holds are aborted; the process takes the detached ones with it.
CtrlC ==
  /\ pc = "holding" /\ stopped' = TRUE
  /\ Exits
  /\ UNCHANGED <<config, disk, forward, faults>>

-----------------------------------------------------------------------------
(* What happens while the daemon runs.                                     *)

\* Every save rewrites the whole file from memory.
Saves(t) ==
  CASE t = "dispatch"     -> Lane
    [] t = "anti-entropy" -> Lane \ {"leased"}
    [] t = "sweep"        -> {"leased"}
    [] t = "claim"        -> {"claims"}
    [] t = "control"      -> {"services2"}
    [] OTHER              -> {}

Save(lane) ==
  /\ \E t \in tasks : lane \in Saves(t)
  /\ disk' = IF lane \in loaded THEN disk ELSE disk \ {lane}
  /\ UNCHANGED <<config, pc, net, loaded, tasks, forward, stopped, faults>>

\* A transport error ends the dispatch loop; the other tasks go on.
DispatchEnds ==
  /\ "dispatch" \in tasks /\ faults < MaxFaults
  /\ tasks' = tasks \ {"dispatch"}
  /\ faults' = faults + 1
  /\ UNCHANGED <<config, pc, net, loaded, outside>>

\* A passing error of a step, a lost backhaul address, or a kill.
Dies ==
  /\ pc # "down" /\ faults < MaxFaults /\ faults' = faults + 1
  /\ Exits
  /\ UNCHANGED <<config, outside>>

\* procd, `respawn 3600 5 0': as often as it takes.
Respawn ==
  /\ pc = "down" /\ ~stopped
  /\ pc' = "secret"
  /\ UNCHANGED <<config, net, loaded, tasks, outside, faults>>

Start ==
  \/ load_or_create_secret \/ assign_backhaul_addr \/ build_endpoint
  \/ restore_directory \/ start_responder \/ reconcile_dnsmasq_uci
  \/ load_roster \/ spawn_overlay \/ restore_lanes \/ spawn_router
  \/ seed_lookup \/ subscribe \/ control_api_start \/ spawn_babel
  \/ spawn_dialers

Next ==
  \/ Start
  \/ CtrlC
  \/ \E lane \in Lane : Save(lane)
  \/ DispatchEnds
  \/ Dies
  \/ Respawn

Spec == Init /\ [][Next]_vars

FairSpec == Spec /\ WF_vars(Start) /\ WF_vars(Respawn)

-----------------------------------------------------------------------------
(* Properties.                                                             *)

\* The values the variables take.
TypeOK ==
  /\ {lan, overlay, lanTunnels, l2, pinned, hints, forward, stopped} \subseteq BOOLEAN
  /\ trouble \subseteq Trouble
  /\ loaded \subseteq Lane /\ disk \subseteq Lane
  /\ tasks \subseteq Gossiping \cup
       {"dns", "writer", "fib", "reader", "router", "control", "babel",
        "babel overlay", "probe", "dialers"}
  /\ faults \in 0..MaxFaults

\* No restart forgets: a task that rewrites a lane's file starts only after
\* that file was read, so a save never replaces history it has not seen.
NothingForgotten == disk = Lane

\* Once the start is over the data plane is the one the mode asks for, and
\* only that one: the overlay, tunnels to the peers, or the shared segment.
OneDataPlane ==
  pc = "holding" =>
    /\ "babel overlay" \in tasks <=> overlay
    /\ "reader" \in tasks <=> overlay
    /\ l2 => lan /\ ~overlay
    /\ lan /\ ~overlay /\ ~lanTunnels => "dialers" \notin tasks
    /\ "dialers" \in tasks \/ l2 \/ "no interface" \in trouble

\* A trouble that ends every start.  The overlay interface is needed in its mode.
Blocked == trouble \cap (IF overlay THEN Fatal ELSE Fatal \ {"no tun"}) # {}

\* Nothing short of a fatal trouble keeps the daemon down: once the transient
\* errors are over it holds, unless it was stopped, with the responder up.
Holds == Blocked \/ stopped \/ (pc = "holding" /\ "dns" \in tasks)
EventuallyHolds == <>[]Holds
=============================================================================
