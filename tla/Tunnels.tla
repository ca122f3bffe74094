------------------------------- MODULE Tunnels -------------------------------
(***************************************************************************)
(* Per-peer tunnels between two routers.  The router with the lower id     *)
(* dials and, whenever a connection ends, dials again; the other accepts.  *)
(* At each end a task serves a connection: it reserves the peer's slot in  *)
(* the tunnel registry, brings up a TUN interface whose name is the peer's,*)
(* enters the name in the registry, and clears up when the connection is   *)
(* closed.  An interface disappears only some time after its tunnel is     *)
(* dropped.  Connections break at any time and each end learns of it at    *)
(* its own; routers crash and come back.                                   *)
(***************************************************************************)
EXTENDS Naturals, FiniteSets

CONSTANTS Conn,        \* names for the connections of which anything is left
          NoConn,        \* no connection
          MaxFaults    \* bound: breaks, failed set-ups and crashes

End == {"dialer", "acceptor"}

VARIABLES
  dialed,    \* the connections made so far
  closed,    \* closed[e]: the connections end e knows to be closed
  dead,      \* connections that are closed, by an end or by a fault
  task,      \* task[e][c]: where the task serving c at e is
  slot,      \* slot[e]: the peer's registry entry: the connection it is for, and
             \* whether it holds the interface's name yet
  iface,     \* iface[e]: the connection whose tunnel holds the interface, or NoConn
  sender,    \* sender[e]: does the task run that sends what the interface gives?
  faults

tunnelVars == <<dialed, closed, dead, task, slot, iface, sender, faults>>

Task == {"none", "reserve", "spawn", "serve", "drop", "release", "over"}
Free == [conn |-> NoConn, up |-> FALSE]

TunnelsTypeOK ==
  /\ dialed \subseteq Conn
  /\ closed \in [End -> SUBSET dialed]
  /\ dead \subseteq dialed
  /\ task \in [End -> [Conn -> Task]]
  /\ slot \in [End -> [conn : Conn \cup {NoConn}, up : BOOLEAN]]
  /\ iface \in [End -> Conn \cup {NoConn}]
  /\ sender \in [End -> BOOLEAN]
  /\ faults \in 0..MaxFaults

TunnelsInit ==
  /\ dialed = {}
  /\ closed = [e \in End |-> {}]
  /\ dead = {}
  /\ task = [e \in End |-> [c \in Conn |-> "none"]]
  /\ slot = [e \in End |-> Free]
  /\ iface = [e \in End |-> NoConn]
  /\ sender = [e \in End |-> FALSE]
  /\ faults = 0

Go(e, c, t) == task' = [task EXCEPT ![e][c] = t]
Close(e, c) == closed' = [closed EXCEPT ![e] = @ \cup {c}] /\ dead' = dead \cup {c}

-----------------------------------------------------------------------------
\* connector_loop: the dialer's one loop serves a connection at a time, and
\* dials anew a second after serve_tunnel has returned, by when the interface
\* of the dropped tunnel is gone.  (A dial that fails changes nothing but the
\* time until the next.)  A name is used again when neither end has anything
\* left of the connection it stood for.
Dial(c) ==
  /\ \A d \in Conn : task["dialer"][d] \in {"none", "over"}
  /\ \A e \in End : task[e][c] \in {"none", "over"}
  /\ dialed' = dialed \cup {c}
  /\ closed' = [e \in End |-> closed[e] \ {c}]
  /\ dead' = dead \ {c}
  /\ task' = [e \in End |-> [task[e] EXCEPT ![c] = "reserve"]]
  /\ UNCHANGED <<slot, iface, sender, faults>>

\* Mutant: a second connection of a peer takes the slot over.
ReserveOver(e, c) ==
  /\ task[e][c] = "reserve"
  /\ slot' = [slot EXCEPT ![e] = [conn |-> c, up |-> FALSE]]
  /\ Go(e, c, "spawn")
  /\ UNCHANGED <<dialed, closed, dead, iface, sender, faults>>

\* serve_tunnel reserves the slot; if it is taken, the connection is refused.
Reserve(e, c) ==
  /\ task[e][c] = "reserve"
  /\ IF slot[e] = Free
       THEN /\ slot' = [slot EXCEPT ![e] = [conn |-> c, up |-> FALSE]]
            /\ Go(e, c, "spawn")
            /\ UNCHANGED <<closed, dead, sender>>
       ELSE Close(e, c) /\ Go(e, c, "over") /\ UNCHANGED slot
  /\ UNCHANGED <<dialed, iface, sender, faults>>

\* spawn_tunnel: the interface is created unless one of its name exists, ...
SpawnTunnel(e, c) ==
  /\ task[e][c] = "spawn" /\ iface[e] = NoConn
  /\ iface' = [iface EXCEPT ![e] = c]
  /\ slot' = [slot EXCEPT ![e] = [conn |-> c, up |-> TRUE]]
  /\ sender' = [sender EXCEPT ![e] = TRUE]
  /\ Go(e, c, "serve")
  /\ UNCHANGED <<dialed, closed, dead, faults>>

\* ... in which case, or when netlink fails, the slot is freed and the
\* connection closed.
SpawnFails(e, c) ==
  /\ task[e][c] = "spawn"
  /\ iface[e] # NoConn \/ faults < MaxFaults
  /\ faults' = IF iface[e] # NoConn THEN faults ELSE faults + 1
  /\ slot' = [slot EXCEPT ![e] = Free]
  /\ Close(e, c)
  /\ Go(e, c, "over")
  /\ UNCHANGED <<dialed, iface, sender>>

\* Mutant: the slot is freed only when the interface is gone.
ServeKeepsSlot(e, c) ==
  /\ task[e][c] = "serve" /\ c \in closed[e]
  /\ Go(e, c, "drop")
  /\ UNCHANGED <<dialed, closed, dead, slot, iface, sender, faults>>

\* The connection is closed: the slot is freed first, ...
ServeEnds(e, c) ==
  /\ task[e][c] = "serve" /\ c \in closed[e]
  /\ slot' = [slot EXCEPT ![e] = Free]
  /\ Go(e, c, "drop")
  /\ UNCHANGED <<dialed, closed, dead, iface, sender, faults>>

\* ... then drop_tunnel aborts the two encap tasks ...
DropTunnel(e, c) ==
  /\ task[e][c] = "drop"
  /\ sender' = [sender EXCEPT ![e] = FALSE]
  /\ Go(e, c, "release")
  /\ UNCHANGED <<dialed, closed, dead, slot, iface, faults>>

\* ... and when they have let go of the device, the kernel removes it.
Release(e, c) ==
  /\ task[e][c] = "release"
  /\ iface' = [iface EXCEPT ![e] = NoConn]
  /\ Go(e, c, "over")
  /\ UNCHANGED <<dialed, closed, dead, slot, sender, faults>>

\* The other end hears of the closing, at the latest by its idle timeout.
Learn(e, c) ==
  /\ c \in dead \ closed[e] /\ task[e][c] # "over"
  /\ closed' = [closed EXCEPT ![e] = @ \cup {c}]
  /\ UNCHANGED <<dialed, dead, task, slot, iface, sender, faults>>

\* spawn_encap_pair: a packet larger than the path's datagrams is an error that
\* ends the sending task; nothing else hears of it.
SendTooLarge(e) ==
  /\ slot[e].up /\ sender[e] /\ faults < MaxFaults
  /\ sender' = [sender EXCEPT ![e] = FALSE]
  /\ faults' = faults + 1
  /\ UNCHANGED <<dialed, closed, dead, task, slot, iface>>

\* The path between the routers is lost.
Break(c) ==
  /\ faults < MaxFaults /\ c \in dialed \ dead
  /\ dead' = dead \cup {c}
  /\ faults' = faults + 1
  /\ UNCHANGED <<dialed, closed, task, slot, iface, sender>>

\* A router restarts: its interfaces, registry and tasks are gone with it.
Crash(e) ==
  /\ faults < MaxFaults
  /\ faults' = faults + 1
  /\ slot' = [slot EXCEPT ![e] = Free]
  /\ iface' = [iface EXCEPT ![e] = NoConn]
  /\ task' = [task EXCEPT ![e] = [c \in Conn |-> IF c \in dialed THEN "over" ELSE "none"]]
  /\ dead' = dialed
  /\ closed' = [closed EXCEPT ![e] = dialed]
  /\ sender' = [sender EXCEPT ![e] = FALSE]
  /\ UNCHANGED dialed

Serve(e, c) ==
  \/ Reserve(e, c) \/ SpawnTunnel(e, c) \/ SpawnFails(e, c)
  \/ ServeEnds(e, c) \/ DropTunnel(e, c) \/ Release(e, c) \/ Learn(e, c)

TunnelsNext ==
  \/ \E c \in Conn : Dial(c) \/ Break(c)
  \/ \E e \in End, c \in Conn : Serve(e, c)
  \/ \E e \in End : Crash(e) \/ SendTooLarge(e)

TunnelsSpec == TunnelsInit /\ [][TunnelsNext]_tunnelVars

\* Both ends run; a set-up that nothing stands in the way of succeeds.
TunnelsFairness ==
  /\ WF_tunnelVars(\E c \in Conn : Dial(c))
  /\ \A e \in End, c \in Conn : WF_tunnelVars(Serve(e, c))

FairTunnels == TunnelsSpec /\ TunnelsFairness

-----------------------------------------------------------------------------
(* Properties.                                                             *)

\* A name in the registry, from which babeld's interfaces are taken, is the
\* name of an interface that exists and carries the registered connection,
\* and a tunnel being served is in the registry.
RegistryTrue ==
  \A e \in End :
    /\ slot[e].up => iface[e] = slot[e].conn /\ task[e][slot[e].conn] = "serve"
    /\ \A c \in Conn : task[e][c] = "serve" => slot[e] = [conn |-> c, up |-> TRUE]

\* However connections break, are refused as duplicates or fail to be set up,
\* and however late an end hears of it, the routers end up with a tunnel for
\* one and the same connection at both ends.
SameTunnel ==
  /\ slot["dialer"].up /\ slot["acceptor"].up
  /\ slot["dialer"].conn = slot["acceptor"].conn
TunnelReturns == <>[]SameTunnel

\* What iface.rs says of the sender, and TLC refutes: a tunnel that is up and
\* whose connection is open goes on taking what its interface gives it, a
\* packet that is too large being dropped and the next one sent.
OutboundRuns ==
  \A e \in End : slot[e].up /\ slot[e].conn \notin dead => sender[e]
=============================================================================
