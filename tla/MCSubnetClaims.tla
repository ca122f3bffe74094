--------------------------- MODULE MCSubnetClaims ---------------------------
(***************************************************************************)
(* Instances of SubnetClaims for TLC.  One run explores three scenarios    *)
(* side by side: a mesh whose clocks move, a node that starts from a       *)
(* claims file of older firmware, and a node whose daemon restarts.        *)
(***************************************************************************)
EXTENDS SubnetClaims

VARIABLE scenario

\* Both routers hash to the same slot, so they collide on their first pick.
SamePreferred == [n \in Node |-> 0]
TwoReadings == [n \in Node |-> 2]
OneReading == [n \in Node |-> 1]

Slots == 0..(NumSlots - 1)

Mesh == INSTANCE SubnetClaims
  WITH Flaky <- {2}, Fragile <- {}, Legacy <- {}, MaxWall <- TwoReadings,
       MaxRestarts <- 0, MaxInFlight <- 2, MaxReclaim <- 2

OldFile == INSTANCE SubnetClaims
  WITH Flaky <- {2}, Fragile <- {}, Legacy <- {2}, MaxWall <- OneReading,
       MaxRestarts <- 0, MaxInFlight <- 1, MaxReclaim <- 1

Restarts == INSTANCE SubnetClaims
  WITH Flaky <- {1}, Fragile <- {1}, Legacy <- {}, MaxWall <- OneReading,
       MaxRestarts <- 1, MaxInFlight <- 2, MaxReclaim <- 1

ScenarioInit ==
  \/ scenario = "mesh" /\ Mesh!Init
  \/ scenario = "old file" /\ OldFile!Init
  \/ scenario = "restart" /\ Restarts!Init

ScenarioNext ==
  /\ \/ scenario = "mesh" /\ Mesh!Next
     \/ scenario = "old file" /\ OldFile!Next
     \/ scenario = "restart" /\ Restarts!Next
  /\ UNCHANGED scenario

ScenarioSpec == ScenarioInit /\ [][ScenarioNext]_<<vars, scenario>>

\* One mesh, with the bounds of the configuration.
OneInit == scenario = "one" /\ Init
OneNext == Next /\ UNCHANGED scenario
OneSpec == OneInit /\ [][OneNext]_<<vars, scenario>>

\* A claims file is read at a restart only: when none is left to come, what
\* the files hold makes no difference to the rest of the behaviour.
LiveView ==
  <<store, IF scenario = "restart" /\ restarts = 0 THEN disk[1] ELSE None,
    inbox, reclaim, managerVars, hostVars, wall, restarts, adrift, scenario>>
=============================================================================
