---------------------------- MODULE MeshctlDeploy ---------------------------
(***************************************************************************)
(* meshctl deploy: the mesh container is replaced on one router after the  *)
(* other, listeners before connectors, and a connector is pointed at the   *)
(* address its listener printed to the router's log, or at the one the     *)
(* inventory gives, which may change from run to run.  Every command goes  *)
(* over SSH and may fail before or after it took effect; a router may      *)
(* reboot at any moment, and then starts the container it holds.           *)
(***************************************************************************)
EXTENDS Naturals, Sequences

CONSTANTS
  Routers,      \* the routers in the order cmd_deploy visits them
  Peer,         \* Peer[r]: the listener a connector dials, None for a listener
  None,
  MaxDeploys,   \* bound: runs of the command
  MaxFails,     \* bound: SSH commands that fail
  MaxReboots    \* bound: reboots of a router

Router == {Routers[i] : i \in DOMAIN Routers}

VARIABLES
  boxes,     \* per router: containers with our comment, each [cmd, up]
  env,       \* per router: the env list holds IROH_SECRET
  proc,      \* per router: identity and number of the running process
  printed,   \* per router: the running process has logged its blob
  log,       \* per router: logged blobs, oldest first
  at,        \* the router being deployed, 0 between two runs of the command
  pc,        \* the next step of its deployment
  cmd,       \* the container command resolved for it
  result,    \* per router: outcome of its last deployment
  runs, fails, reboots

vars == <<boxes, env, proc, printed, log, at, pc, cmd, result, runs, fails, reboots>>

\* A blob: the node id it was printed under, and the run it was printed in.
\* "own" is the id of the router's stable secret, "other" an ephemeral one,
\* and "given" the one in the inventory's peer_blob.
Blob(id, n) == [id |-> id, run |-> n]
Dead == Blob("none", 0)

\* The routers in old were deployed earlier, the others never: with the command a
\* connector gets while its listener's log is empty, and the blob logged since.
Installed(r) == <<[cmd |-> IF Peer[r] = None THEN None ELSE Blob("own", 0), up |-> TRUE]>>

Init ==
  /\ \E old \in SUBSET Router :
       /\ boxes = [r \in Router |-> IF r \in old THEN Installed(r) ELSE <<>>]
       /\ env = [r \in Router |-> r \in old]
       /\ proc = [r \in Router |-> IF r \in old THEN Blob("own", 1) ELSE Dead]
       /\ printed = [r \in Router |-> r \in old]
       /\ log = [r \in Router |-> IF r \in old THEN <<Blob("own", 1)>> ELSE <<>>]
  /\ at = 0 /\ pc = "idle" /\ cmd = None
  /\ result = [r \in Router |-> "none"]
  /\ runs = 0 /\ fails = 0 /\ reboots = 0

me == Routers[at]

\* The router starts its container: without the env list meshd makes up a key.
Boots(r, up) ==
  IF up THEN /\ proc' = [proc EXCEPT ![r] = Blob(IF env[r] THEN "own" ELSE "other", @.run + 1)]
             /\ printed' = [printed EXCEPT ![r] = FALSE]
        ELSE /\ proc' = [proc EXCEPT ![r].id = "none"]
             /\ UNCHANGED printed

-----------------------------------------------------------------------------
(* cmd_deploy.                                                             *)

Run ==
  /\ pc = "idle" /\ runs < MaxDeploys /\ runs' = runs + 1
  /\ at' = 1 /\ pc' = "resolve"
  /\ UNCHANGED <<boxes, env, proc, printed, log, cmd, result, fails, reboots>>

\* Mutant: the search stops at the first blob it finds.
ReadFirstBlob(r) ==
  LET oldest == {i \in DOMAIN log[r] :
                   /\ log[r][i].id = "own"
                   /\ \A j \in DOMAIN log[r] : log[r][j].id = "own" => i <= j}
  IN IF oldest = {} THEN Blob("own", 0) ELSE log[r][CHOOSE i \in oldest : TRUE]

\* The newest blob in the log that was printed under the peer's own id, else
\* the bare node id.
read_blob_for_id(r) ==
  LET newest == {i \in DOMAIN log[r] :
                   /\ log[r][i].id = "own"
                   /\ \A j \in DOMAIN log[r] : log[r][j].id = "own" => j <= i}
  IN IF newest = {} THEN Blob("own", 0) ELSE log[r][CHOOSE i \in newest : TRUE]

\* On to the next router, whatever became of this one.
Finish(outcome) ==
  /\ result' = [result EXCEPT ![me] = outcome]
  /\ at' = IF at = Len(Routers) THEN 0 ELSE at + 1
  /\ pc' = IF at = Len(Routers) THEN "idle" ELSE "resolve"

\* A connector's inventory entry pins an address, or names a peer, or neither:
\* then it is skipped.
resolve_peer_blob ==
  /\ pc = "resolve"
  /\ \/ /\ cmd' \in IF Peer[me] = None THEN {None}
                     ELSE {Blob("given", 0), read_blob_for_id(Peer[me])}
        /\ pc' = "network"
        /\ UNCHANGED <<at, result>>
     \/ /\ Peer[me] # None
        /\ Finish("failed")
        /\ UNCHANGED cmd
  /\ UNCHANGED <<boxes, env, proc, printed, log, runs, fails, reboots>>

(* deploy_one, a command at a time: its effect on the router, and the step *)
(* that follows it.                                                        *)

EnvsRemove == env' = [env EXCEPT ![me] = FALSE] /\ UNCHANGED <<boxes, proc, printed>>
EnvsAdd == env' = [env EXCEPT ![me] = TRUE] /\ UNCHANGED <<boxes, proc, printed>>

\* Mutant: a container that is still there is left to the router.
RemoveSkipped == UNCHANGED <<boxes, env, proc, printed>>

remove_existing ==
  /\ boxes' = [boxes EXCEPT ![me] = <<>>]
  /\ Boots(me, FALSE)
  /\ UNCHANGED env

\* The first of its two commands: the container is stopped but not removed.
StopOnly ==
  /\ boxes' = [boxes EXCEPT ![me] = [i \in DOMAIN @ |-> [@[i] EXCEPT !.up = FALSE]]]
  /\ Boots(me, FALSE)
  /\ UNCHANGED env

Add ==
  /\ boxes' = [boxes EXCEPT ![me] = Append(@, [cmd |-> cmd, up |-> FALSE])]
  /\ UNCHANGED <<env, proc, printed>>

Begin ==
  /\ boxes' = [boxes EXCEPT ![me] = [i \in DOMAIN @ |-> [@[i] EXCEPT !.up = TRUE]]]
  /\ Boots(me, boxes[me] # <<>>)
  /\ UNCHANGED env

\* The capability check, the network's convergence and the upload come first,
\* and leave the container alone.
Effect ==
  \/ pc = "network" /\ UNCHANGED <<boxes, env, proc, printed>>
  \/ pc = "envs_remove" /\ EnvsRemove
  \/ pc = "envs_add" /\ EnvsAdd
  \/ pc = "remove" /\ remove_existing
  \/ pc = "add" /\ Add
  \/ pc = "start" /\ Begin

After == [network |-> "envs_remove", envs_remove |-> "envs_add", envs_add |-> "remove",
          remove |-> "add", add |-> "start", start |-> "wait"]

deploy_one ==
  /\ Effect
  /\ pc' = After[pc]
  /\ UNCHANGED <<log, at, cmd, result, runs, fails, reboots>>

\* The deployment succeeded once the container is seen running.
wait_for_state ==
  /\ pc = "wait"
  /\ Finish(IF \E i \in DOMAIN boxes[me] : boxes[me][i].up THEN "ok" ELSE "failed")
  /\ UNCHANGED <<boxes, env, proc, printed, log, cmd, runs, fails, reboots>>

\* Mutant: so is setting it.
EnvsBestEffort == {"envs_remove", "envs_add"}

\* Clearing the env list is best effort: its failure is ignored.
BestEffort == {"envs_remove"}

\* A command fails, having taken effect or not; unless it was best effort this
\* router's deployment ends.
SshFails ==
  /\ pc # "idle" /\ (pc = "resolve" => Peer[me] # None)
  /\ fails < MaxFails /\ fails' = fails + 1
  /\ \/ Effect
     \/ pc = "remove" /\ StopOnly
     \/ UNCHANGED <<boxes, env, proc, printed>>
  /\ IF pc \in BestEffort THEN pc' = After[pc] /\ UNCHANGED <<at, result>>
                          ELSE Finish("failed")
  /\ UNCHANGED <<log, cmd, runs, reboots>>

-----------------------------------------------------------------------------
(* The routers.                                                            *)

\* meshd logs its node id and address some time after it started.
Logs(r) ==
  /\ proc[r].id # "none" /\ ~printed[r]
  /\ printed' = [printed EXCEPT ![r] = TRUE]
  /\ log' = [log EXCEPT ![r] = Append(@, proc[r])]
  /\ UNCHANGED <<boxes, env, proc, at, pc, cmd, result, runs, fails, reboots>>

\* A reboot starts the container (start-on-boot); the log may be kept or not.
Reboot(r) ==
  /\ reboots < MaxReboots /\ reboots' = reboots + 1
  /\ boxes[r] # <<>>
  /\ boxes' = [boxes EXCEPT ![r] = [i \in DOMAIN @ |-> [@[i] EXCEPT !.up = TRUE]]]
  /\ Boots(r, TRUE)
  /\ log' \in {log, [log EXCEPT ![r] = <<>>]}
  /\ UNCHANGED <<env, at, pc, cmd, result, runs, fails>>

Next ==
  \/ Run \/ resolve_peer_blob \/ deploy_one \/ wait_for_state \/ SshFails
  \/ \E r \in Router : Logs(r) \/ Reboot(r)

Spec == Init /\ [][Next]_vars

-----------------------------------------------------------------------------
(* Properties.                                                             *)

\* The values the variables take.
TypeOK ==
  /\ \A r \in Router : /\ proc[r].id \in {"none", "own", "other"}
                       /\ result[r] \in {"none", "ok", "failed"}
                       /\ log[r] \in Seq([id : {"own", "other"},
                                          run : 0..MaxDeploys + MaxReboots + 1])
  /\ at \in 0..Len(Routers)
  /\ pc \in DOMAIN After \cup {"idle", "resolve", "wait"}

\* A deployment that is reported as done leaves one container, running under
\* its stable identity, wherever earlier ones broke off.
StableStep ==
  pc = "wait" /\ pc' # pc /\ result'[me] = "ok" => proc[me].id = "own" /\ Len(boxes[me]) = 1
DoneIsStable == [][StableStep]_vars

\* A connector that is pointed at its listener is given the listener's stable
\* identity, and once the process the listener runs has printed its address,
\* that address: not what earlier processes left in the log, under whatever
\* key.
PrintedStep ==
  LET p == Peer[me]
  IN pc = "resolve" /\ pc' = "network" /\ p # None /\ cmd'.id # "given" =>
       /\ cmd'.id = "own"
       /\ printed[p] /\ proc[p].id = "own" => cmd' = proc[p]
DialsPrinted == [][PrintedStep]_vars
=============================================================================
