---------------------------- MODULE MeshctlParts ----------------------------
(***************************************************************************)
(* meshctl's apply and deploy.                                             *)
(***************************************************************************)
EXTENDS Slots, Naturals, Sequences

CONSTANTS
  \* MeshctlApply, with sessions that do not overlap
  Session, Order, Needs, Paths, MaxItems, MaxSshFails, MaxEdits,
  \* MeshctlDeploy
  Routers, Listener, MaxDeploys, MaxDeployFails, MaxReboots

Applying == INSTANCE MeshctlApply
  WITH Overlap <- FALSE, MaxFails <- MaxSshFails,
       live <- s1, left <- s2, pc <- s3, at <- s4, plan <- s5, failed <- s6,
       report <- s7, clean <- s8, fails <- s9, edits <- s10

Deploying == INSTANCE MeshctlDeploy
  WITH Peer <- Listener, None <- Nil, MaxFails <- MaxDeployFails,
       boxes <- s1, env <- s2, proc <- s3, printed <- s4, log <- s5, at <- s6,
       pc <- s7, cmd <- s8, result <- s9, runs <- s10, fails <- s11, reboots <- s12

\* desired_resources lists each kind once, and after the kinds it refers to.
ASSUME ApplyAssumption ==
  /\ Order \in Seq(Applying!Kind) /\ Paths \in Seq(Applying!Kind)
  /\ \A i, j \in DOMAIN Order : Order[i] = Order[j] => i = j
  /\ \A j \in DOMAIN Order : \A k \in Needs[Order[j]] : \E i \in 1..j - 1 : k = Order[i]
  /\ MaxItems \in Nat /\ MaxSshFails \in Nat /\ MaxEdits \in Nat

\* An inventory names routers, each once; a connector's listener is one of them.
ASSUME DeployAssumption ==
  /\ Routers \in Seq(Deploying!Router) /\ Routers # <<>>
  /\ \A i, j \in DOMAIN Routers : Routers[i] = Routers[j] => i = j
  /\ Listener \in [Deploying!Router -> Deploying!Router \cup {Nil}]
  /\ MaxDeploys \in Nat /\ MaxDeployFails \in Nat /\ MaxReboots \in Nat

-----------------------------------------------------------------------------
(* A behaviour of one of them.                                             *)

MeshctlInit ==
  \/ part = "apply" /\ Applying!Init /\ Idle11
  \/ part = "deploy" /\ Deploying!Init

MeshctlNext ==
  /\ \/ part = "apply" /\ Applying!Next /\ UNCHANGED from11
     \/ part = "deploy" /\ Deploying!Next
  /\ UNCHANGED part

MeshctlSpec == MeshctlInit /\ [][MeshctlNext]_<<part, slots>>

-----------------------------------------------------------------------------
(* The properties of the parts, as their modules state them.               *)

\* The values the variables take.
MeshctlTypeOK == /\ part = "apply" => Applying!TypeOK
                 /\ part = "deploy" => Deploying!TypeOK

\* Apply makes no second item of a resource, although the answer to an `add'
\* may be lost and apply is run again, and touches none that is ambiguous.
OneOfEach == [][part = "apply" => Applying!OneOfEachStep]_<<part, slots>>

\* One undisturbed run of apply brings the router to the desired state, from
\* any state, but for the resources that are ambiguous.
OnePassConverges == [][part = "apply" => Applying!PassStep]_<<part, slots>>

\* A deployment reported as done leaves one container, running under its
\* stable key.
DoneIsStable == [][part = "deploy" => Deploying!StableStep]_<<part, slots>>

\* A connector is pointed at its listener's stable identity, and at the address
\* its present process printed once it did.
DialsPrinted == [][part = "deploy" => Deploying!PrintedStep]_<<part, slots>>
=============================================================================
