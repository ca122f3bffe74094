------------------------- MODULE SubnetConvergence -------------------------
(***************************************************************************)
(* What the merge of subnet claims promises by itself: replicas that       *)
(* received the same set of messages hold the same claims, whatever order  *)
(* the messages came in and however often each one did.                    *)
(***************************************************************************)
EXTENDS SubnetMerge

CONSTANTS Replica,   \* the nodes that receive the messages
          Ops        \* the messages that were ever sent

ASSUME OpsAssumption == Ops \subseteq Msg

VARIABLES copy,   \* the claim store of each replica
          seen    \* the messages each replica received so far

replicaVars == <<copy, seen>>

ReplicasInit ==
  /\ copy = [r \in Replica |-> EmptyStore]
  /\ seen = [r \in Replica |-> {}]

\* The dispatch loop applies one message, new to the replica or not.
Receive(r, m) ==
  /\ copy' = [copy EXCEPT ![r] = ApplySubnet(@, m)]
  /\ seen' = [seen EXCEPT ![r] = @ \cup {m}]

ReplicasNext == \E r \in Replica, m \in Ops : Receive(r, m)

ReplicasSpec == ReplicasInit /\ [][ReplicasNext]_replicaVars

-----------------------------------------------------------------------------

\* The values the variables take.
ReplicasTypeOK ==
  /\ copy \in [Replica -> Store]
  /\ seen \in [Replica -> SUBSET Ops]

\* Every replica that has seen the same set of messages computes the same
\* claim map (what the merge functions of crdt/merge.rs are for).
Converged ==
  \A r, q \in Replica : seen[r] = seen[q] => copy[r] = copy[q]

\* Claim a is the one resolve_subnet_conflict lets win against b.
Beats(a, b) ==
  \/ HlcLess(a.claimed_at, b.claimed_at)
  \/ a.claimed_at = b.claimed_at /\ a.owner <= b.owner

\* The claims on a subnet among the messages a replica has received.
ClaimsFor(s, ms) == {m.entry : m \in {x \in ms : x.type = "update" /\ x.slot = s}}

\* What a replica holds for a subnet is the senior one of the claims it has
\* received for it, and nothing if it received none.
SeniorHeld ==
  \A r \in Replica, s \in Slot :
    LET claims == ClaimsFor(s, seen[r]) IN
    \/ copy[r][s] = None /\ claims = {}
    \/ copy[r][s] \in claims /\ \A c \in claims : Beats(copy[r][s], c)

\* The messages under which the merge converges: no release, and no owner
\* claims one subnet with two different stamps.
SingleClaims ==
  /\ Ops \subseteq UpdateMsg
  /\ \A a, b \in Ops :
       a.slot = b.slot /\ a.entry.owner = b.entry.owner => a = b
=============================================================================
