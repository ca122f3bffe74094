---------------------------- MODULE SubnetMerge ----------------------------
(***************************************************************************)
(* The first-writer-wins merge of subnet claims (crdt/merge.rs) and its    *)
(* application to a node's claim store (apply_subnet_message).  Pure       *)
(* operators: SubnetClaims runs them inside the daemon's tasks and         *)
(* SubnetConvergence feeds them to replicas in every order.                *)
(*                                                                         *)
(* A claim store maps every subnet (the cidr string the code uses as key)  *)
(* to the claim it holds for it, or to None.                               *)
(***************************************************************************)
EXTENDS Hlc

CONSTANTS Slot,   \* the client /24s of the mesh space, numbered from 0
          None    \* no claim

Claim == [owner : Node, claimed_at : HLC]

ASSUME NoneAssumption == None \notin Claim /\ None \notin Slot

Store == [Slot -> Claim \cup {None}]
EmptyStore == [s \in Slot |-> None]

\* The gossip messages of the subnet lane.
UpdateMsg == [type : {"update"}, slot : Slot, entry : Claim]
ReleaseMsg == [type : {"release"}, slot : Slot, hlc : HLC]
Msg == UpdateMsg \cup ReleaseMsg

Update(s, c) == [type |-> "update", slot |-> s, entry |-> c]
Release(s, h) == [type |-> "release", slot |-> s, hlc |-> h]

YoungerWins(a, b) ==
  IF HlcLess(b.claimed_at, a.claimed_at)
  THEN [winner |-> a, loser |-> b]
  ELSE [winner |-> b, loser |-> a]

\* A verdict that ignores the owners when the clocks read the same.
LocalWinsTies(a, b) ==
  IF a.claimed_at.wall_clock <= b.claimed_at.wall_clock
  THEN [winner |-> a, loser |-> b]
  ELSE [winner |-> b, loser |-> a]

\* Lower stamp wins; equal stamps fall back to the owner's id.
resolve_subnet_conflict(a, b) ==
  IF \/ HlcLess(a.claimed_at, b.claimed_at)
     \/ a.claimed_at = b.claimed_at /\ a.owner <= b.owner
  THEN [winner |-> a, loser |-> b]
  ELSE [winner |-> b, loser |-> a]

merge_subnet_claim(local, incoming) ==
  CASE local = None -> [result |-> "Inserted"]
    [] local # None /\ local.owner = incoming.owner ->
         [result |-> IF HlcLess(local.claimed_at, incoming.claimed_at)
                     THEN "Updated" ELSE "Unchanged"]
    [] OTHER ->
         LET r == resolve_subnet_conflict(local, incoming) IN
         [result |-> "Conflict", winner |-> r.winner, loser |-> r.loser]

\* The claim the store holds after an update message was merged into it.
Merged(local, incoming) ==
  LET m == merge_subnet_claim(local, incoming) IN
  CASE m.result \in {"Inserted", "Updated"} -> incoming
    [] m.result = "Unchanged" -> local
    [] m.result = "Conflict" -> m.winner

\* The store after a message.  A release removes any claim that is not
\* younger than it, whoever owns the claim.
ApplySubnet(store, m) ==
  IF m.type = "update"
  THEN [store EXCEPT ![m.slot] = Merged(@, m.entry)]
  ELSE [store EXCEPT ![m.slot] =
          IF @ # None /\ HlcLeq(@.claimed_at, m.hlc) THEN None ELSE @]

WeLostSwapped(store, m, n) ==
  /\ m.type = "update"
  /\ LET r == merge_subnet_claim(store[m.slot], m.entry) IN
     r.result = "Conflict" /\ r.winner.owner = n

\* Whether the message costs node n its own claim in a conflict: the one
\* outcome apply_subnet_message reports to its caller.
WeLost(store, m, n) ==
  /\ m.type = "update"
  /\ LET r == merge_subnet_claim(store[m.slot], m.entry) IN
     /\ r.result = "Conflict"
     /\ r.loser.owner = n
     /\ r.winner.owner # n
=============================================================================
