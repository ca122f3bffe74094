------------------------ MODULE MCSubnetConvergence ------------------------
(* Instances of SubnetConvergence for TLC. *)
EXTENDS SubnetConvergence

Subnets == {0, 1, 2}

ClaimBy(n, w) == [owner |-> n, claimed_at |-> now_hlc(n, w)]

\* Three owners on one subnet, two of them with one clock reading, and two on
\* another: every owner claims a subnet at most once.
ClaimedOnce ==
  {Update(0, ClaimBy(1, 2)), Update(0, ClaimBy(2, 1)), Update(0, ClaimBy(3, 1)),
   Update(1, ClaimBy(1, 1)), Update(1, ClaimBy(2, 1))}

\* Node 1 claims, restarts without its claims file and claims again.
ClaimedAgain ==
  {Update(0, ClaimBy(1, 1)), Update(0, ClaimBy(2, 2)), Update(0, ClaimBy(1, 3))}
=============================================================================
