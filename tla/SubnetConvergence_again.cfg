SPECIFICATION ReplicasSpec
CONSTANTS
  Node = {1, 2, 3}
  Slot <- Subnets
  None = None
  Replica = {r1, r2}
  Ops <- ClaimedAgain
INVARIANTS
  Converged
