----------------------------- MODULE NamesParts -----------------------------
(***************************************************************************)
(* Leased names and the service directory.                                 *)
(***************************************************************************)
EXTENDS Hlc, Slots, FiniteSets

CONSTANTS
  \* LeasedNames; the daemons of LeaseFragile restart, with RestoredName
  Client, LeaseName, RestoredName, Desk, TTL, LeaseFragile, LeaseJumpy, MaxTime, MaxLeases,
  \* ServicesV2
  SvcName, SvcReserved, SvcRequest, SvcSilent, SvcKept, SvcFragile, SvcFlaky,
  SvcMaxPublish, SvcMaxUnpublish, SvcMaxWall, SvcMaxRestarts, SvcMaxInFlight

\* Leased names and services come with their proofs, for NamesProofs to cite.
\* Leases without restarts, and with them.
Leased == INSTANCE LeasedNamesProofs
  WITH Name <- LeaseName, None <- Nil, Fragile <- {}, Jumpy <- LeaseJumpy,
       MaxInFlight <- MaxLeases,
       clock <- s1, names <- s2, saved <- s3, dirty <- s4, inbox <- s5
Restored == INSTANCE LeasedNamesProofs
  WITH Name <- RestoredName, None <- Nil, Fragile <- LeaseFragile, Jumpy <- LeaseJumpy,
       MaxInFlight <- MaxLeases,
       clock <- s1, names <- s2, saved <- s3, dirty <- s4, inbox <- s5

Services == INSTANCE ServicesV2Proofs
  WITH Name <- SvcName, Reserved <- SvcReserved, None <- Nil, Request <- SvcRequest,
       Silent <- SvcSilent, Kept <- SvcKept, Fragile <- SvcFragile, Flaky <- SvcFlaky,
       MaxPublish <- SvcMaxPublish, MaxUnpublish <- SvcMaxUnpublish, MaxWall <- SvcMaxWall,
       MaxRestarts <- SvcMaxRestarts, MaxInFlight <- SvcMaxInFlight,
       svc <- s1, file <- s2, inbox <- s3, at <- s4, snap <- s5, doomed <- s6,
       observed <- s7, wall <- s8, asked <- s9, restarts <- s10

ASSUME LeaseAssumption ==
  /\ IsFiniteSet(Node) /\ LeaseName \subseteq Nat /\ RestoredName \subseteq Nat
  /\ Desk \in [Client -> SUBSET Node]
  /\ TTL \in Nat /\ MaxTime \in Nat /\ Nil \notin Leased!Lease

ASSUME ServicesAssumption ==
  /\ SvcReserved \subseteq SvcName /\ {"dispatch", "tick"} \cap SvcRequest = {}
  /\ Nil \notin Services!ServiceEntryV2 /\ Nil \notin Services!ServiceTombstone
  /\ Nil \notin Services!LostName
  /\ SvcSilent \subseteq Node /\ SvcKept \subseteq Node
  /\ SvcFragile \subseteq SvcKept /\ SvcFlaky \subseteq SvcKept
  /\ SvcMaxPublish \in [Node -> Nat] /\ SvcMaxUnpublish \in [Node -> Nat]
  /\ SvcMaxWall \in Nat \ {0} /\ SvcMaxRestarts \in Nat /\ SvcMaxInFlight \in Nat

-----------------------------------------------------------------------------
(* A behaviour of one of them.                                             *)

NamesInit ==
  \/ part = "leased names" /\ Leased!Init /\ Idle6 /\ Idle11
  \/ part = "restored names" /\ Restored!Init /\ Idle6 /\ Idle11
  \/ part = "services" /\ Services!Init /\ Idle11

NamesNext ==
  /\ \/ part = "leased names" /\ Leased!Next /\ UNCHANGED from6
     \/ part = "restored names" /\ Restored!Next /\ UNCHANGED from6
     \/ part = "services" /\ Services!Next /\ UNCHANGED from11
  /\ UNCHANGED part

NamesSpec == NamesInit /\ [][NamesNext]_<<part, slots>>

-----------------------------------------------------------------------------
(* The properties of the parts, as their modules state them.               *)

\* The values the variables take.
NamesTypeOK == /\ part = "leased names" => Leased!TypeOK
               /\ part = "restored names" => Restored!TypeOK
               /\ part = "services" => Services!TypeOK

\* A key that posts its claims to one node, whose clock is never set back, has
\* no two live names in that node's book, whatever it claims, loses and renews.
OneNamePerKey == /\ part = "leased names" => Leased!OneNamePerKey
                 /\ part = "restored names" => Restored!OneNamePerKey

\* A claim made at a node takes a name from another key only when that key's
\* lease has run out by this node's clock, or the clock has not passed the
\* reading of the lease's first claim.
TakesOnlyLapsed == [][/\ part = "leased names" => Leased!TakesLapsed
                      /\ part = "restored names" => Restored!TakesLapsed]_<<part, slots>>

\* A node that lost a name to another does not hold it in its own name.
LostIsLost == part = "services" => Services!LostIsLost

\* A service leaves a directory only by its owner's wish or silence, or for a
\* claim that wins over it.
OnlyOwnerTakesDown == [][part = "services" => Services!TakenDownStep]_<<part, slots>>
=============================================================================
