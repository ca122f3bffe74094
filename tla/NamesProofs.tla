---------------------------- MODULE NamesProofs -----------------------------
(***************************************************************************)
(* Proofs of the properties that NamesParts states of leased names and of  *)
(* the service directory, from what is proved of each of them, for every   *)
(* value of the constants.                                                 *)
(***************************************************************************)
EXTENDS NamesParts, TLAPS

LEMMA LeaseParams == Leased!Params /\ Restored!Params
BY LeaseAssumption, Zenon
   DEF Leased!Params, Leased!IsFiniteSet, IsFiniteSet, Restored!Params, Restored!IsFiniteSet,
       Leased!Lease, Leased!HLC, Restored!Lease, Restored!HLC

NamesInv == /\ part = "leased names" => Leased!IInv
            /\ part = "restored names" => Restored!IInv
            /\ part = "services" => Services!IInv

LEMMA NamesStart == NamesInit => NamesInv
BY LeaseParams, NodeAssumption, ServicesAssumption, Leased!LeaseInit, Restored!LeaseInit,
   Services!InitHolds, Zenon
   DEF NamesInit, NamesInv

LEMMA NamesStep ==
  ASSUME NamesInv, [NamesNext]_<<part, slots>>
  PROVE  /\ NamesInv'
         /\ part = "leased names" => Leased!TakesLapsed
         /\ part = "restored names" => Restored!TakesLapsed
         /\ part = "services" => Services!TakenDownStep
<1>1. /\ part' = part
      /\ part = "leased names" => [Leased!Next]_Leased!vars
      /\ part = "restored names" => [Restored!Next]_Restored!vars
      /\ part = "services" => [Services!Next]_Services!vars
  BY Zenon DEF NamesNext, slots, Leased!vars, Restored!vars, Services!vars, Services!taskVars
<1>2. CASE part = "leased names"
  BY <1>1, <1>2, LeaseParams, NodeAssumption, Leased!LeaseStep, Leased!TakesStep, Zenon
       DEF NamesInv
<1>3. CASE part = "restored names"
  BY <1>1, <1>3, LeaseParams, NodeAssumption, Restored!LeaseStep, Restored!TakesStep, Zenon
       DEF NamesInv
<1>4. CASE part = "services"
  BY <1>1, <1>4, NodeAssumption, ServicesAssumption, Services!NextKeeps, Services!TakenDownOnly,
       Zenon DEF NamesInv
<1>5. QED BY <1>1, <1>2, <1>3, <1>4, Zenon DEF NamesInv

\* A key has at most one live name at the one node where it claims its names,
\* while that node's clock is not set back (ingest_name_claim_spool,
\* name_owned_by), restarts from the file included.
THEOREM OneNameHolds == NamesSpec => []OneNamePerKey
<1>1. NamesInv => OneNamePerKey
  BY LeaseParams, NodeAssumption, Leased!OneNameNow, Restored!OneNameNow, Zenon
     DEF NamesInv, OneNamePerKey
<1>2. QED BY <1>1, NamesStart, NamesStep, PTL DEF NamesSpec

\* A claim takes over a name only when the lease on it has run out by the
\* clock of the node, or is from that clock's future (cross_owner_winner).
THEOREM TakesLapsedHolds == NamesSpec => TakesOnlyLapsed
BY NamesStart, NamesStep, PTL DEF NamesSpec, TakesOnlyLapsed

\* A node that lost a name to another does not hold it in its own name
\* (track_conflict_loss and the refusal in publish_service_v2).
THEOREM LostIsLostHolds == NamesSpec => []LostIsLost
<1>1. NamesInv => LostIsLost
  <2>1. Services!IInv => Services!LostIsLost
    BY NodeAssumption, ServicesAssumption, Services!LostNow, Zenon
  <2>2. QED BY <2>1, Zenon DEF NamesInv, LostIsLost
<1>2. QED BY <1>1, NamesStart, NamesStep, PTL DEF NamesSpec

\* Only its owner, a winning claim or the sweep of the silent takes a service
\* out of a directory (apply_service_unpublish_v2, merge_service_v2).
THEOREM OwnersTakeDownHolds == NamesSpec => OnlyOwnerTakesDown
BY NamesStart, NamesStep, PTL DEF NamesSpec, OnlyOwnerTakesDown

\* The books of leases and of services, their files and the messages on their
\* way keep their types (NameBook, ServiceStateV2).
THEOREM NamesTypes == NamesSpec => []NamesTypeOK
<1>1. NamesInv => NamesTypeOK
  BY LeaseParams, NodeAssumption, ServicesAssumption, Leased!LeaseTypes, Restored!LeaseTypes,
     Services!TypesNow, Zenon
     DEF NamesInv, NamesTypeOK
<1>2. QED BY <1>1, NamesStart, NamesStep, PTL DEF NamesSpec
=============================================================================
