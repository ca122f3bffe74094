------------------------------- MODULE Rejoin -------------------------------
(***************************************************************************)
(* How a daemon stays in the gossip swarm: the neighbour count the         *)
(* transport keeps, the loop that dials again whenever it is zero, and the *)
(* ranking that chooses whom to dial (bootstrap.rs) from the roster, the   *)
(* address book, the owners of claims and the liveness tracker.            *)
(*                                                                         *)
(* One node is followed; its peers are numbered in the order of their ids. *)
(***************************************************************************)
EXTENDS Naturals, Sequences, FiniteSets

CONSTANTS Peer,         \* every other node
          Self,         \* this node's id
          Roster,       \* the configured peers, in order; may hold Self
          Book,         \* peers in the persisted address book at the start
          Owners,       \* peers known from the claims file alone
          Announced,    \* Announced[p]: wall clock of p's address entry
          HardExpiry,   \* hard_expiry_ms, in ticks
          Cap,          \* BOOTSTRAP_CANDIDATE_CAP
          None,         \* never heard
          MaxFlaps      \* bound: changes of who can be reached

VARIABLES
  neighbors,  \* swarm neighbours: NeighborUp seen, NeighborDown not
  reach,      \* peers that are up and can be dialed
  book,       \* peers in the address book
  heard,      \* heard[p]: age of the last beacon of p in this run, or None
  backoff,    \* seconds the loop will sleep
  flaps       \* changes of reach so far

vars == <<neighbors, reach, book, heard, backoff, flaps>>

Init ==
  /\ neighbors = {}
  /\ reach \in SUBSET Peer
  /\ book = Book
  /\ heard = [p \in Peer |-> None]
  /\ backoff = 5
  /\ flaps = 0

Range(f) == {f[i] : i \in DOMAIN f}

-----------------------------------------------------------------------------
(* rank_bootstrap_candidates.                                              *)

is_hard_expired(p) == heard[p] # None /\ heard[p] > HardExpiry

Known(S) == {p \in S : ~is_hard_expired(p)}
Position(p) == CHOOSE i \in DOMAIN Roster : Roster[i] = p

\* Every candidate: the roster whatever the tracker says, and those of the book
\* and of the claims that are not long dead.
Candidates == (Range(Roster) \cup Known(book) \cup Known(Owners)) \ {Self}

\* The tiers, and the order within each: the operator's for the roster, the
\* most recent first for the others.  100 is past every stamp.
Tier(p) == CASE p \in Range(Roster) -> 1
             [] p \notin Range(Roster) /\ p \in book /\ heard[p] # None -> 2
             [] p \notin Range(Roster) /\ p \in book /\ heard[p] = None -> 3
             [] OTHER -> 4
Within(p) == CASE Tier(p) = 1 -> Position(p)
               [] Tier(p) = 3 -> 100 - Announced[p]
               [] OTHER -> IF heard[p] = None THEN HardExpiry + 1 ELSE heard[p]

\* Mutant: the roster, which needs no beacon to be believed, comes last.
RosterLast(p, q) == Tier(p) > Tier(q) \/ (Tier(p) = Tier(q) /\ p < q)

Before(p, q) ==
  \/ Tier(p) < Tier(q)
  \/ Tier(p) = Tier(q) /\ Within(p) < Within(q)
  \/ Tier(p) = Tier(q) /\ Within(p) = Within(q) /\ p < q

\* Mutant: only the operator's peers are dialed, as before the address book.
RosterOnly == Range(Roster) \ {Self}

\* The first Cap of them.
rank_bootstrap_candidates ==
  {p \in Candidates : Cardinality({q \in Candidates : Before(q, p)}) < Cap}

-----------------------------------------------------------------------------
(* The loop, the transport and the network.                                *)

\* Mutant: the sleep is not capped.
DoubledOn(b) == 2 * b

Doubled(b) == IF 2 * b < 60 THEN 2 * b ELSE 60

\* One round of gossip_rejoin_loop while there is no neighbour: dial, sleep,
\* double the sleep.  Any of the dialed peers that can be reached may answer;
\* with nobody to dial the loop only sleeps.
gossip_rejoin_loop ==
  /\ neighbors = {}
  /\ \E joined \in SUBSET (rank_bootstrap_candidates \cap reach) : neighbors' = joined
  /\ backoff' = Doubled(backoff)
  /\ UNCHANGED <<reach, book, heard, flaps>>

\* The loop sees that the node has neighbours; one that came and went while it
\* slept goes unnoticed.
Joined ==
  /\ neighbors # {} /\ backoff # 5
  /\ backoff' = 5
  /\ UNCHANGED <<neighbors, reach, book, heard, flaps>>

\* IrohGossipTransport::recv: another node has dialed us, or a neighbour went.
NeighborUp(p) ==
  /\ p \in reach \ neighbors
  /\ neighbors' = neighbors \cup {p}
  /\ UNCHANGED <<reach, book, heard, backoff, flaps>>

NeighborDown(p) ==
  /\ p \in neighbors \ reach
  /\ neighbors' = neighbors \ {p}
  /\ UNCHANGED <<reach, book, heard, backoff, flaps>>

\* Once in the swarm, the node hears the beacons and addresses of all in it.
Hear(p) ==
  /\ neighbors \cap reach # {} /\ p \in reach
  /\ heard' = [heard EXCEPT ![p] = 0]
  /\ book' = book \cup {p}
  /\ UNCHANGED <<neighbors, reach, backoff, flaps>>

Tick ==
  /\ heard' = [p \in Peer |-> IF heard[p] = None \/ is_hard_expired(p)
                                THEN heard[p] ELSE heard[p] + 1]
  /\ UNCHANGED <<neighbors, reach, book, backoff, flaps>>

\* Peers go down and come back, links break and heal.
Flap ==
  /\ flaps < MaxFlaps
  /\ flaps' = flaps + 1
  /\ reach' \in SUBSET Peer
  /\ UNCHANGED <<neighbors, book, heard, backoff>>

Next ==
  \/ gossip_rejoin_loop
  \/ Joined
  \/ \E p \in Peer : NeighborUp(p) \/ NeighborDown(p) \/ Hear(p)
  \/ Tick
  \/ Flap

Spec == Init /\ [][Next]_vars

(* Fairness: the loop goes round, a dialed peer that can be reached answers *)
(* at last, and a dead neighbour is noticed.                                *)
Dialed(p) == gossip_rejoin_loop /\ p \in neighbors'
Fairness ==
  /\ WF_vars(Joined)
  /\ \A p \in Peer : WF_vars(NeighborDown(p)) /\ WF_vars(Dialed(p))

FairSpec == Spec /\ Fairness

-----------------------------------------------------------------------------
(* Properties.                                                             *)

\* The values the variables take.
TypeOK ==
  /\ neighbors \subseteq Peer /\ reach \subseteq Peer /\ book \subseteq Peer
  /\ heard \in [Peer -> 0..(HardExpiry + 1) \cup {None}]
  /\ backoff \in {5, 10, 20, 40, 60}
  /\ flaps \in 0..MaxFlaps

\* No islands: a node that can reach for good a peer it ever learned of gets
\* into the swarm again, even if its configured peers are all down.
Learned == (Range(Roster) \cup book \cup Owners) \ {Self}
NoIsland == \A p \in Peer : <>[](p \in Learned /\ p \in reach) => []<>(neighbors # {})

\* The same for a peer that has not been silent for too long, as long as the
\* others to dial leave it room under the cap, and for one that the operator
\* named, whatever others there are and however long it was silent.
WithinReach(p) ==
  /\ p \in Candidates /\ p \in reach
  /\ Cardinality(IF p \in Range(Roster) THEN Range(Roster) \ {Self} ELSE Candidates) <= Cap
Rejoins ==
  \A p \in Peer : <>[]WithinReach(p) => []<>(neighbors # {})
=============================================================================
