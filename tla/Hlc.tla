-------------------------------- MODULE Hlc --------------------------------
(***************************************************************************)
(* The hybrid logical clock stamp every replicated record carries          *)
(* (crdt/hlc.rs), and how the daemon produces one (now_hlc).               *)
(*                                                                         *)
(* Node ids are 64-hex strings that the code only ever compares; here a    *)
(* node id is a natural number, its rank in the lexicographic order.       *)
(***************************************************************************)
EXTENDS Integers

CONSTANT Node   \* the routers of the mesh

ASSUME NodeAssumption == Node \subseteq Nat

HLC == [wall_clock : Nat, counter : Nat, node_id : Node]

\* Ord for HLC: wall clock, then counter, then node id.
HlcLess(a, b) ==
  \/ a.wall_clock < b.wall_clock
  \/ /\ a.wall_clock = b.wall_clock
     /\ \/ a.counter < b.counter
        \/ a.counter = b.counter /\ a.node_id < b.node_id

HlcLeq(a, b) == a = b \/ HlcLess(a, b)

\* The daemon stamps with the system clock and never advances the counter.
now_hlc(n, wall) == [wall_clock |-> wall, counter |-> 0, node_id |-> n]
=============================================================================
