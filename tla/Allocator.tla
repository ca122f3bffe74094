------------------------------ MODULE Allocator ------------------------------
(***************************************************************************)
(* The subnet allocator (alloc.rs) on blocks of any prefix length: a       *)
(* request is placed at the first free aligned slot from the slot its node *)
(* hashes to, and shrinks until it fits.  Blocks are claimed and released  *)
(* in any order, so the space fragments.                                   *)
(***************************************************************************)
EXTENDS Naturals, FiniteSets

CONSTANTS
  Bits,       \* the width of an address (32 in the code)
  Floor,      \* the smallest block handed out, as a prefix length (30)
  BaseLen,    \* the mesh address space: its prefix length...
  BaseAddr,   \* ... and its first address
  Hash,       \* the hashes nodes may have
  MaxBlocks   \* bound: blocks claimed at a time

VARIABLES
  claimed,    \* the claimed blocks
  asked,      \* the last request, if any: prefix length and the claims it saw
  granted     \* its answer, a set with the block or none

allocVars == <<claimed, asked, granted>>

\* 1 << n.
shl[n \in Nat] == IF n = 0 THEN 1 ELSE 2 * shl[n - 1]

\* A block: the address and the prefix length of a CIDR.
Block(a, p) == [addr |-> a, len |-> p]
total_addresses(p) == shl[Bits - p]

\* Ipv4Net::network has the host bits cleared.
ASSUME SpaceAssumption ==
  /\ Bits \in Nat /\ Floor \in 0..Bits /\ BaseLen \in 0..Bits /\ Hash \subseteq Nat
  /\ BaseAddr \in Nat /\ BaseAddr % total_addresses(BaseLen) = 0
  /\ MaxBlocks \in Nat

Addresses(b) == b.addr .. b.addr + total_addresses(b.len) - 1

contains(b, c) == b.len <= c.len /\ c.addr \div total_addresses(b.len) = b.addr \div total_addresses(b.len)

\* Mutant: only claims that hold the whole candidate count.
ContainedIn(b, blocks) == \E c \in blocks : contains(c, b)

overlaps_any(b, blocks) == \E c \in blocks : contains(c, b) \/ contains(b, c)

num_slots(p) == shl[p - BaseLen]
SlotBlock(h, p, offset) ==
  Block(BaseAddr + (((h % num_slots(p)) + offset) % num_slots(p)) * total_addresses(p), p)

\* The free slots at their least offset from the preferred one: one or none.
pick_subnet(h, blocks, p) ==
  {SlotBlock(h, p, k) : k \in {k \in 0..num_slots(p) - 1 :
     /\ ~overlaps_any(SlotBlock(h, p, k), blocks)
     /\ \A j \in 0..k - 1 : overlaps_any(SlotBlock(h, p, j), blocks)}}

\* Mutant: gives up one size early.
PickAboveFloor(h, blocks, p) ==
  {b \in UNION {pick_subnet(h, blocks, q) : q \in p..Floor - 1} :
     \A q \in p..b.len - 1 : pick_subnet(h, blocks, q) = {}}

\* The request as it is, else bump_smaller_subnet down to the floor.
pick_subnet_or_smaller(h, blocks, p) ==
  {b \in UNION {pick_subnet(h, blocks, q) : q \in {p} \cup p..Floor} :
     \A q \in p..b.len - 1 : pick_subnet(h, blocks, q) = {}}

AllocInit == claimed = {} /\ asked = {} /\ granted = {}

Ask(h, p) ==
  /\ Cardinality(claimed) < MaxBlocks
  /\ asked' = {[len |-> p, seen |-> claimed]}
  /\ granted' = pick_subnet_or_smaller(h, claimed, p)
  /\ claimed' = claimed \cup granted'

GiveBack(b) ==
  /\ claimed' = claimed \ {b}
  /\ UNCHANGED <<asked, granted>>

AllocNext ==
  \/ \E h \in Hash, p \in BaseLen..Bits : Ask(h, p)
  \/ \E b \in claimed : GiveBack(b)

AllocSpec == AllocInit /\ [][AllocNext]_allocVars

-----------------------------------------------------------------------------
(* Properties.                                                             *)

\* The aligned addresses of the space at which a block of length p is free...
FreeAt(p, blocks) ==
  {a \in BaseAddr .. BaseAddr + total_addresses(BaseLen) - 1 :
     /\ a % total_addresses(p) = 0
     /\ \A c \in blocks : Addresses(Block(a, p)) \cap Addresses(c) = {}}

\* ... and the lengths, from p down to the floor, for which there is one.
Fitting(p, blocks) == {q \in {p} \cup p..Floor : FreeAt(q, blocks) # {}}

\* The answer is the largest block that fits: there is none only when no block
\* down to the floor is free, and the block is smaller than asked for only when
\* no aligned range of the addresses of a larger one was free; and it is free.
LargestThatFits ==
  \A r \in asked :
    LET fitting == Fitting(r.len, r.seen)
    IN \/ fitting = {} /\ granted = {}
       \/ \E b \in granted : /\ granted = {b} /\ b.addr \in FreeAt(b.len, r.seen)
                             /\ b.len \in fitting /\ \A q \in fitting : b.len <= q
=============================================================================
