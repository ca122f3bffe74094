---------------------------- MODULE LeasedNames ----------------------------
(***************************************************************************)
(* Names leased by clients (crdt/leased_name.rs and the daemon's sweep).   *)
(* A client's claim is ingested by the node it was posted to, merged into  *)
(* that node's book, and broadcast once: unlike every other lane, leases   *)
(* are not announced again by the anti-entropy tick, only when the client  *)
(* renews.  A lease ends TTL after its last renewal.  Every node reads its *)
(* own system clock: the clocks drift apart, and those of Jumpy nodes are  *)
(* also set back.                                                          *)
(***************************************************************************)
EXTENDS Hlc, FiniteSets

CONSTANTS Client,       \* the keys that claim names
          Name,         \* the names they claim: their ranks in the book's order
          Desk,         \* Desk[c]: the nodes client c posts its claims to
          TTL,          \* LEASE_TTL_MS
          None,         \* no lease
          Fragile,      \* nodes whose daemon may restart, and whose file matters
          Jumpy,        \* nodes whose clock may be set back
          MaxTime,      \* bound: the clocks
          MaxInFlight   \* bound: messages on their way to one node

Lease == [owner : Client, first_claimed_at : HLC, renewed_at : HLC]

VARIABLES
  clock,    \* clock[n]: the system clock of n
  names,    \* names[n][x]: the lease of x in the book of n
  saved,    \* the book of n as last persisted
  dirty,    \* n has changed its book and not yet persisted it
  inbox     \* publishes on their way to a node

vars == <<clock, names, saved, dirty, inbox>>

NoNames == [x \in Name |-> None]

Init ==
  /\ clock = [n \in Node |-> 0]
  /\ names = [n \in Node |-> NoNames]
  /\ saved = [n \in Node |-> NoNames]
  /\ dirty = [n \in Node |-> FALSE]
  /\ inbox = [n \in Node |-> {}]

-----------------------------------------------------------------------------
(* The merge.                                                              *)

lease_expiry_ms(e) == e.renewed_at.wall_clock + TTL
is_expired(e, t) == t > lease_expiry_ms(e)

\* Mutant: a claim made on the last moment of the lease reclaims it too.
WinnerAtExpiry(a, b) ==
  LET incumbent == IF HlcLeq(a.first_claimed_at, b.first_claimed_at) THEN a ELSE b
      challenger == IF incumbent = a THEN b ELSE a
  IN IF challenger.first_claimed_at.wall_clock >= lease_expiry_ms(incumbent)
       THEN challenger ELSE incumbent

\* Of two owners' leases the one claimed first holds, unless the other was
\* claimed after it had expired.
cross_owner_winner(a, b) ==
  LET incumbent == IF HlcLeq(a.first_claimed_at, b.first_claimed_at) THEN a ELSE b
      challenger == IF incumbent = a THEN b ELSE a
  IN IF challenger.first_claimed_at.wall_clock > lease_expiry_ms(incumbent)
       THEN challenger ELSE incumbent

\* What is left of two leases of a name: the newer renewal of one owner, the
\* winner of two.
merge_leased_name(existing, incoming) ==
  IF existing = None THEN incoming
  ELSE IF existing.owner # incoming.owner THEN cross_owner_winner(existing, incoming)
  ELSE IF HlcLess(existing.renewed_at, incoming.renewed_at) THEN incoming
  ELSE existing

apply_leased_name(b, x, e) == [b EXCEPT ![x] = merge_leased_name(@, e)]

\* The live names of a key in a book at time t, and the one a look-up finds:
\* the first of them.
LiveNames(b, c, t) ==
  {x \in Name : b[x] # None /\ b[x].owner = c /\ ~is_expired(b[x], t)}
name_owned_by(b, c, t) ==
  {x \in LiveNames(b, c, t) : \A y \in LiveNames(b, c, t) : x <= y}

-----------------------------------------------------------------------------
(* The daemon.                                                             *)

Publish(n, m) ==
  \E reached \in SUBSET (Node \ {n}) :
    /\ inbox' = [k \in Node |-> IF k \in reached THEN inbox[k] \cup {m} ELSE inbox[k]]
    /\ \A k \in reached : Cardinality(inbox'[k]) <= MaxInFlight

\* Mutant: the key's other names are not looked at.
OwnsNoOther(n, c, x) == TRUE

\* One name per key, as far as this node's book tells.
MayClaim(n, c, x) == name_owned_by(names[n], c, clock[n]) \subseteq {x}

\* A renewal keeps the first claim of the same owner, even of a lapsed lease.
Tenure(n, c, x) ==
  IF names[n][x] # None /\ names[n][x].owner = c
    THEN names[n][x].first_claimed_at ELSE now_hlc(n, clock[n])

\* The lease that a claim makes.
NewLease(n, c, x) ==
  [owner |-> c, first_claimed_at |-> Tenure(n, c, x), renewed_at |-> now_hlc(n, clock[n])]

\* ingest_name_claim_spool for one accepted claim, and the broadcast of it by
\* name_claim_sweep_loop; a claim that does not prevail is dropped.
Claim(n, c, x) ==
  LET e == NewLease(n, c, x)
  IN /\ n \in Desk[c]
     /\ MayClaim(n, c, x)
     /\ names' = [names EXCEPT ![n] = apply_leased_name(@, x, e)]
     /\ IF names'[n][x] = e /\ names[n][x] # e
          THEN /\ Publish(n, [name |-> x, entry |-> e])
               /\ dirty' = [dirty EXCEPT ![n] = n \in Fragile]
          ELSE UNCHANGED <<inbox, dirty>>
     /\ UNCHANGED <<clock, saved>>

\* The dispatch loop merges a publish as it comes.
Deliver(n, m) ==
  /\ m \in inbox[n]
  /\ inbox' = [inbox EXCEPT ![n] = @ \ {m}]
  /\ names' = [names EXCEPT ![n] = apply_leased_name(@, m.name, m.entry)]
  /\ dirty' = [dirty EXCEPT ![n] = n \in Fragile]
  /\ UNCHANGED <<clock, saved>>

persist_leased_names(n) ==
  /\ dirty[n]
  /\ dirty' = [dirty EXCEPT ![n] = FALSE]
  /\ saved' = [saved EXCEPT ![n] = names[n]]
  /\ UNCHANGED <<clock, names, inbox>>

\* A daemon starts with the persisted book, or with none when the file cannot
\* be read or decoded.
load_leased_names(n) ==
  /\ n \in Fragile /\ names[n] # saved[n]
  /\ \E b \in {saved[n], NoNames} : names' = [names EXCEPT ![n] = b]
  /\ dirty' = [dirty EXCEPT ![n] = FALSE]
  /\ inbox' = [inbox EXCEPT ![n] = {}]
  /\ UNCHANGED <<clock, saved>>

\* The clock of n moves on, or is set back.
Wait(n, t) ==
  /\ t > clock[n] \/ n \in Jumpy
  /\ clock' = [clock EXCEPT ![n] = t]
  /\ UNCHANGED <<names, saved, dirty, inbox>>

Next ==
  \E n \in Node :
    \/ \E c \in Client, x \in Name : Claim(n, c, x)
    \/ \E m \in inbox[n] : Deliver(n, m)
    \/ persist_leased_names(n)
    \/ load_leased_names(n)
    \/ \E t \in 0..MaxTime : Wait(n, t)

Spec == Init /\ [][Next]_vars

-----------------------------------------------------------------------------
(* Properties.                                                             *)

\* The values the variables take.
TypeOK ==
  /\ clock \in [Node -> 0..MaxTime]
  /\ names \in [Node -> [Name -> Lease \cup {None}]]
  /\ saved \in [Node -> [Name -> Lease \cup {None}]]
  /\ dirty \in [Node -> BOOLEAN]
  /\ inbox \in [Node -> SUBSET [name : Name, entry : Lease]]

\* A claim made at a node takes a name from another key there only when that
\* key's lease has run out by this node's clock, or when this clock has not yet
\* passed the reading at which the lease was first claimed: the name of a lease
\* a node can date is safe for the TTL after every renewal.
TakesLapsed ==
  \A n \in Node, x \in Name :
    LET was == names[n][x] is == names'[n][x]
        claimed == inbox'[n] = inbox[n] /\ dirty'[n] = (n \in Fragile)
    IN claimed /\ was # None /\ is # None /\ was.owner # is.owner =>
         is_expired(was, clock[n]) \/ was.first_claimed_at.wall_clock >= clock[n]
TakesOnlyLapsed == [][TakesLapsed]_vars

\* A key that posts its claims to one node, whose clock is never set back, has
\* no two live names in that node's book, whatever it claims, loses and renews.
OneNamePerKey ==
  \A c \in Client : \A n \in Desk[c] \ Jumpy :
    Cardinality(Desk[c]) = 1 => Cardinality(LiveNames(names[n], c, clock[n])) <= 1
=============================================================================
