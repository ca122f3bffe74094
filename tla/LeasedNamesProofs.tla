------------------------- MODULE LeasedNamesProofs -------------------------
(***************************************************************************)
(* Proofs about the leased names, for any mesh, clients, names, lease      *)
(* times and drifting clocks: a key that posts to one node holds one live  *)
(* name there while the node's clock is not set back, and a claim takes a  *)
(* name from another key only when its lease has run out by the clock of   *)
(* the node, or is from that clock's future.                               *)
(***************************************************************************)
EXTENDS LeasedNames, FiniteSetTheorems, TLAPS

\* What the code says of its constants: a lease time, the nodes of a mesh, and
\* names that a book keeps in order.
Params ==
  /\ IsFiniteSet(Node) /\ Desk \in [Client -> SUBSET Node] /\ Name \subseteq Nat
  /\ TTL \in Nat /\ MaxTime \in Nat /\ None \notin Lease

\* A book has one live name of the key c at most.
LiveAs(l, c, t) == l # None /\ l.owner = c /\ ~is_expired(l, t)
OneLive(b, c, t) ==
  \A x, y \in Name : LiveAs(b[x], c, t) /\ LiveAs(b[y], c, t) => x = y

\* The inductive invariant: types; a node is never sent a lease of its own, and
\* a lease comes from a node its key posts to; and one live name per key, in
\* the book and in its file, where the clock is not set back.
TypeInv == TypeOK
ForeignInv ==
  \A n \in Node : \A m \in inbox[n] :
    /\ m.entry.renewed_at.node_id # n
    /\ m.entry.renewed_at.node_id \in Desk[m.entry.owner]
OneInv ==
  \A c \in Client, n \in Node \ Jumpy :
    Desk[c] = {n} => OneLive(names[n], c, clock[n]) /\ OneLive(saved[n], c, clock[n])

IInv == TypeInv /\ ForeignInv /\ OneInv

-----------------------------------------------------------------------------
(* The merge.                                                              *)

\* Of two leases one is left (merge_leased_name).
LEMMA MergeOneOf ==
  ASSUME NEW a, NEW b
  PROVE  merge_leased_name(a, b) \in {a, b}
BY Zenon DEF merge_leased_name, cross_owner_winner

\* A lease claimed at the reading t takes a name over only from one that has
\* run out by t, or that was claimed at t or later.
LEMMA TakesOver ==
  ASSUME NEW a \in Lease, NEW b \in Lease, a.owner # b.owner, TTL \in Nat,
         NEW t \in Nat, b.first_claimed_at.wall_clock = t,
         merge_leased_name(a, b) = b, a # None
  PROVE  is_expired(a, t) \/ a.first_claimed_at.wall_clock >= t
<1>1. cross_owner_winner(a, b) = b /\ a # b
  BY Zenon DEF merge_leased_name
<1>2. a.first_claimed_at \in HLC /\ b.first_claimed_at \in HLC
  BY Zenon DEF Lease
<1>3. CASE HlcLeq(a.first_claimed_at, b.first_claimed_at)
  BY <1>1, <1>3, Zenon DEF cross_owner_winner, is_expired
<1>4. CASE ~HlcLeq(a.first_claimed_at, b.first_claimed_at)
  <2>1. /\ a.first_claimed_at.wall_clock \in Nat /\ b.first_claimed_at.wall_clock \in Nat
        /\ ~(a.first_claimed_at.wall_clock < b.first_claimed_at.wall_clock)
    BY <1>2, <1>4, Zenon DEF HlcLeq, HlcLess, HLC
  <2>2. QED BY <2>1
<1>5. QED BY <1>3, <1>4, Zenon

\* A lease that is live was live before.
LEMMA StaysExpired ==
  ASSUME TTL \in Nat, NEW t \in Nat, NEW u \in Nat, t <= u,
         NEW b \in [Name -> Lease \cup {None}], NEW c, OneLive(b, c, t)
  PROVE  OneLive(b, c, u)
<1>1. ASSUME NEW x \in Name, LiveAs(b[x], c, u)
      PROVE  LiveAs(b[x], c, t)
  <2>1. b[x] \in Lease
    BY <1>1, Zenon DEF LiveAs
  <2>2. b[x].renewed_at.wall_clock \in Nat
    BY <2>1, Zenon DEF Lease, HLC
  <2>3. QED BY <1>1, <2>2 DEF LiveAs, is_expired, lease_expiry_ms
<1>2. QED BY <1>1, Zenon DEF OneLive

\* Where a key has one live name, the look-up finds it (name_owned_by).
LEMMA LookUpFinds ==
  ASSUME NEW b, NEW c, NEW t, NEW x \in Name, Name \subseteq Nat,
         OneLive(b, c, t), name_owned_by(b, c, t) \subseteq {x}
  PROVE  \A w \in Name : LiveAs(b[w], c, t) => w = x
<1> SUFFICES ASSUME NEW w \in Name, LiveAs(b[w], c, t)
             PROVE  w = x
  BY Zenon
<1>1. w \in LiveNames(b, c, t) /\ \A y \in LiveNames(b, c, t) : y = w
  BY Zenon DEF LiveNames, LiveAs, OneLive
<1>2. w <= w
  OBVIOUS
<1>3. w \in name_owned_by(b, c, t)
  BY <1>1, <1>2, Zenon DEF name_owned_by
<1>4. QED BY <1>3, Zenon

\* The lease e of x is applied to the book of n.
Applies(n, x, e) == names' = [names EXCEPT ![n] = apply_leased_name(names[n], x, e)]

\* Then one name of one book may be replaced.
LEMMA BookAfter ==
  ASSUME TypeInv, NEW n \in Node, NEW x \in Name, NEW e \in Lease, Applies(n, x, e)
  PROVE  /\ names' \in [Node -> [Name -> Lease \cup {None}]]
         /\ names'[n][x] = merge_leased_name(names[n][x], e)
         /\ names'[n][x] \in {names[n][x], e}
         /\ \A k \in Node, y \in Name : k # n \/ y # x => names'[k][y] = names[k][y]
<1> DEFINE v == merge_leased_name(names[n][x], e)
<1>1. names \in [Node -> [Name -> Lease \cup {None}]]
  BY Zenon DEF TypeInv, TypeOK
<1>2. v \in {names[n][x], e}
  BY MergeOneOf, Zenon
<1>3. names' = [names EXCEPT ![n] = [names[n] EXCEPT ![x] = v]]
  BY Zenon DEF Applies, apply_leased_name
<1> HIDE DEF v
<1>4. v \in Lease \cup {None}
  BY <1>1, <1>2
<1>5. /\ names' \in [Node -> [Name -> Lease \cup {None}]] /\ names'[n][x] = v
      /\ \A k \in Node, y \in Name : k # n \/ y # x => names'[k][y] = names[k][y]
  BY <1>1, <1>3, <1>4, Zenon
<1>6. QED BY <1>2, <1>5, Zenon DEF v

-----------------------------------------------------------------------------
(* The actions.                                                            *)

\* A lease applied to the book of n, posted there by a key with no other live
\* name in it, or come from elsewhere.
LEMMA ApplyKeeps ==
  ASSUME IInv, NEW n \in Node, NEW x \in Name, NEW e \in Lease,
         Applies(n, x, e), saved' = saved, clock' = clock,
         Desk[e.owner] = {n} /\ n \notin Jumpy =>
           \A w \in Name : LiveAs(names[n][w], e.owner, clock[n]) => w = x
  PROVE  names' \in [Node -> [Name -> Lease \cup {None}]] /\ OneInv'
<1>1. /\ names' \in [Node -> [Name -> Lease \cup {None}]]
      /\ names'[n][x] \in {names[n][x], e}
      /\ \A k \in Node, y \in Name : k # n \/ y # x => names'[k][y] = names[k][y]
  BY BookAfter, Zenon DEF IInv
<1>3. \A k \in Node, y \in Name :
        names'[k][y] = names[k][y] \/ (k = n /\ y = x /\ names'[k][y] = e)
  BY <1>1, Zenon
<1>6. ASSUME NEW c \in Client, NEW k \in Node \ Jumpy, Desk[c] = {k}
      PROVE  OneLive(names'[k], c, clock[k]) /\ OneLive(saved[k], c, clock[k])
  <2>1. OneLive(names[k], c, clock[k]) /\ OneLive(saved[k], c, clock[k])
    BY <1>6, Zenon DEF IInv, OneInv
  <2>2. ASSUME NEW y \in Name, NEW z \in Name,
               LiveAs(names'[k][y], c, clock[k]), LiveAs(names'[k][z], c, clock[k])
        PROVE  y = z
    <3>1. CASE names'[k][y] = names[k][y] /\ names'[k][z] = names[k][z]
      BY <2>1, <2>2, <3>1, Zenon DEF OneLive
    <3>2. CASE k = n /\ names'[n][x] = e /\ (y = x \/ z = x) /\ e.owner = c
      <4>1. \A w \in Name : LiveAs(names[n][w], c, clock[n]) => w = x
        BY <1>6, <3>2, Zenon
      <4>2. \A w \in Name : LiveAs(names'[n][w], c, clock[n]) => w = x
        BY <1>1, <4>1, Zenon
      <4>3. QED BY <2>2, <3>2, <4>2, Zenon
    <3>3. names'[k][y] # names[k][y] \/ names'[k][z] # names[k][z] =>
            k = n /\ names'[n][x] = e /\ (y = x \/ z = x) /\ e.owner = c
      BY <1>3, <2>2, Zenon DEF LiveAs
    <3>4. QED BY <3>1, <3>2, <3>3, Zenon
  <2>3. QED BY <2>1, <2>2, Zenon DEF OneLive
<1>7. OneInv'
  BY <1>6, Zenon DEF OneInv
<1>8. QED BY <1>1, <1>7, Zenon

\* The lease a claim makes (Tenure).
LEMMA ClaimLease ==
  ASSUME IInv, NEW n \in Node, NEW c \in Client, NEW x \in Name, NEW e,
         e = NewLease(n, c, x)
  PROVE  /\ e \in Lease /\ e.owner = c /\ e.renewed_at.node_id = n
         /\ names[n][x] # None /\ names[n][x].owner # c =>
              e.first_claimed_at.wall_clock = clock[n]
<1>1. clock[n] \in Nat /\ names[n][x] \in Lease \cup {None}
  BY DEF IInv, TypeInv, TypeOK
<1>2. /\ now_hlc(n, clock[n]) \in HLC /\ now_hlc(n, clock[n]).wall_clock = clock[n]
      /\ now_hlc(n, clock[n]).node_id = n
  BY <1>1, Zenon DEF now_hlc, HLC
<1>3. names[n][x] # None => names[n][x].first_claimed_at \in HLC
  BY <1>1, Zenon DEF Lease
<1>4. Tenure(n, c, x) \in HLC
  BY <1>2, <1>3, Zenon DEF Tenure
<1>5. names[n][x] # None /\ names[n][x].owner # c => Tenure(n, c, x) = now_hlc(n, clock[n])
  BY Zenon DEF Tenure
<1>6. QED BY <1>2, <1>4, <1>5, Zenon DEF NewLease, Lease

\* A claim posted to n (ingest_name_claim_spool).
LEMMA ClaimKeeps ==
  ASSUME Params, IInv, NEW n \in Node, NEW c \in Client, NEW x \in Name, Claim(n, c, x)
  PROVE  IInv'
<1> DEFINE e == NewLease(n, c, x)
<1>1. /\ n \in Desk[c] /\ MayClaim(n, c, x)
      /\ Applies(n, x, e)
      /\ \/ /\ Publish(n, [name |-> x, entry |-> e])
            /\ dirty' = [dirty EXCEPT ![n] = n \in Fragile]
         \/ inbox' = inbox /\ dirty' = dirty
      /\ clock' = clock /\ saved' = saved
  BY Zenon DEF Claim, Applies
<1>2. e \in Lease /\ e.owner = c /\ e.renewed_at.node_id = n
  BY ClaimLease
<1> HIDE DEF e
<1>4. names' \in [Node -> [Name -> Lease \cup {None}]] /\ OneInv'
  <2>1. ASSUME Desk[c] = {n}, n \notin Jumpy
        PROVE  \A w \in Name : LiveAs(names[n][w], c, clock[n]) => w = x
    <3>1. OneLive(names[n], c, clock[n])
      BY <2>1, Zenon DEF IInv, OneInv
    <3>2. name_owned_by(names[n], c, clock[n]) \subseteq {x}
      BY <1>1, Zenon DEF MayClaim
    <3>3. QED BY <3>1, <3>2, LookUpFinds, Zenon DEF Params
  <2>2. QED BY <1>1, <1>2, <2>1, ApplyKeeps, Zenon
<1> DEFINE m == [name |-> x, entry |-> e]
<1>5. m \in [name : Name, entry : Lease] /\ m.entry = e
  BY <1>2, Zenon
<1> HIDE DEF m
<1>6. /\ inbox' \in [Node -> SUBSET [name : Name, entry : Lease]]
      /\ \A k \in Node : inbox'[k] \subseteq inbox[k] \cup (IF k = n THEN {} ELSE {m})
  <2>1. inbox \in [Node -> SUBSET [name : Name, entry : Lease]]
    BY Zenon DEF IInv, TypeInv, TypeOK
  <2>2. CASE Publish(n, m)
    <3>1. PICK reached \in SUBSET (Node \ {n}) :
            inbox' = [k \in Node |-> IF k \in reached THEN inbox[k] \cup {m} ELSE inbox[k]]
      BY <2>2, Zenon DEF Publish
    <3>2. QED BY <1>5, <2>1, <3>1, Zenon
  <2>3. CASE inbox' = inbox
    BY <2>1, <2>3, Zenon
  <2>4. QED BY <1>1, <2>2, <2>3, Zenon DEF m
<1>7. dirty' \in [Node -> BOOLEAN]
  <2>1. dirty \in [Node -> BOOLEAN]
    BY Zenon DEF IInv, TypeInv, TypeOK
  <2>2. CASE dirty' = [dirty EXCEPT ![n] = n \in Fragile]
    BY <2>1, <2>2
  <2>3. QED BY <1>1, <2>1, <2>2, Zenon
<1>8. TypeInv'
  BY <1>1, <1>4, <1>6, <1>7, Zenon DEF IInv, TypeInv, TypeOK
<1>10. ForeignInv'
  BY <1>1, <1>2, <1>5, <1>6, Zenon DEF IInv, ForeignInv
<1>11. QED BY <1>4, <1>8, <1>10, Zenon DEF IInv

\* A lease received (the dispatch loop): never one of a key that posts here only.
LEMMA DeliverKeeps ==
  ASSUME IInv, NEW n \in Node, NEW m \in inbox[n], Deliver(n, m)
  PROVE  IInv'
<1>1. /\ inbox' = [inbox EXCEPT ![n] = @ \ {m}]
      /\ Applies(n, m.name, m.entry)
      /\ dirty' = [dirty EXCEPT ![n] = n \in Fragile]
      /\ clock' = clock /\ saved' = saved
  BY Zenon DEF Deliver, Applies
<1>2. m.name \in Name /\ m.entry \in Lease
  BY DEF IInv, TypeInv, TypeOK
<1>3. /\ m.entry.renewed_at.node_id # n
      /\ m.entry.renewed_at.node_id \in Desk[m.entry.owner]
  BY Zenon DEF IInv, ForeignInv
<1>4. Desk[m.entry.owner] # {n}
  BY <1>3, Zenon
<1>5. names' \in [Node -> [Name -> Lease \cup {None}]] /\ OneInv'
  BY <1>1, <1>2, <1>4, ApplyKeeps, Zenon
<1>6. /\ inbox' \in [Node -> SUBSET [name : Name, entry : Lease]]
      /\ \A k \in Node : inbox'[k] \subseteq inbox[k]
      /\ dirty' \in [Node -> BOOLEAN]
  BY <1>1 DEF IInv, TypeInv, TypeOK
<1>7. TypeInv'
  BY <1>1, <1>5, <1>6, Zenon DEF IInv, TypeInv, TypeOK
<1>8. ForeignInv'
  BY <1>6, Zenon DEF IInv, ForeignInv
<1>9. QED BY <1>5, <1>7, <1>8, Zenon DEF IInv

\* The file takes over the book (persist_leased_names), or the book the file or
\* nothing (load_leased_names).
LEMMA FilesKeep ==
  ASSUME IInv, NEW n \in Node, persist_leased_names(n) \/ load_leased_names(n)
  PROVE  IInv'
<1>1. /\ names \in [Node -> [Name -> Lease \cup {None}]]
      /\ saved \in [Node -> [Name -> Lease \cup {None}]]
      /\ dirty \in [Node -> BOOLEAN]
      /\ inbox \in [Node -> SUBSET [name : Name, entry : Lease]]
  BY Zenon DEF IInv, TypeInv, TypeOK
<1>2. CASE persist_leased_names(n)
  <2>1. /\ dirty' = [dirty EXCEPT ![n] = FALSE] /\ saved' = [saved EXCEPT ![n] = names[n]]
        /\ clock' = clock /\ names' = names /\ inbox' = inbox
    BY <1>2, Zenon DEF persist_leased_names
  <2>2. /\ dirty' \in [Node -> BOOLEAN]
        /\ saved' \in [Node -> [Name -> Lease \cup {None}]]
        /\ saved'[n] = names[n] /\ \A k \in Node : k # n => saved'[k] = saved[k]
    BY <1>1, <2>1, Zenon
  <2>3. TypeInv'
    BY <2>1, <2>2, Zenon DEF IInv, TypeInv, TypeOK
  <2>4. ForeignInv' /\ OneInv'
    BY <2>1, <2>2, Zenon DEF IInv, ForeignInv, OneInv
  <2>5. QED BY <2>3, <2>4, Zenon DEF IInv
<1>3. CASE load_leased_names(n)
  <2>1. PICK b \in {saved[n], NoNames} : names' = [names EXCEPT ![n] = b]
    BY <1>3, Zenon DEF load_leased_names
  <2>2. /\ dirty' = [dirty EXCEPT ![n] = FALSE] /\ inbox' = [inbox EXCEPT ![n] = {}]
        /\ clock' = clock /\ saved' = saved
    BY <1>3, Zenon DEF load_leased_names
  <2>3. b \in [Name -> Lease \cup {None}] /\ (b = saved[n] \/ \A x \in Name : b[x] = None)
    BY <1>1, <2>1, Zenon DEF NoNames
  <2>4. /\ dirty' \in [Node -> BOOLEAN]
        /\ names' \in [Node -> [Name -> Lease \cup {None}]]
        /\ names'[n] = b /\ \A k \in Node : k # n => names'[k] = names[k]
        /\ inbox' \in [Node -> SUBSET [name : Name, entry : Lease]]
        /\ \A k \in Node : inbox'[k] \subseteq inbox[k]
    BY <1>1, <2>1, <2>2, <2>3, Zenon
  <2>5. TypeInv'
    BY <2>2, <2>4, Zenon DEF IInv, TypeInv, TypeOK
  <2>6. ForeignInv'
    BY <2>4, Zenon DEF IInv, ForeignInv
  <2>7. \A c, t : OneLive(saved[n], c, t) => OneLive(b, c, t)
    BY <2>3, Zenon DEF OneLive, LiveAs
  <2>8. OneInv'
    BY <2>2, <2>4, <2>7, Zenon DEF IInv, OneInv
  <2>9. QED BY <2>5, <2>6, <2>8, Zenon DEF IInv
<1>4. QED BY <1>2, <1>3, Zenon

\* Time goes by (Wait): leases run out, and none becomes live unless the clock
\* is set back.
LEMMA WaitKeeps ==
  ASSUME Params, IInv, NEW n \in Node, NEW t \in 0..MaxTime, Wait(n, t)
  PROVE  IInv'
<1>1. /\ t > clock[n] \/ n \in Jumpy
      /\ clock' = [clock EXCEPT ![n] = t]
      /\ names' = names /\ saved' = saved /\ dirty' = dirty /\ inbox' = inbox
  BY Zenon DEF Wait
<1>2. clock \in [Node -> 0..MaxTime]
  BY Zenon DEF IInv, TypeInv, TypeOK
<1>3. /\ clock' \in [Node -> 0..MaxTime] /\ clock'[n] = t
      /\ \A k \in Node : k # n => clock'[k] = clock[k]
  BY <1>1, <1>2, Zenon
<1>4. \A k \in Node \ Jumpy : clock[k] \in Nat /\ clock'[k] \in Nat /\ clock[k] <= clock'[k]
  BY <1>1, <1>2, <1>3 DEF Params
<1>5. /\ names \in [Node -> [Name -> Lease \cup {None}]]
      /\ saved \in [Node -> [Name -> Lease \cup {None}]]
  BY Zenon DEF IInv, TypeInv, TypeOK
<1>6. TypeInv'
  BY <1>1, <1>3, Zenon DEF IInv, TypeInv, TypeOK
<1>7. OneInv'
  <2>1. ASSUME NEW c \in Client, NEW k \in Node \ Jumpy, Desk[c] = {k}
        PROVE  OneLive(names[k], c, clock'[k]) /\ OneLive(saved[k], c, clock'[k])
    <3>1. OneLive(names[k], c, clock[k]) /\ OneLive(saved[k], c, clock[k])
      BY <2>1, Zenon DEF IInv, OneInv
    <3>2. names[k] \in [Name -> Lease \cup {None}] /\ saved[k] \in [Name -> Lease \cup {None}]
      BY <1>5, Zenon
    <3>3. QED BY <1>4, <3>1, <3>2, StaysExpired, Zenon DEF Params
  <2>2. QED BY <1>1, <2>1, Zenon DEF OneInv
<1>8. ForeignInv'
  BY <1>1, Zenon DEF IInv, ForeignInv
<1>9. QED BY <1>6, <1>7, <1>8, Zenon DEF IInv

-----------------------------------------------------------------------------
(* The theorems.                                                           *)

\* The invariant holds at first...
LEMMA LeaseInit ==
  ASSUME Params, Init
  PROVE  IInv
<1>1. TypeInv
  BY DEF Init, NoNames, TypeInv, TypeOK, Params
<1>2. /\ \A n \in Node, x \in Name : names[n][x] = None /\ saved[n][x] = None
      /\ \A n \in Node : inbox[n] = {}
  BY Zenon DEF Init, NoNames
<1>3. ForeignInv /\ OneInv
  BY <1>2, Zenon DEF ForeignInv, OneInv, OneLive, LiveAs
<1>4. QED BY <1>1, <1>3, Zenon DEF IInv

\* ... and every step keeps it.
LEMMA LeaseStep ==
  ASSUME Params, IInv, [Next]_vars
  PROVE  IInv'
<1>1. CASE UNCHANGED vars
  BY <1>1, Zenon DEF vars, IInv, TypeInv, TypeOK, ForeignInv, OneInv
<1>2. CASE \E n \in Node, t \in 0..MaxTime : Wait(n, t)
  BY <1>2, WaitKeeps, Zenon
<1>3. CASE \E n \in Node, c \in Client, x \in Name : Claim(n, c, x)
  BY <1>3, ClaimKeeps, Zenon
<1>4. CASE \E n \in Node : \E m \in inbox[n] : Deliver(n, m)
  BY <1>4, DeliverKeeps, Zenon
<1>5. CASE \E n \in Node : persist_leased_names(n) \/ load_leased_names(n)
  BY <1>5, FilesKeep, Zenon
<1>6. QED BY <1>1, <1>2, <1>3, <1>4, <1>5, Zenon DEF Next

LEMMA LeaseTypes == IInv => TypeOK
BY Zenon DEF IInv, TypeInv

\* What it says of the names of a key.
LEMMA OneNameNow ==
  ASSUME Params, IInv
  PROVE  OneNamePerKey
<1> SUFFICES ASSUME NEW c \in Client, NEW n \in Desk[c] \ Jumpy, Cardinality(Desk[c]) = 1
             PROVE  Cardinality(LiveNames(names[n], c, clock[n])) <= 1
  BY Zenon DEF OneNamePerKey
<1> DEFINE S == LiveNames(names[n], c, clock[n])
<1>1. Desk[c] = {n} /\ n \in Node
  <2>1. Desk[c] \in SUBSET Node
    BY Zenon DEF Params
  <2>2. IsFiniteSet(Desk[c])
    BY <2>1, FS_Subset, Zenon DEF Params
  <2>3. PICK k : Desk[c] = {k}
    BY <2>2, FS_Singleton, Zenon
  <2>4. QED BY <2>1, <2>3, Zenon
<1>2. OneLive(names[n], c, clock[n])
  BY <1>1, Zenon DEF IInv, OneInv
<1>3. \A x, y \in S : x = y
  BY <1>2, Zenon DEF OneLive, LiveAs, LiveNames
<1> HIDE DEF S
<1>4. CASE S = {}
  BY <1>4, FS_EmptySet DEF S
<1>5. CASE S # {}
  <2>1. PICK x : x \in S
    BY <1>5, Zenon
  <2>2. S = {x}
    BY <1>3, <2>1, Zenon
  <2>3. Cardinality(S) = 1
    BY <2>2, FS_Singleton, Zenon
  <2>4. QED BY <2>3 DEF S
<1>6. QED BY <1>4, <1>5, Zenon

\* What it says of a step.
LEMMA TakesStep ==
  ASSUME Params, IInv, [Next]_vars
  PROVE  TakesLapsed
<1> DEFINE Goal(n, x) == \/ is_expired(names[n][x], clock[n])
                         \/ names[n][x].first_claimed_at.wall_clock >= clock[n]
<1> SUFFICES ASSUME NEW n \in Node, NEW x \in Name,
                    inbox'[n] = inbox[n], dirty'[n] = (n \in Fragile),
                    names[n][x] # None, names'[n][x] # None,
                    names[n][x].owner # names'[n][x].owner
             PROVE  Goal(n, x)
  BY Zenon DEF TakesLapsed
<1> HIDE DEF Goal
<1>1. names'[n][x] # names[n][x]
  BY Zenon
<1>2. TypeInv /\ clock[n] \in Nat /\ names[n][x] \in Lease
  BY DEF IInv, TypeInv, TypeOK
<1>3. ASSUME NEW k \in Node, NEW c \in Client, NEW y \in Name, Claim(k, c, y)
      PROVE  Goal(n, x)
  <2> DEFINE e == NewLease(k, c, y)
  <2>1. Applies(k, y, e)
    BY <1>3, Zenon DEF Claim, Applies
  <2>2. /\ e \in Lease /\ e.owner = c
        /\ names[k][y] # None /\ names[k][y].owner # c =>
             e.first_claimed_at.wall_clock = clock[k]
    BY ClaimLease
  <2> HIDE DEF e
  <2>3. e \in Lease
    BY <2>2, Zenon
  <2>4. /\ names'[k][y] = merge_leased_name(names[k][y], e)
        /\ names'[k][y] \in {names[k][y], e}
        /\ \A j \in Node, z \in Name : j # k \/ z # y => names'[j][z] = names[j][z]
    BY <1>2, <2>1, <2>3, BookAfter, Zenon
  <2>5. k = n /\ y = x /\ names'[n][x] = e
    BY <1>1, <2>4, Zenon
  <2>6. e.first_claimed_at.wall_clock = clock[n]
    BY <2>2, <2>5, Zenon
  <2>7. QED BY <1>2, <2>2, <2>4, <2>5, <2>6, TakesOver, Zenon DEF Params, Goal
<1>4. ASSUME NEW k \in Node, NEW m \in inbox[k], Deliver(k, m)
      PROVE  FALSE
  <2>1. Applies(k, m.name, m.entry) /\ inbox' = [inbox EXCEPT ![k] = @ \ {m}]
    BY <1>4, Zenon DEF Deliver, Applies
  <2>2. names' = [names EXCEPT ![k] = apply_leased_name(names[k], m.name, m.entry)]
    BY <2>1, Zenon DEF Applies
  <2>3. k = n
    BY <1>1, <2>2, Zenon DEF IInv, TypeInv, TypeOK
  <2>4. m \notin inbox'[n]
    BY <2>1, <2>3 DEF IInv, TypeInv, TypeOK
  <2>5. QED BY <2>3, <2>4, Zenon
<1>5. ASSUME NEW k \in Node, load_leased_names(k)
      PROVE  FALSE
  <2>1. PICK b : names' = [names EXCEPT ![k] = b]
    BY <1>5, Zenon DEF load_leased_names
  <2>2. k = n
    BY <1>1, <2>1, Zenon DEF IInv, TypeInv, TypeOK
  <2>3. n \in Fragile /\ dirty' = [dirty EXCEPT ![n] = FALSE]
    BY <1>5, <2>2, Zenon DEF load_leased_names
  <2>4. dirty'[n] = FALSE
    BY <2>3, Zenon DEF IInv, TypeInv, TypeOK
  <2>5. QED BY <2>3, <2>4, Zenon
<1>6. CASE names' = names
  BY <1>1, <1>6, Zenon
<1>7. QED BY <1>3, <1>4, <1>5, <1>6, Zenon DEF Next, Wait, persist_leased_names, vars

\* The invariant holds in every reachable state.
THEOREM LeasesInvariance ==
  ASSUME Params
  PROVE  Spec => []IInv
<1>1. IInv /\ [Next]_vars => IInv'
  BY LeaseStep, Zenon
<1>2. QED BY LeaseInit, <1>1, PTL DEF Spec

\* A key that posts its claims to one node, whose clock is not set back, never
\* has two live names in that node's book (ingest_name_claim_spool,
\* name_owned_by).
THEOREM OneNameEach ==
  ASSUME Params
  PROVE  Spec => []OneNamePerKey
<1>1. IInv => OneNamePerKey
  BY OneNameNow, Zenon
<1>2. QED BY LeasesInvariance, <1>1, PTL

\* A claim takes a name from another key only when that key's lease has run out
\* by the clock of the node, or was first claimed at a reading that clock has
\* not passed (cross_owner_winner), however far the clocks are apart.
THEOREM TakesLapsedOnly ==
  ASSUME Params
  PROVE  Spec => TakesOnlyLapsed
<1>1. IInv /\ [Next]_vars => TakesLapsed
  BY TakesStep, Zenon
<1>2. QED BY LeasesInvariance, <1>1, PTL DEF Spec, TakesOnlyLapsed
=============================================================================
