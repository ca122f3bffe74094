---------------------------- MODULE SubnetProofs ----------------------------
(***************************************************************************)
(* Proofs about the subnet lane, for every number of nodes and subnets and *)
(* every value of the bounds.                                              *)
(*                                                                         *)
(* The merge: seniority is a total order, the merge keeps the senior       *)
(* claim, and so replicas that received the same claims agree.             *)
(*                                                                         *)
(* The claim manager: a daemon's addresses stay backed by its claims.  The *)
(* inductive invariant is NodeInv for every node: AddressBacked and        *)
(* GatewayBacked together with ManagerInv, which says that the manager's   *)
(* locals are still good when it resumes after an await.                   *)
(*                                                                         *)
(* The backhaul address: what a node binds is backed by its claim too.     *)
(***************************************************************************)
EXTENDS SubnetClaims, SubnetConvergence, TLAPS

-----------------------------------------------------------------------------
(* The merge alone.                                                        *)

\* Stamps are totally ordered (Ord for HLC): one of two different stamps is
\* the lower, never both, and lower-than is transitive.
LEMMA HlcOrder ==
  ASSUME NEW a \in HLC, NEW b \in HLC, NEW c \in HLC
  PROVE  /\ HlcLess(a, b) \/ a = b \/ HlcLess(b, a)
         /\ ~ (HlcLess(a, b) /\ HlcLess(b, a))
         /\ ~ HlcLess(a, a)
         /\ HlcLess(a, b) /\ HlcLess(b, c) => HlcLess(a, c)
<1>1. ASSUME NEW x \in HLC
      PROVE  x.wall_clock \in Nat /\ x.counter \in Nat /\ x.node_id \in Nat
  BY NodeAssumption, Zenon DEF HLC
<1>2. a.wall_clock = b.wall_clock /\ a.counter = b.counter /\ a.node_id = b.node_id
        => a = b
  BY DEF HLC
<1>3. HlcLess(a, b) \/ a = b \/ HlcLess(b, a)
  BY <1>1, <1>2 DEF HlcLess
<1>4. ~ (HlcLess(a, b) /\ HlcLess(b, a)) /\ ~ HlcLess(a, a)
  BY <1>1 DEF HlcLess
<1>5. HlcLess(a, b) /\ HlcLess(b, c) => HlcLess(a, c)
  BY <1>1 DEF HlcLess
<1>6. QED BY <1>3, <1>4, <1>5, Zenon

\* Seniority of claims is a total order: the verdict of
\* resolve_subnet_conflict does not depend on who asks.
LEMMA BeatsOrder ==
  ASSUME NEW a \in Claim, NEW b \in Claim, NEW c \in Claim
  PROVE  /\ Beats(a, a)
         /\ Beats(a, b) \/ Beats(b, a)
         /\ Beats(a, b) /\ Beats(b, a) => a = b
         /\ Beats(a, b) /\ Beats(b, c) => Beats(a, c)
<1>1. /\ a.claimed_at \in HLC /\ b.claimed_at \in HLC /\ c.claimed_at \in HLC
      /\ a.owner \in Nat /\ b.owner \in Nat /\ c.owner \in Nat
  BY NodeAssumption, Zenon DEF Claim
<1>2. Beats(a, a)
  BY <1>1 DEF Beats
<1>3. Beats(a, b) \/ Beats(b, a)
  BY <1>1, HlcOrder DEF Beats
<1>4. ASSUME Beats(a, b), Beats(b, a) PROVE a = b
  <2>1. a.claimed_at = b.claimed_at /\ a.owner = b.owner
    BY <1>1, <1>4, HlcOrder DEF Beats
  <2>2. QED BY <2>1 DEF Claim
<1>5. Beats(a, b) /\ Beats(b, c) => Beats(a, c)
  <2>1. HlcLess(a.claimed_at, b.claimed_at) /\ HlcLess(b.claimed_at, c.claimed_at)
          => HlcLess(a.claimed_at, c.claimed_at)
    BY <1>1, HlcOrder, Zenon
  <2>2. QED BY <1>1, <2>1 DEF Beats
<1>6. QED BY <1>2, <1>3, <1>4, <1>5, Zenon

\* What the merge leaves in the store beats both claims it was given, and is
\* one of them; two claims of one owner must not be told apart for that.
LEMMA MergedIsSenior ==
  ASSUME NEW local \in Claim, NEW incoming \in Claim,
         local.owner = incoming.owner => local = incoming
  PROVE  /\ Merged(local, incoming) \in {local, incoming}
         /\ Beats(Merged(local, incoming), local)
         /\ Beats(Merged(local, incoming), incoming)
<1>1. local # None
  BY NoneAssumption, Zenon
<1>2. CASE local.owner = incoming.owner
  <2>1. local = incoming BY <1>2, Zenon
  <2>2. Merged(local, incoming) = incoming
    BY <1>1, <1>2, <2>1, Zenon DEF Merged, merge_subnet_claim
  <2>3. QED BY <2>1, <2>2, BeatsOrder, Zenon
<1>3. CASE local.owner # incoming.owner
  <2>1. Merged(local, incoming) = resolve_subnet_conflict(local, incoming).winner
    BY <1>1, <1>3, Zenon DEF Merged, merge_subnet_claim
  <2>2. Merged(local, incoming) = IF Beats(local, incoming) THEN local ELSE incoming
    BY <2>1, Zenon DEF resolve_subnet_conflict, Beats
  <2>3. QED BY <2>2, BeatsOrder, Zenon
<1>4. QED BY <1>2, <1>3, Zenon

\* The merge of a claim into an empty entry takes the claim.
LEMMA MergedIntoNone ==
  ASSUME NEW incoming PROVE Merged(None, incoming) = incoming
  BY Zenon DEF Merged, merge_subnet_claim

\* The claims on a subnet after one more update message.
LEMMA ClaimsForUpdate ==
  ASSUME NEW ms, NEW m, m.type = "update", NEW s
  PROVE  ClaimsFor(s, ms \cup {m}) =
           IF m.slot = s THEN ClaimsFor(s, ms) \cup {m.entry} ELSE ClaimsFor(s, ms)
  BY Zenon DEF ClaimsFor

\* ReplicasTypeOK and SeniorHeld together are inductive when no owner claims a subnet
\* twice and nothing is released.
LEMMA SeniorStep ==
  ASSUME SingleClaims, ReplicasTypeOK, SeniorHeld,
         NEW r \in Replica, NEW m \in Ops, Receive(r, m)
  PROVE  ReplicasTypeOK' /\ SeniorHeld'
<1>1. m \in UpdateMsg /\ m.type = "update" /\ m.slot \in Slot /\ m.entry \in Claim
  BY Zenon DEF SingleClaims, UpdateMsg
<1>2. copy' = [copy EXCEPT ![r] = [copy[r] EXCEPT ![m.slot] =
                 Merged(copy[r][m.slot], m.entry)]]
  BY <1>1, Zenon DEF Receive, ApplySubnet, ReplicasTypeOK, Store
<1>3. seen' = [seen EXCEPT ![r] = seen[r] \cup {m}]
  BY Zenon DEF Receive, ReplicasTypeOK
<1>4. \A s \in Slot : ClaimsFor(s, seen[r]) \subseteq Claim
  BY DEF ClaimsFor, ReplicasTypeOK, SingleClaims, UpdateMsg
<1>5. ASSUME copy[r][m.slot] # None
      PROVE  /\ copy[r][m.slot] \in Claim
             /\ copy[r][m.slot].owner = m.entry.owner => copy[r][m.slot] = m.entry
  <2>1. copy[r][m.slot] \in ClaimsFor(m.slot, seen[r])
    BY <1>1, <1>5, Zenon DEF SeniorHeld
  <2>2. PICK x \in seen[r] : x.type = "update" /\ x.slot = m.slot
                             /\ x.entry = copy[r][m.slot]
    BY <2>1, Zenon DEF ClaimsFor
  <2>3. x \in Ops BY <2>2, Zenon DEF ReplicasTypeOK
  <2>4. x.entry.owner = m.entry.owner => x = m
    BY <2>2, <2>3, Zenon DEF SingleClaims
  <2>5. QED BY <1>1, <1>4, <2>1, <2>2, <2>4, Zenon
<1>6. /\ Merged(copy[r][m.slot], m.entry) \in {copy[r][m.slot], m.entry} \cap Claim
      /\ copy[r][m.slot] # None => Beats(Merged(copy[r][m.slot], m.entry), copy[r][m.slot])
      /\ Beats(Merged(copy[r][m.slot], m.entry), m.entry)
  <2>1. CASE copy[r][m.slot] = None
    BY <1>1, <2>1, MergedIntoNone, BeatsOrder, Zenon
  <2>2. CASE copy[r][m.slot] # None
    BY <1>1, <1>5, <2>2, MergedIsSenior, Zenon
  <2>3. QED BY <2>1, <2>2, Zenon
<1>7. ReplicasTypeOK'
  BY <1>1, <1>2, <1>3, <1>6, Zenon DEF ReplicasTypeOK, Store
<1>8. ASSUME NEW q \in Replica, NEW s \in Slot
      PROVE  LET claims == ClaimsFor(s, seen'[q]) IN
             \/ copy'[q][s] = None /\ claims = {}
             \/ copy'[q][s] \in claims /\ \A c \in claims : Beats(copy'[q][s], c)
  <2>1. CASE q # r \/ s # m.slot
    <3>1. copy'[q][s] = copy[q][s]
      BY <1>1, <1>2, <2>1, Zenon DEF ReplicasTypeOK, Store
    <3>2. ClaimsFor(s, seen'[q]) = ClaimsFor(s, seen[q])
      <4>1. CASE q # r
        BY <1>3, <4>1, Zenon DEF ReplicasTypeOK
      <4>2. CASE q = r
        <5>1. seen'[q] = seen[q] \cup {m}
          BY <1>3, <4>2, Zenon DEF ReplicasTypeOK
        <5>2. m.slot # s
          BY <2>1, <4>2, Zenon
        <5>3. ClaimsFor(s, seen[q] \cup {m}) = ClaimsFor(s, seen[q])
          BY <5>2, Zenon DEF ClaimsFor
        <5>4. QED BY <5>1, <5>3, Zenon
      <4>3. QED BY <4>1, <4>2, Zenon
    <3>3. QED BY <3>1, <3>2, Zenon DEF SeniorHeld
  <2>2. CASE q = r /\ s = m.slot
    <3> DEFINE new == Merged(copy[r][s], m.entry)
    <3>1. copy'[q][s] = new
      BY <1>1, <1>2, <2>2, Zenon DEF ReplicasTypeOK, Store
    <3>2. ClaimsFor(s, seen'[q]) = ClaimsFor(s, seen[r]) \cup {m.entry}
      BY <1>1, <1>3, <2>2, ClaimsForUpdate, Zenon DEF ReplicasTypeOK
    <3>3. new \in ClaimsFor(s, seen'[q])
      <4>1. CASE copy[r][s] = None
        BY <4>1, <3>2, MergedIntoNone, Zenon
      <4>2. CASE copy[r][s] # None
        BY <4>2, <3>2, <1>6, <2>2, Zenon DEF SeniorHeld
      <4>3. QED BY <4>1, <4>2, Zenon
    <3>4. ASSUME NEW c \in ClaimsFor(s, seen'[q]) PROVE Beats(new, c)
      <4>1. CASE c = m.entry
        BY <4>1, <1>6, <2>2, Zenon
      <4>2. CASE c \in ClaimsFor(s, seen[r])
        <5>1. copy[r][s] \in Claim /\ Beats(copy[r][s], c)
          BY <4>2, <1>4, Zenon DEF SeniorHeld
        <5>2. Beats(new, copy[r][s]) /\ new \in Claim
          BY <5>1, <1>6, <2>2, NoneAssumption, Zenon
        <5>3. QED BY <5>1, <5>2, <4>2, <1>4, BeatsOrder, Zenon
      <4>3. QED BY <4>1, <4>2, <3>2, Zenon
    <3>5. QED BY <3>1, <3>3, <3>4, Zenon
  <2>3. QED BY <2>1, <2>2, Zenon
<1>9. QED BY <1>7, <1>8, Zenon DEF SeniorHeld

\* What a replica holds is the senior claim of those it received.
THEOREM SeniorHeldHolds ==
  ASSUME SingleClaims PROVE ReplicasSpec => [](ReplicasTypeOK /\ SeniorHeld)
<1>1. ReplicasInit => ReplicasTypeOK /\ SeniorHeld
  BY DEF ReplicasInit, ReplicasTypeOK, SeniorHeld, Store, EmptyStore, ClaimsFor
<1>2. ReplicasTypeOK /\ SeniorHeld /\ [ReplicasNext]_replicaVars => (ReplicasTypeOK /\ SeniorHeld)'
  <2>1. SUFFICES ASSUME ReplicasTypeOK, SeniorHeld, [ReplicasNext]_replicaVars
                 PROVE  (ReplicasTypeOK /\ SeniorHeld)'
    BY Zenon
  <2>2. CASE ReplicasNext
    BY <2>1, <2>2, SeniorStep, Zenon DEF ReplicasNext
  <2>3. CASE UNCHANGED replicaVars
    BY <2>1, <2>3, Zenon DEF replicaVars, ReplicasTypeOK, SeniorHeld
  <2>4. QED BY <2>1, <2>2, <2>3, Zenon
<1>3. QED BY <1>1, <1>2, PTL DEF ReplicasSpec

\* Replicas that received the same claims agree on every subnet.
LEMMA SeniorHeldConverges ==
  ASSUME SingleClaims, ReplicasTypeOK, SeniorHeld PROVE Converged
<1>1. SUFFICES ASSUME NEW r \in Replica, NEW q \in Replica, seen[r] = seen[q]
               PROVE  copy[r] = copy[q]
  BY Zenon DEF Converged
<1>2. ASSUME NEW s \in Slot PROVE copy[r][s] = copy[q][s]
  <2> DEFINE claims == ClaimsFor(s, seen[r])
  <2>1. claims \subseteq Claim
    BY DEF ClaimsFor, ReplicasTypeOK, SingleClaims, UpdateMsg
  <2>2. /\ \/ copy[r][s] = None /\ claims = {}
           \/ copy[r][s] \in claims /\ \A c \in claims : Beats(copy[r][s], c)
        /\ \/ copy[q][s] = None /\ claims = {}
           \/ copy[q][s] \in claims /\ \A c \in claims : Beats(copy[q][s], c)
    BY <1>1, Zenon DEF SeniorHeld
  <2>3. QED BY <2>1, <2>2, BeatsOrder, Zenon
<1>3. copy[r] \in Store /\ copy[q] \in Store
  BY Zenon DEF ReplicasTypeOK
<1>4. QED BY <1>2, <1>3 DEF Store

\* Convergence of the subnet lane, for any number of nodes, subnets and
\* claims: with one claim per owner and subnet and no release, replicas that
\* received the same messages hold the same map, whatever the order.
THEOREM Convergence ==
  ASSUME SingleClaims PROVE ReplicasSpec => []Converged
<1>1. ReplicasTypeOK /\ SeniorHeld => Converged
  BY SeniorHeldConverges, Zenon
<1>2. QED BY <1>1, SeniorHeldHolds, PTL

-----------------------------------------------------------------------------
(* Values of the operators.                                                *)

\* A stamp the daemon produces is a stamp, and a claim made of it a claim.
LEMMA StampType ==
  ASSUME NEW n \in Node, NEW w \in Nat
  PROVE  now_hlc(n, w) \in HLC /\ FreshClaim(n, w) \in Claim
  BY Zenon DEF now_hlc, HLC, FreshClaim, Claim

\* Every message of the lane is about a subnet.
LEMMA MsgSlot == \A m \in Msg : m.slot \in Slot
  BY Zenon DEF Msg, UpdateMsg, ReleaseMsg

\* Merging a claim into an entry leaves the entry or the claim.
LEMMA MergedType ==
  ASSUME NEW local \in Claim \cup {None}, NEW incoming \in Claim
  PROVE  /\ Merged(local, incoming) \in Claim
         /\ Merged(local, incoming) \in {local, incoming}
  BY Zenon DEF Merged, merge_subnet_claim, resolve_subnet_conflict

\* Applying a message of the subnet lane gives a store again, and touches the
\* one subnet the message is about.
LEMMA ApplyType ==
  ASSUME NEW st \in Store, NEW m \in Msg
  PROVE  /\ ApplySubnet(st, m) \in Store
         /\ \A s \in Slot : s # m.slot => ApplySubnet(st, m)[s] = st[s]
<1>1. m.slot \in Slot
  BY MsgSlot, Zenon
<1>2. CASE m.type = "update"
  <2>1. m.entry \in Claim
    BY <1>2, Zenon DEF Msg, UpdateMsg, ReleaseMsg
  <2>2. st[m.slot] \in Claim \cup {None}
    BY <1>1, Zenon DEF Store
  <2>3. Merged(st[m.slot], m.entry) \in Claim
    BY <2>1, <2>2, MergedType, Zenon
  <2>4. ApplySubnet(st, m) = [st EXCEPT ![m.slot] = Merged(st[m.slot], m.entry)]
    BY <1>2, <1>1, Zenon DEF ApplySubnet, Store
  <2>5. QED BY <1>1, <2>3, <2>4, Zenon DEF Store
<1>3. CASE m.type # "update"
  BY <1>1, <1>3, Zenon DEF ApplySubnet, Store
<1>4. QED BY <1>2, <1>3, Zenon

\* The one way an update message takes an own claim away is a lost conflict,
\* which apply_subnet_message reports.
LEMMA UpdateLoses ==
  ASSUME NEW n \in Node, NEW st \in Store, NEW m \in Msg, m.type = "update",
         st[m.slot] # None, st[m.slot].owner = n,
         ~ (ApplySubnet(st, m)[m.slot] # None /\ ApplySubnet(st, m)[m.slot].owner = n)
  PROVE  WeLost(st, m, n)
<1>1. m.slot \in Slot /\ m.entry \in Claim
  BY Zenon DEF Msg, UpdateMsg, ReleaseMsg
<1>2. st[m.slot] \in Claim
  BY <1>1, Zenon DEF Store
<1>3. ApplySubnet(st, m)[m.slot] = Merged(st[m.slot], m.entry)
  BY <1>1, Zenon DEF ApplySubnet, Store
<1>4. Merged(st[m.slot], m.entry) \in Claim
      /\ Merged(st[m.slot], m.entry) \in {st[m.slot], m.entry}
  BY <1>1, <1>2, MergedType, Zenon
<1>5. Merged(st[m.slot], m.entry).owner # n
  BY <1>3, <1>4, NoneAssumption, Zenon
<1>6. st[m.slot].owner # m.entry.owner
  BY <1>4, <1>5, Zenon
<1>7. QED
  BY <1>5, <1>6, Zenon DEF WeLost, Merged, merge_subnet_claim, resolve_subnet_conflict

\* Taking the head off a channel leaves everything else on it.
LEMMA QueuedTail ==
  ASSUME NEW q \in Seq(Slot), q # <<>>, NEW a, a # Head(q),
         \E i \in 1..Len(q) : q[i] = a
  PROVE  \E i \in 1..Len(Tail(q)) : Tail(q)[i] = a
<1>1. PICK i \in 1..Len(q) : q[i] = a
  BY Zenon
<1>2. i # 1
  BY <1>1
<1>3. i - 1 \in 1..Len(Tail(q)) /\ Tail(q)[i - 1] = a
  BY <1>1, <1>2
<1>4. QED BY <1>3, Zenon

\* Appending to a channel keeps what is on it and adds the new element.
LEMMA QueuedAppend ==
  ASSUME NEW q \in Seq(Slot), NEW s \in Slot
  PROVE  /\ \E i \in 1..Len(Append(q, s)) : Append(q, s)[i] = s
         /\ \A a : (\E i \in 1..Len(q) : q[i] = a)
                 => (\E i \in 1..Len(Append(q, s)) : Append(q, s)[i] = a)
<1>1. Len(Append(q, s)) = Len(q) + 1 /\ Append(q, s)[Len(q) + 1] = s
  OBVIOUS
<1>2. \A i \in 1..Len(q) : i \in 1..Len(Append(q, s)) /\ Append(q, s)[i] = q[i]
  OBVIOUS
<1>3. QED BY <1>1, <1>2

\* A broadcast puts messages of the lane on their way.
LEMMA BroadcastType ==
  ASSUME NEW n \in Node, NEW ms \in SUBSET Msg, inbox \in [Node -> SUBSET Msg],
         Broadcast(n, ms)
  PROVE  inbox' \in [Node -> SUBSET Msg]
<1>1. PICK got \in [Node \ {n} -> SUBSET ms] :
        inbox' = [k \in Node |-> IF k = n THEN inbox[k] ELSE inbox[k] \cup got[k]]
  BY Zenon DEF Broadcast
<1>2. ASSUME NEW k \in Node, k # n PROVE got[k] \subseteq Msg
  BY <1>1, <1>2, Zenon
<1>3. QED BY <1>1, <1>2, Zenon
-----------------------------------------------------------------------------
(* Type correctness.                                                       *)

\* Every step of the manager keeps the variables in their types.
LEMMA ManagerType ==
  ASSUME TypeOK, ManagerInv, NEW n \in Node, Manager(n)
  PROVE  TypeOK'
<1> USE SlotAssumption, NoneAssumption DEF TypeOK, PcValues
<1>1. CASE PartitionClaims(n)
  <2>1. \A s \in Slot : store[n][s] \in Claim \cup {None}
    BY DEF Store
  <2>2. CASE OwnSlots(store[n], n) = {} /\ pc' = [pc EXCEPT ![n] = "pick"]
             /\ avoid' = [avoid EXCEPT ![n] = ForeignSlots(store[n], n)]
             /\ UNCHANGED <<target, claim, extras>>
    <3>1. ForeignSlots(store[n], n) \subseteq Slot BY Zenon DEF ForeignSlots
    <3>2. QED BY <1>1, <2>2, <3>1, Zenon DEF PartitionClaims, hostVars
  <2>3. ASSUME NEW keep \in Slot,
               IsSenior(store[n], OwnSlots(store[n], n), keep),
               target' = [target EXCEPT ![n] = keep],
               claim' = [claim EXCEPT ![n] = store[n][keep]],
               extras' = [extras EXCEPT ![n] = ExtraSlots(OwnSlots(store[n], n), keep)],
               pc' = [pc EXCEPT ![n] = IF OwnSlots(store[n], n) = {keep}
                                       THEN "publish" ELSE "release"],
               UNCHANGED avoid
        PROVE  TypeOK'
    <3>1. OwnSlots(store[n], n) \subseteq Slot BY Zenon DEF OwnSlots
    <3>2. QED BY <1>1, <2>1, <2>3, <3>1, Zenon DEF PartitionClaims, ExtraSlots, hostVars
  <2>4. QED BY <1>1, <2>2, <2>3, Zenon DEF PartitionClaims
<1>2. CASE ReleaseDrop(n)
  <2>1. PICK s \in extras[n] : /\ dropping' = [dropping EXCEPT ![n] = s]
                               /\ extras' = [extras EXCEPT ![n] = @ \ {s}]
                               /\ store' = [store EXCEPT ![n][s] = None]
    BY <1>2, Zenon DEF ReleaseDrop
  <2>2. s \in Slot BY <2>1, Zenon
  <2>3. store' \in [Node -> Store]
    BY <2>1, <2>2, Zenon DEF Store
  <2>4. QED BY <1>2, <2>1, <2>2, <2>3, Zenon DEF ReleaseDrop, hostVars
<1>3. CASE ReleasePublish(n)
  <2>1. PICK w \in wall[n]..MaxWall[n] :
          /\ wall' = [wall EXCEPT ![n] = w]
          /\ Broadcast(n, {Release(dropping[n], now_hlc(n, w))})
    BY <1>3, Zenon DEF ReleasePublish
  <2>2. w \in Nat /\ w \in 1..MaxWall[n]
    BY <2>1, BoundAssumption
  <2>3. Release(dropping[n], now_hlc(n, w)) \in Msg
    BY <1>3, <2>2, StampType, Zenon DEF ReleasePublish, ManagerInv, Msg, ReleaseMsg, Release
  <2>4. inbox' \in [Node -> SUBSET Msg]
    BY <2>1, <2>3, BroadcastType, Zenon
  <2>5. QED BY <1>3, <2>1, <2>2, <2>4, Zenon DEF ReleasePublish, hostVars
<1>4. CASE ReleaseRetract(n)
  <2>1. dropping[n] \in Slot
    BY <1>4, Zenon DEF ReleaseRetract, ManagerInv
  <2>2. addrs' \in [Node -> SUBSET Slot]
    <3>1. [addrs EXCEPT ![n] = Retracted(n, dropping[n])] \in [Node -> SUBSET Slot]
      BY Zenon DEF Retracted
    <3>2. QED BY <1>4, <3>1, Zenon DEF ReleaseRetract
  <2>3. adrift' \in [Node -> SUBSET Slot]
    <3>1. [adrift EXCEPT ![n] = @ \cup {dropping[n]}] \in [Node -> SUBSET Slot]
      BY <2>1, Zenon
    <3>2. QED BY <1>4, <3>1, Zenon DEF ReleaseRetract
  <2>4. QED BY <1>4, <2>2, <2>3, Zenon DEF ReleaseRetract
<1>5. CASE PickAndInsert(n)
  <2>1. PICK s \in Slot, w \in wall[n]..MaxWall[n] :
          /\ wall' = [wall EXCEPT ![n] = w]
          /\ store' = [store EXCEPT ![n][s] = FreshClaim(n, w)]
          /\ target' = [target EXCEPT ![n] = s]
          /\ claim' = [claim EXCEPT ![n] = FreshClaim(n, w)]
    BY <1>5, Zenon DEF PickAndInsert
  <2>2. w \in Nat /\ w \in 1..MaxWall[n]
    BY <2>1, BoundAssumption
  <2>3. FreshClaim(n, w) \in Claim
    BY <2>2, StampType, Zenon
  <2>4. store' \in [Node -> Store]
    BY <2>1, <2>3, Zenon DEF Store
  <2>5. QED BY <1>5, <2>1, <2>2, <2>3, <2>4 DEF PickAndInsert, hostVars
<1>6. CASE PickNothing(n)
  BY <1>6, Zenon DEF PickNothing, hostVars
<1>7. CASE PublishClaim(n)
  <2>1. Update(target[n], claim[n]) \in Msg
    BY <1>7, Zenon DEF PublishClaim, ManagerInv, HasTarget, Msg, UpdateMsg, Update
  <2>2. inbox' \in [Node -> SUBSET Msg]
    BY <1>7, <2>1, BroadcastType, Zenon DEF PublishClaim
  <2>3. QED BY <1>7, <2>2, Zenon DEF PublishClaim, hostVars
<1>8. CASE AssignAddr(n)
  <2>1. target[n] \in Slot
    BY <1>8, Zenon DEF AssignAddr, ManagerInv, HasTarget
  <2>2. /\ Reconciled(n, target[n]).addrs \in SUBSET Slot
        /\ Reconciled(n, target[n]).lan \in Slot \cup {None}
        /\ Assigned(n, target[n]) \in SUBSET Slot
    BY <2>1, Zenon DEF Reconciled, Assigned
  <2>3. addrs' \in [Node -> SUBSET Slot] /\ lan' \in [Node -> Slot \cup {None}]
    <3>1. /\ [addrs EXCEPT ![n] = Reconciled(n, target[n]).addrs]
               \in [Node -> SUBSET Slot]
          /\ [addrs EXCEPT ![n] = Assigned(n, target[n])] \in [Node -> SUBSET Slot]
          /\ [lan EXCEPT ![n] = Reconciled(n, target[n]).lan]
               \in [Node -> Slot \cup {None}]
      BY <2>2, Zenon
    <3>2. QED BY <1>8, <3>1, Zenon DEF AssignAddr
  <2>4. QED BY <1>8, <2>1, <2>3, Zenon DEF AssignAddr
<1>9. CASE HandleLoss(n)
  <2>1. Head(reclaim[n]) \in Slot /\ Tail(reclaim[n]) \in Seq(Slot)
    BY <1>9 DEF HandleLoss
  <2>2. addrs' \in [Node -> SUBSET Slot]
    <3>1. [addrs EXCEPT ![n] = Retracted(n, Head(reclaim[n]))] \in [Node -> SUBSET Slot]
      BY Zenon DEF Retracted
    <3>2. QED BY <1>9, <3>1, Zenon DEF HandleLoss
  <2>3. adrift' \in [Node -> SUBSET Slot]
    <3>1. [adrift EXCEPT ![n] = @ \cup {Head(reclaim[n])}] \in [Node -> SUBSET Slot]
      BY <2>1, Zenon
    <3>2. QED BY <1>9, <3>1, Zenon DEF HandleLoss
  <2>4. reclaim' \in [Node -> Seq(Slot)]
    BY <1>9, <2>1, Zenon DEF HandleLoss
  <2>5. QED BY <1>9, <2>2, <2>3, <2>4, Zenon DEF HandleLoss
<1>10. QED
  BY <1>1, <1>2, <1>3, <1>4, <1>5, <1>6, <1>7, <1>8, <1>9, Zenon DEF Manager

\* So does every step of the dispatch loop, the anti-entropy loop and a
\* restart.
LEMMA OtherType ==
  ASSUME TypeOK, NEW n \in Node,
         \/ \E m \in inbox[n] : Deliver(n, m)
         \/ AntiEntropy(n)
         \/ Restart(n)
  PROVE  TypeOK'
<1> USE SlotAssumption, NoneAssumption DEF TypeOK, PcValues
<1>1. ASSUME NEW m \in inbox[n], Deliver(n, m) PROVE TypeOK'
  <2>1. m \in Msg /\ m.slot \in Slot
    BY MsgSlot, Zenon
  <2>2. store' \in [Node -> Store]
    BY <1>1, <2>1, ApplyType, Zenon DEF Deliver
  <2>3. reclaim' \in [Node -> Seq(Slot)]
    <3>1. Append(reclaim[n], m.slot) \in Seq(Slot)
      BY <2>1
    <3>2. QED BY <1>1, <3>1, Zenon DEF Deliver
  <2>4. QED BY <1>1, <2>1, <2>2, <2>3 DEF Deliver, managerVars, hostVars
<1>2. CASE AntiEntropy(n)
  <2>1. {Update(s, store[n][s]) : s \in Held(n)} \in SUBSET Msg
    BY DEF Held, Store, Msg, UpdateMsg, Update
  <2>2. inbox' \in [Node -> SUBSET Msg]
    BY <1>2, <2>1, BroadcastType, Zenon DEF AntiEntropy
  <2>3. QED BY <1>2, <2>2, Zenon DEF AntiEntropy, persist_claims, managerVars, hostVars
<1>3. CASE Restart(n)
  <2>1. store' \in [Node -> Store]
    BY <1>3 DEF Restart, EmptyStore, Store
  <2>2. addrs' \in [Node -> SUBSET Slot]
    <3>1. Rebooted(n) \in SUBSET Slot
      BY Zenon DEF Rebooted
    <3>2. addrs' = addrs \/ addrs' = [addrs EXCEPT ![n] = Rebooted(n)]
      BY <1>3, Zenon DEF Restart
    <3>3. QED BY <3>1, <3>2, Zenon
  <2>3. restarts' \in 0..MaxRestarts
    BY <1>3, BoundAssumption DEF Restart
  <2>4. QED BY <1>3, <2>1, <2>2, <2>3 DEF Restart
<1>4. QED BY <1>1, <1>2, <1>3, Zenon
-----------------------------------------------------------------------------
(* Addresses stay backed.                                                  *)

\* What AddressBacked, GatewayBacked and ManagerInv say of one node.
NodeInv(n) ==
  /\ \A s \in addrs[n] : Backed(n, s)
  /\ gateway[n] # None => Backed(n, gateway[n]) /\ pc[n] = "idle"
  /\ HasTarget(n) => /\ target[n] \in Slot \ extras[n]
                     /\ claim[n] \in Claim
                     /\ Backed(n, target[n])
  /\ pc[n] \in {"unpublish", "retract"} => dropping[n] \in Slot \ {target[n]}
  /\ pc[n] \notin {"release", "unpublish", "retract"} => extras[n] = {}

\* The step leaves alone everything NodeInv(k) reads.
Same(k) ==
  /\ store'[k] = store[k] /\ reclaim'[k] = reclaim[k] /\ adrift'[k] = adrift[k]
  /\ pc'[k] = pc[k] /\ target'[k] = target[k] /\ claim'[k] = claim[k]
  /\ extras'[k] = extras[k] /\ dropping'[k] = dropping[k]
  /\ addrs'[k] = addrs[k] /\ gateway'[k] = gateway[k]

\* What the steps below need of TypeOK.
Shapes ==
  /\ store \in [Node -> Store] /\ pc \in [Node -> PcValues]
  /\ target \in [Node -> Slot \cup {None}]
  /\ claim \in [Node -> Claim \cup {None}]
  /\ extras \in [Node -> SUBSET Slot]
  /\ dropping \in [Node -> Slot \cup {None}]
  /\ addrs \in [Node -> SUBSET Slot]
  /\ gateway \in [Node -> Slot \cup {None}]
  /\ adrift \in [Node -> SUBSET Slot]

\* A node nothing happened to keeps its part of the invariant.
LEMMA Frame ==
  ASSUME NEW k \in Node, NodeInv(k), Same(k)
  PROVE  NodeInv(k)'
<1>1. \A s : Backed(k, s) => Backed(k, s)'
  BY Zenon DEF Same, Backed, Accounted, Owns, Queued, BeingDropped
<1>2. QED BY <1>1, Zenon DEF NodeInv, Same, HasTarget

\* A step of one node leaves the others' stores, managers and hosts alone.
LEMMA OtherNodes ==
  ASSUME TypeOK, NEW n \in Node, NEW k \in Node, k # n,
         \/ Manager(n)
         \/ \E m \in inbox[n] : Deliver(n, m)
         \/ AntiEntropy(n)
         \/ Restart(n)
  PROVE  Same(k)
<1>0. Shapes
  BY Zenon DEF TypeOK, Shapes
<1> USE DEF Same
<1>1. CASE PartitionClaims(n)
  <2>1. /\ pc'[k] = pc[k] /\ target'[k] = target[k] /\ claim'[k] = claim[k]
        /\ extras'[k] = extras[k]
    BY <1>0, <1>1, Zenon DEF Shapes, PartitionClaims
  <2>2. QED BY <1>1, <2>1, Zenon DEF PartitionClaims, hostVars
<1>2. CASE ReleaseDrop(n)
  BY <1>2 DEF ReleaseDrop, hostVars
<1>3. CASE ReleasePublish(n)
  BY <1>3 DEF ReleasePublish, hostVars
<1>4. CASE ReleaseRetract(n)
  BY <1>0, <1>4, Zenon DEF Shapes, ReleaseRetract
<1>5. CASE PickAndInsert(n)
  BY <1>5 DEF PickAndInsert, hostVars
<1>6. CASE PickNothing(n)
  BY <1>6 DEF PickNothing, hostVars
<1>7. CASE PublishClaim(n)
  BY <1>7 DEF PublishClaim, hostVars
<1>8. CASE AssignAddr(n)
  BY <1>0, <1>8, Zenon DEF Shapes, AssignAddr
<1>9. CASE HandleLoss(n)
  BY <1>0, <1>9 DEF Shapes, HandleLoss
<1>10. ASSUME NEW m \in inbox[n], Deliver(n, m) PROVE Same(k)
  BY <1>10 DEF Deliver, managerVars, hostVars
<1>11. CASE AntiEntropy(n)
  BY <1>11, Zenon DEF AntiEntropy, managerVars, hostVars
<1>12. CASE Restart(n)
  BY <1>0, <1>12 DEF Shapes, Restart
<1>13. QED
  BY <1>1, <1>2, <1>3, <1>4, <1>5, <1>6, <1>7, <1>8, <1>9, <1>10, <1>11, <1>12, Zenon
     DEF Manager

\* The claim manager keeps its node's addresses backed.
LEMMA ManagerStep ==
  ASSUME TypeOK, NEW n \in Node, NodeInv(n), Manager(n)
  PROVE  NodeInv(n)'
<1>0. Shapes
  BY Zenon DEF TypeOK, Shapes
<1>1. CASE PartitionClaims(n)
  <2>1. /\ pc[n] = "claim" /\ pc'[n] \in {"pick", "publish", "release"}
        /\ store' = store /\ reclaim' = reclaim /\ adrift' = adrift
        /\ addrs' = addrs /\ gateway' = gateway
    BY <1>0, <1>1, Zenon DEF Shapes, PartitionClaims, hostVars
  <2>2. \A s : Backed(n, s) => Backed(n, s)'
    BY <2>1, Zenon DEF Backed, Accounted, Owns, Queued, BeingDropped
  <2>3. HasTarget(n)' =>
          /\ target'[n] \in Slot /\ target'[n] \notin extras'[n]
          /\ Owns(n, target'[n]) /\ claim'[n] = store[n][target'[n]]
    <3>1. SUFFICES ASSUME pc'[n] # "pick"
                   PROVE  /\ target'[n] \in Slot /\ target'[n] \notin extras'[n]
                          /\ Owns(n, target'[n])
                          /\ claim'[n] = store[n][target'[n]]
      BY Zenon DEF HasTarget
    <3>2. PICK keep \in Slot :
            /\ IsSenior(store[n], OwnSlots(store[n], n), keep)
            /\ target' = [target EXCEPT ![n] = keep]
            /\ claim' = [claim EXCEPT ![n] = store[n][keep]]
            /\ extras' = [extras EXCEPT ![n] = ExtraSlots(OwnSlots(store[n], n), keep)]
      BY <1>0, <1>1, <3>1, Zenon DEF Shapes, PartitionClaims
    <3>3. QED BY <1>0, <3>2, Zenon DEF Shapes, IsSenior, OwnSlots, ExtraSlots, Owns
  <2>4. HasTarget(n)' => claim'[n] \in Claim
    BY <1>0, <2>3 DEF Shapes, Store, Owns
  <2>5. HasTarget(n)' => Backed(n, target[n])'
    BY <2>1, <2>3, Zenon DEF Backed, Accounted, Owns
  <2>6. pc'[n] # "release" => extras'[n] = {}
    <3>1. CASE pc' = [pc EXCEPT ![n] = "pick"] /\ UNCHANGED extras
      BY <2>1, <3>1, Zenon DEF NodeInv
    <3>2. ASSUME NEW keep \in Slot,
                 extras' = [extras EXCEPT ![n] = ExtraSlots(OwnSlots(store[n], n), keep)],
                 pc' = [pc EXCEPT ![n] = IF OwnSlots(store[n], n) = {keep}
                                         THEN "publish" ELSE "release"]
          PROVE  pc'[n] # "release" => extras'[n] = {}
      BY <1>0, <3>2, Zenon DEF Shapes, ExtraSlots
    <3>3. \/ pc' = [pc EXCEPT ![n] = "pick"] /\ UNCHANGED extras
          \/ \E keep \in Slot :
               /\ extras' = [extras EXCEPT ![n] = ExtraSlots(OwnSlots(store[n], n), keep)]
               /\ pc' = [pc EXCEPT ![n] = IF OwnSlots(store[n], n) = {keep}
                                          THEN "publish" ELSE "release"]
      BY <1>1, Zenon DEF PartitionClaims
    <3>4. QED BY <3>1, <3>2, <3>3, Zenon
  <2>7. QED BY <2>1, <2>2, <2>3, <2>4, <2>5, <2>6, Zenon DEF NodeInv
<1>2. CASE ReleaseDrop(n)
  <2>1. PICK s \in extras[n] : /\ dropping' = [dropping EXCEPT ![n] = s]
                               /\ extras' = [extras EXCEPT ![n] = @ \ {s}]
                               /\ store' = [store EXCEPT ![n][s] = None]
    BY <1>2, Zenon DEF ReleaseDrop
  <2>2. /\ pc[n] = "release" /\ pc'[n] = "unpublish" /\ s \in Slot
        /\ reclaim' = reclaim /\ adrift' = adrift /\ target' = target
        /\ claim' = claim /\ addrs' = addrs /\ gateway' = gateway
    BY <1>0, <1>2, <2>1, Zenon DEF Shapes, ReleaseDrop, hostVars
  <2>3. target[n] \in Slot /\ target[n] \notin extras[n] /\ claim[n] \in Claim
        /\ Backed(n, target[n]) /\ gateway[n] = None
    BY <2>2, Zenon DEF NodeInv, HasTarget
  <2>4. ASSUME NEW a \in Slot, Backed(n, a) PROVE Backed(n, a)'
    <3>1. CASE a = s
      BY <1>0, <2>1, <2>2, <3>1, Zenon DEF Shapes, Backed, Accounted, BeingDropped
    <3>2. CASE a # s
      <4>1. store'[n][a] = store[n][a]
        BY <2>1, <2>2, <3>2 DEF Store
      <4>2. QED BY <2>2, <2>4, <4>1, Zenon DEF Backed, Accounted, Owns, Queued, BeingDropped
    <3>3. QED BY <3>1, <3>2, Zenon
  <2>5. QED BY <1>0, <2>1, <2>2, <2>3, <2>4, Zenon DEF Shapes, NodeInv, HasTarget
<1>3. CASE ReleasePublish(n)
  <2>1. /\ pc[n] = "unpublish" /\ pc'[n] = "retract"
        /\ store' = store /\ reclaim' = reclaim /\ adrift' = adrift
        /\ target' = target /\ claim' = claim /\ extras' = extras
        /\ dropping' = dropping /\ addrs' = addrs /\ gateway' = gateway
    BY <1>0, <1>3, Zenon DEF Shapes, ReleasePublish, hostVars
  <2>2. \A s : Backed(n, s) => Backed(n, s)'
    BY <2>1, Zenon DEF Backed, Accounted, Owns, Queued, BeingDropped
  <2>3. QED BY <2>1, <2>2, Zenon DEF NodeInv, HasTarget
<1>4. CASE ReleaseRetract(n)
  <2>1. /\ pc[n] = "retract" /\ pc'[n] \in {"publish", "release"}
        /\ store' = store /\ reclaim' = reclaim /\ target' = target
        /\ claim' = claim /\ extras' = extras /\ gateway' = gateway
    BY <1>0, <1>4, Zenon DEF Shapes, ReleaseRetract
  <2>2. /\ addrs'[n] \subseteq addrs[n] /\ adrift[n] \subseteq adrift'[n]
        /\ dropping[n] \in addrs'[n] => dropping[n] \in adrift'[n]
    <3>1. CASE addrs' = [addrs EXCEPT ![n] = Retracted(n, dropping[n])] /\ adrift' = adrift
      BY <1>0, <3>1, Zenon DEF Shapes, Retracted
    <3>2. CASE adrift' = [adrift EXCEPT ![n] = @ \cup {dropping[n]}] /\ addrs' = addrs
      BY <1>0, <3>2, Zenon DEF Shapes
    <3>3. QED BY <1>4, <3>1, <3>2, Zenon DEF ReleaseRetract
  <2>3. /\ target[n] \in Slot \ extras[n] /\ target[n] # dropping[n]
        /\ claim[n] \in Claim /\ Backed(n, target[n]) /\ gateway[n] = None
    BY <2>1, Zenon DEF NodeInv, HasTarget
  <2>4. ASSUME NEW a, a # dropping[n] \/ a \in addrs'[n], Backed(n, a)
        PROVE  Backed(n, a)'
    BY <2>1, <2>2, <2>4, Zenon DEF Backed, Accounted, Owns, Queued, BeingDropped
  <2>5. pc'[n] # "release" => extras'[n] = {}
    BY <1>0, <1>4, Zenon DEF Shapes, ReleaseRetract
  <2>6. QED BY <2>1, <2>2, <2>3, <2>4, <2>5, Zenon DEF NodeInv, HasTarget
<1>5. CASE PickAndInsert(n)
  <2>1. PICK s \in Slot, w \in wall[n]..MaxWall[n] :
          /\ store' = [store EXCEPT ![n][s] = FreshClaim(n, w)]
          /\ target' = [target EXCEPT ![n] = s]
          /\ claim' = [claim EXCEPT ![n] = FreshClaim(n, w)]
    BY <1>5, Zenon DEF PickAndInsert
  <2>2. FreshClaim(n, w) \in Claim /\ FreshClaim(n, w).owner = n
    <3>1. wall[n] \in Nat /\ MaxWall[n] \in Nat
      BY BoundAssumption, Zenon DEF TypeOK
    <3>2. w \in Nat
      BY <2>1, <3>1
    <3>3. QED BY <3>2, StampType, Zenon DEF FreshClaim
  <2>3. /\ pc[n] = "pick" /\ pc'[n] = "publish"
        /\ reclaim' = reclaim /\ adrift' = adrift /\ extras' = extras
        /\ addrs' = addrs /\ gateway' = gateway
    BY <1>0, <1>5, Zenon DEF Shapes, PickAndInsert, hostVars
  <2>4. extras[n] = {}
    BY <2>3, Zenon DEF NodeInv
  <2>5. Owns(n, s)'
    BY <1>0, <2>1, <2>2, NoneAssumption, Zenon DEF Shapes, Owns, Store
  <2>6. ASSUME NEW a \in Slot, Backed(n, a) PROVE Backed(n, a)'
    <3>1. CASE a = s
      BY <2>5, <3>1, Zenon DEF Backed, Accounted
    <3>2. CASE a # s
      <4>1. store'[n][a] = store[n][a]
        BY <2>1, <3>2 DEF Store
      <4>2. QED BY <2>3, <2>6, <4>1, Zenon DEF Backed, Accounted, Owns, Queued, BeingDropped
    <3>3. QED BY <3>1, <3>2, Zenon
  <2>7. QED BY <1>0, <2>1, <2>2, <2>3, <2>4, <2>5, <2>6, Zenon
            DEF Shapes, NodeInv, HasTarget, Backed, Accounted
<1>6. CASE PickNothing(n)
  <2>1. /\ pc[n] = "pick" /\ pc'[n] = "idle"
        /\ store' = store /\ reclaim' = reclaim /\ adrift' = adrift
        /\ extras' = extras /\ addrs' = addrs /\ gateway' = gateway
    BY <1>0, <1>6, Zenon DEF Shapes, PickNothing, hostVars
  <2>2. \A s : Backed(n, s) => Backed(n, s)'
    BY <2>1, Zenon DEF Backed, Accounted, Owns, Queued, BeingDropped
  <2>3. QED BY <2>1, <2>2, Zenon DEF NodeInv, HasTarget
<1>7. CASE PublishClaim(n)
  <2>1. /\ pc[n] = "publish" /\ pc'[n] = "assign"
        /\ store' = store /\ reclaim' = reclaim /\ adrift' = adrift
        /\ target' = target /\ claim' = claim /\ extras' = extras
        /\ addrs' = addrs /\ gateway' = gateway
    BY <1>0, <1>7, Zenon DEF Shapes, PublishClaim, hostVars
  <2>2. \A s : Backed(n, s) => Backed(n, s)'
    BY <2>1, Zenon DEF Backed, Accounted, Owns, Queued, BeingDropped
  <2>3. QED BY <2>1, <2>2, Zenon DEF NodeInv, HasTarget
<1>8. CASE AssignAddr(n)
  <2>1. /\ pc[n] = "assign" /\ pc'[n] = "idle"
        /\ store' = store /\ reclaim' = reclaim /\ adrift' = adrift
        /\ extras' = extras /\ gateway'[n] = target[n]
    BY <1>0, <1>8, Zenon DEF Shapes, AssignAddr
  <2>2. \A s : Backed(n, s) => Backed(n, s)'
    BY <2>1, Zenon DEF Backed, Accounted, Owns, Queued, BeingDropped
  <2>3. addrs'[n] \subseteq addrs[n] \cup {target[n]}
    <3>1. /\ Reconciled(n, target[n]).addrs \subseteq addrs[n] \cup {target[n]}
          /\ Assigned(n, target[n]) = addrs[n] \cup {target[n]}
      BY Zenon DEF Reconciled, Assigned
    <3>2. QED BY <1>0, <1>8, <3>1, Zenon DEF Shapes, AssignAddr
  <2>4. Backed(n, target[n])
    BY <2>1, Zenon DEF NodeInv, HasTarget
  <2>5. QED BY <2>1, <2>2, <2>3, <2>4, Zenon DEF NodeInv, HasTarget
<1>9. CASE HandleLoss(n)
  <2> DEFINE lost == Head(reclaim[n])
  <2>1. /\ pc[n] = "idle" /\ pc'[n] = "claim" /\ reclaim[n] # <<>>
        /\ store' = store /\ reclaim'[n] = Tail(reclaim[n])
        /\ extras' = extras /\ gateway'[n] = None
    <3>1. reclaim \in [Node -> Seq(Slot)]
      BY Zenon DEF TypeOK
    <3>2. QED BY <1>0, <1>9, <3>1, Zenon DEF Shapes, HandleLoss
  <2>2. /\ addrs'[n] \subseteq addrs[n] /\ adrift[n] \subseteq adrift'[n]
        /\ lost \in addrs'[n] => lost \in adrift'[n]
    <3>1. CASE addrs' = [addrs EXCEPT ![n] = Retracted(n, lost)] /\ adrift' = adrift
      BY <1>0, <3>1, Zenon DEF Shapes, Retracted
    <3>2. CASE adrift' = [adrift EXCEPT ![n] = @ \cup {lost}] /\ addrs' = addrs
      BY <1>0, <3>2, Zenon DEF Shapes
    <3>3. QED BY <1>9, <3>1, <3>2, Zenon DEF HandleLoss
  <2>3. ASSUME NEW a, Queued(n, a), a # lost PROVE Queued(n, a)'
    <3>1. reclaim[n] \in Seq(Slot)
      BY Zenon DEF TypeOK
    <3>2. \E i \in 1..Len(Tail(reclaim[n])) : Tail(reclaim[n])[i] = a
      BY <2>1, <2>3, <3>1, QueuedTail, Zenon DEF Queued
    <3>3. QED BY <2>1, <3>2, Zenon DEF Queued
  <2>4. ASSUME NEW a \in addrs'[n] PROVE Backed(n, a)'
    <3>1. Backed(n, a)
      BY <2>2, <2>4, Zenon DEF NodeInv
    <3>2. CASE a = lost
      BY <2>2, <2>4, <3>2, Zenon DEF Backed
    <3>3. CASE a # lost
      BY <2>1, <2>2, <2>3, <3>1, <3>3, Zenon DEF Backed, Accounted, Owns, BeingDropped
    <3>4. QED BY <3>2, <3>3, Zenon
  <2>5. QED BY <2>1, <2>4, Zenon DEF NodeInv, HasTarget
<1>10. QED
  BY <1>1, <1>2, <1>3, <1>4, <1>5, <1>6, <1>7, <1>8, <1>9, Zenon DEF Manager

\* So does the dispatch loop: a message that costs the node an own claim puts
\* the subnet on the reclaim channel, or it was a release.
LEMMA DeliverStep ==
  ASSUME TypeOK, NEW n \in Node, NodeInv(n), NEW m \in inbox[n], Deliver(n, m)
  PROVE  NodeInv(n)'
<1>0. Shapes
  BY Zenon DEF TypeOK, Shapes
<1>1. m \in Msg /\ m.slot \in Slot
  BY MsgSlot, Zenon DEF TypeOK
<1>2. /\ store'[n] = ApplySubnet(store[n], m)
      /\ pc' = pc /\ target' = target /\ claim' = claim /\ extras' = extras
      /\ dropping' = dropping /\ addrs' = addrs /\ gateway' = gateway
  BY <1>0, Zenon DEF Shapes, Deliver, managerVars, hostVars
<1>3. \A a : Queued(n, a) => Queued(n, a)'
  <2>1. reclaim[n] \in Seq(Slot)
    BY Zenon DEF TypeOK
  <2>2. reclaim'[n] \in {reclaim[n], Append(reclaim[n], m.slot)}
    BY DEF Deliver
  <2>3. ASSUME NEW a, \E i \in 1..Len(reclaim[n]) : reclaim[n][i] = a
        PROVE  \E i \in 1..Len(Append(reclaim[n], m.slot)) :
                 Append(reclaim[n], m.slot)[i] = a
    BY <1>1, <2>1, <2>3, QueuedAppend
  <2>4. QED BY <2>2, <2>3, Zenon DEF Queued
<1>4. adrift[n] \subseteq adrift'[n]
  BY DEF Deliver
<1>5. ASSUME NEW a \in Slot, Owns(n, a), ~ Owns(n, a)'
      PROVE  Queued(n, a)' \/ a \in adrift'[n]
  <2>1. a = m.slot
    BY <1>0, <1>1, <1>2, <1>5, ApplyType DEF Shapes, Owns
  <2>2. CASE m.type = "update"
    <3>1. WeLost(store[n], m, n)
      BY <1>0, <1>1, <1>2, <1>5, <2>1, <2>2, UpdateLoses, Zenon DEF Shapes, Owns
    <3>2. reclaim'[n] = Append(reclaim[n], m.slot)
      <4>1. reclaim \in [Node -> Seq(Slot)]
        BY Zenon DEF TypeOK
      <4>2. QED BY <3>1, <4>1, Zenon DEF Deliver
    <3>3. reclaim[n] \in Seq(Slot)
      BY Zenon DEF TypeOK
    <3>4. \E i \in 1..Len(Append(reclaim[n], m.slot)) :
            Append(reclaim[n], m.slot)[i] = m.slot
      BY <1>1, <3>3, QueuedAppend, Zenon
    <3>5. QED BY <2>1, <3>2, <3>4, Zenon DEF Queued
  <2>3. CASE m.type # "update"
    <3>1. m.type = "release"
      BY <1>1, <2>3, Zenon DEF Msg, UpdateMsg, ReleaseMsg
    <3>2. store'[n][m.slot] \in {None, store[n][m.slot]}
      BY <1>1, <1>2, <2>3 DEF ApplySubnet, Store
    <3>3. store'[n][m.slot] = None
      BY <1>5, <2>1, <3>2, Zenon DEF Owns
    <3>4. adrift'[n] = adrift[n] \cup {m.slot}
      BY <1>0, <1>5, <2>1, <3>1, <3>3, Zenon DEF Shapes, Deliver
    <3>5. QED BY <2>1, <3>4, Zenon
  <2>4. QED BY <2>2, <2>3, Zenon
<1>6. ASSUME NEW a \in Slot, Backed(n, a) PROVE Backed(n, a)'
  BY <1>2, <1>3, <1>4, <1>5, <1>6, Zenon DEF Backed, Accounted, BeingDropped
<1>7. QED
  BY <1>0, <1>2, <1>6, Zenon DEF Shapes, NodeInv, HasTarget

\* An anti-entropy tick changes neither store nor addresses.
LEMMA TickStep ==
  ASSUME TypeOK, NEW n \in Node, NodeInv(n), AntiEntropy(n)
  PROVE  NodeInv(n)'
<1>1. Same(n)
  BY Zenon DEF AntiEntropy, managerVars, hostVars, Same
<1>2. QED BY <1>1, Frame, Zenon

\* After a restart every address the node is left with is claimed in what the
\* claims file gave back, or adrift.
LEMMA RestartStep ==
  ASSUME TypeOK, NEW n \in Node, NodeInv(n), Restart(n)
  PROVE  NodeInv(n)'
<1>0. Shapes
  BY Zenon DEF TypeOK, Shapes
<1>1. pc'[n] = "claim" /\ gateway'[n] = None /\ extras'[n] = {}
  BY <1>0, Zenon DEF Shapes, Restart
<1>2. addrs'[n] \subseteq Slot
  <2>1. Rebooted(n) \subseteq Slot
    BY Zenon DEF TypeOK, Rebooted
  <2>2. QED BY <1>0, <2>1, Zenon DEF Shapes, Restart
<1>3. ASSUME NEW s \in addrs'[n] PROVE Backed(n, s)'
  <2>1. CASE store'[n][s] = None \/ store'[n][s].owner # n
    BY <1>0, <1>2, <1>3, <2>1, Zenon DEF Shapes, Restart, Backed
  <2>2. CASE store'[n][s] # None /\ store'[n][s].owner = n
    BY <2>2, Zenon DEF Backed, Accounted, Owns
  <2>3. QED BY <2>1, <2>2, Zenon
<1>4. QED BY <1>1, <1>3, Zenon DEF NodeInv, HasTarget

-----------------------------------------------------------------------------

\* The inductive invariant.
IInv == TypeOK /\ ManagerInv /\ AddressBacked /\ GatewayBacked

\* The invariant says the same thing of every node.
LEMMA NodeWise ==
  (ManagerInv /\ AddressBacked /\ GatewayBacked) <=> \A n \in Node : NodeInv(n)
  BY Zenon DEF ManagerInv, AddressBacked, GatewayBacked, NodeInv

\* A mesh that starts, with or without claims files, satisfies the invariant.
LEMMA InitInv == Init => IInv
<1> SUFFICES ASSUME Init PROVE IInv
  BY Zenon
<1>1. ASSUME NEW n \in Node PROVE disk[n] \in Store
  <2>1. disk[n] \in Restorable(n)
    BY Zenon DEF Init
  <2>2. \A w \in 0..1 : FreshClaim(n, w) \in Claim
    BY StampType
  <2>3. QED BY <2>1, <2>2 DEF Restorable, Store, EmptyStore
<1>2. TypeOK
  BY <1>1, BoundAssumption DEF Init, TypeOK, PcValues
<1>3. ManagerInv /\ AddressBacked /\ GatewayBacked
  BY Zenon DEF Init, ManagerInv, AddressBacked, GatewayBacked, HasTarget
<1>4. QED BY <1>2, <1>3, Zenon DEF IInv

\* Every step of every daemon keeps it.
LEMMA NextInv == IInv /\ [Next]_vars => IInv'
<1> SUFFICES ASSUME IInv, [Next]_vars PROVE IInv'
  BY Zenon
<1>1. TypeOK /\ ManagerInv /\ \A k \in Node : NodeInv(k)
  BY NodeWise, Zenon DEF IInv
<1>2. CASE Next
  <2>1. PICK n \in Node : \/ Manager(n)
                          \/ \E m \in inbox[n] : Deliver(n, m)
                          \/ AntiEntropy(n)
                          \/ Restart(n)
    BY <1>2, Zenon DEF Next
  <2>2. TypeOK'
    BY <1>1, <2>1, ManagerType, OtherType, Zenon
  <2>3. NodeInv(n)'
    BY <1>1, <2>1, ManagerStep, DeliverStep, TickStep, RestartStep, Zenon
  <2>4. ASSUME NEW k \in Node, k # n PROVE NodeInv(k)'
    <3>1. Same(k)
      BY <1>1, <2>1, <2>4, OtherNodes, Zenon
    <3>2. QED BY <1>1, <3>1, Frame, Zenon
  <2>5. \A k \in Node : NodeInv(k)'
    BY <2>3, <2>4, Zenon
  <2>6. (ManagerInv /\ AddressBacked /\ GatewayBacked)'
    BY <2>5, Zenon DEF ManagerInv, AddressBacked, GatewayBacked, NodeInv
  <2>7. QED BY <2>2, <2>6, Zenon DEF IInv
<1>3. CASE UNCHANGED vars
  BY <1>3, Zenon DEF IInv, TypeOK, ManagerInv, AddressBacked, GatewayBacked, HasTarget,
     Backed, Accounted, Owns, Queued, BeingDropped, vars, managerVars, hostVars
<1>4. QED BY <1>2, <1>3, Zenon

\* The types are kept, and every address a node has up, every answer of its
\* .mesh responder and every subnet its manager is about to assign is backed.
THEOREM Invariance == Spec => []IInv
  BY InitInv, NextInv, PTL DEF Spec

\* The variables keep their types for any number of nodes and subnets.
THEOREM TypeCorrect == Spec => []TypeOK
<1>1. IInv => TypeOK
  BY Zenon DEF IInv
<1>2. QED BY <1>1, Invariance, PTL

\* No node keeps answering on a /24 it lost in a conflict.
THEOREM AddressesBacked == Spec => []AddressBacked
<1>1. IInv => AddressBacked
  BY Zenon DEF IInv
<1>2. QED BY <1>1, Invariance, PTL

\* The .mesh responder never hands out the address of a /24 the node lost.
THEOREM GatewaysBacked == Spec => []GatewayBacked
<1>1. IInv => GatewayBacked
  BY Zenon DEF IInv
<1>2. QED BY <1>1, Invariance, PTL

\* Two settled nodes that agree on the claims do not serve one /24.
LEMMA BackedUnique == AddressBacked => UniqueOnceSettled
<1> SUFFICES ASSUME AddressBacked, NEW n \in Node, NEW k \in Node, n # k,
                    Settled(n), Settled(k), store[n] = store[k],
                    NEW s \in addrs[n] \cap addrs[k]
             PROVE  s \in adrift[n] \cup adrift[k]
  BY Zenon DEF UniqueOnceSettled
<1>1. ASSUME NEW x \in {n, k} PROVE Owns(x, s) \/ s \in adrift[x]
  <2>1. Backed(x, s) /\ pc[x] = "idle" /\ reclaim[x] = <<>>
    BY Zenon DEF AddressBacked, Settled
  <2>2. ~ Queued(x, s)
    BY <2>1 DEF Queued
  <2>3. ~ BeingDropped(x, s)
    BY <2>1, Zenon DEF BeingDropped
  <2>4. QED BY <2>1, <2>2, <2>3, Zenon DEF Backed, Accounted
<1>2. QED BY <1>1 DEF Owns

\* Hence in every behaviour, for any number of nodes and subnets.
THEOREM SubnetsUnique == Spec => []UniqueOnceSettled
  BY AddressesBacked, BackedUnique, PTL

-----------------------------------------------------------------------------
(* First writer wins.                                                      *)

\* Where the merge hands an entry to another owner, the other owner's claim
\* is not the younger one.
LEMMA MergeKeepsFirst ==
  ASSUME NEW local \in Claim, NEW incoming \in Claim,
         Merged(local, incoming).owner # local.owner
  PROVE  ~ HlcLess(local.claimed_at, Merged(local, incoming).claimed_at)
<1>1. Merged(local, incoming) = incoming /\ local.owner # incoming.owner
  BY MergedType, Zenon
<1>2. Merged(local, incoming) = resolve_subnet_conflict(local, incoming).winner
  BY <1>1, NoneAssumption, Zenon DEF Merged, merge_subnet_claim
<1>3. CASE HlcLess(local.claimed_at, incoming.claimed_at)
  BY <1>1, <1>2, <1>3, Zenon DEF resolve_subnet_conflict
<1>4. QED BY <1>1, <1>3, Zenon

\* No step of a running daemon replaces an owner's claim by another owner's
\* younger one, except the manager's pick from a stale snapshot.
LEMMA FirstWriterNext == IInv /\ [Next]_vars => FirstWriterStep
<1> SUFFICES ASSUME IInv, [Next]_vars, NEW n \in Node, NEW s \in Slot,
                    restarts' = restarts,
                    store[n][s] # None, store'[n][s] # None,
                    store'[n][s].owner # store[n][s].owner,
                    ~ (pc[n] = "pick" /\ s \notin avoid[n])
             PROVE  ~ HlcLess(store[n][s].claimed_at, store'[n][s].claimed_at)
  BY Zenon DEF FirstWriterStep
<1>0. Shapes
  BY Zenon DEF TypeOK, Shapes, IInv
<1>1. store' # store
  BY Zenon
<1>2. PICK k \in Node : \/ Manager(k)
                        \/ \E m \in inbox[k] : Deliver(k, m)
                        \/ Restart(k)
  BY <1>1, Zenon DEF Next, AntiEntropy, vars
<1>3. CASE Manager(k)
  <2>1. ReleaseDrop(k) \/ PickAndInsert(k)
    BY <1>1, <1>3, Zenon DEF Manager, PartitionClaims, ReleasePublish, ReleaseRetract,
       PickNothing, PublishClaim, AssignAddr, HandleLoss
  <2>2. CASE ReleaseDrop(k)
    BY <2>2 DEF ReleaseDrop, Store
  <2>3. CASE PickAndInsert(k)
    <3>1. PICK t \in Slot, w \in wall[k]..MaxWall[k] :
            IsPick(k, avoid[k], t) /\ store' = [store EXCEPT ![k][t] = FreshClaim(k, w)]
      BY <2>3, Zenon DEF PickAndInsert
    <3>2. k = n /\ t = s
      BY <3>1 DEF Store
    <3>3. pc[n] = "pick" /\ s \notin avoid[n]
      BY <2>3, <3>1, <3>2, Zenon DEF PickAndInsert, IsPick
    <3>4. QED BY <3>3, Zenon
  <2>4. QED BY <2>1, <2>2, <2>3, Zenon
<1>4. ASSUME NEW m \in inbox[k], Deliver(k, m)
      PROVE  ~ HlcLess(store[n][s].claimed_at, store'[n][s].claimed_at)
  <2>1. store' = [store EXCEPT ![k] = ApplySubnet(store[k], m)]
    BY <1>4, Zenon DEF Deliver
  <2>2. k = n
    BY <2>1
  <2>3. m \in Msg /\ m.slot \in Slot
    BY MsgSlot, Zenon DEF IInv, TypeOK
  <2>4. store'[n] = ApplySubnet(store[n], m) /\ s = m.slot
    BY <1>0, <2>1, <2>2, <2>3, ApplyType DEF Shapes
  <2>5. CASE m.type = "update"
    <3>1. m.entry \in Claim /\ store[n][s] \in Claim
      BY <1>0, <2>3, <2>5 DEF Shapes, Msg, UpdateMsg, ReleaseMsg, Store
    <3>2. store'[n][s] = Merged(store[n][s], m.entry)
      BY <2>3, <2>4, <2>5 DEF ApplySubnet, Store
    <3>3. QED BY <3>1, <3>2, MergeKeepsFirst, Zenon
  <2>6. CASE m.type # "update"
    <3>1. store'[n][s] \in {None, store[n][s]}
      BY <2>3, <2>4, <2>6 DEF ApplySubnet, Store
    <3>2. QED BY <3>1, Zenon
  <2>7. QED BY <2>5, <2>6, Zenon
<1>5. CASE Restart(k)
  <2>1. restarts' = restarts + 1 /\ restarts \in Int
    BY <1>5 DEF Restart
  <2>2. QED BY <2>1
<1>6. QED BY <1>2, <1>3, <1>4, <1>5, Zenon

\* First writer wins, as the stores see it.
THEOREM FirstWriter == Spec => FirstWriterKept
  BY Invariance, FirstWriterNext, PTL DEF Spec, FirstWriterKept

-----------------------------------------------------------------------------
(* The backhaul address.                                                   *)

WF == INSTANCE WellFoundedInduction

\* A set of numbers that is not empty has a least element.
LEMMA Least ==
  ASSUME NEW T \in SUBSET Nat, T # {}
  PROVE  \E x \in T : \A y \in T : x <= y
<1>1. \E x \in T : \A y \in T : <<y, x>> \notin WF!OpToRel(<, Nat)
  BY WF!NatLessThanWellFounded, WF!WFMin, Zenon
<1>2. PICK x \in T : \A y \in T : <<y, x>> \notin WF!OpToRel(<, Nat)
  BY <1>1, Zenon
<1>3. \A y \in T : ~(y < x)
  BY <1>2, Zenon DEF WF!OpToRel
<1>4. QED BY <1>3

CONSTANTS Address, Derive, LastWall, MaxCrashes
VARIABLES proc, addr, crashes, lost

Addrs == INSTANCE Backhaul WITH Slot <- Address, MaxWall <- LastWall

\* What the proof assumes of the constants.
BackhaulParams ==
  /\ Node \subseteq Nat /\ None \notin Addrs!Claim
  /\ Derive \in [Node -> Seq(Address)] /\ \A n \in Node : Derive[n] # <<>>
  /\ LastWall \in Nat \ {0} /\ MaxCrashes \in Nat

\* The inductive invariant.
BackhaulInv == Addrs!TypeOK /\ Addrs!BoundIsOurs

\* The set of stamps that claims in S have has a least one.
LEMMA LeastStamp ==
  ASSUME BackhaulParams, NEW H \in SUBSET Addrs!HLC, H # {}
  PROVE  \E h \in H : \A g \in H : Addrs!HlcLeq(h, g)
<1>1. PICK w \in {h.wall_clock : h \in H} : \A v \in {h.wall_clock : h \in H} : w <= v
  <2>1. {h.wall_clock : h \in H} \in SUBSET Nat /\ {h.wall_clock : h \in H} # {}
    BY Zenon DEF Addrs!HLC
  <2>2. QED BY <2>1, Least, Zenon
<1> DEFINE H1 == {h \in H : h.wall_clock = w}
<1>2. H1 # {} /\ H1 \subseteq Addrs!HLC /\ w \in Nat
  BY <1>1, Zenon DEF Addrs!HLC
<1>3. PICK c \in {h.counter : h \in H1} : \A v \in {h.counter : h \in H1} : c <= v
  <2>1. {h.counter : h \in H1} \in SUBSET Nat /\ {h.counter : h \in H1} # {}
    BY <1>2, Zenon DEF Addrs!HLC
  <2>2. QED BY <2>1, Least, Zenon
<1> DEFINE H2 == {h \in H1 : h.counter = c}
<1>4. H2 # {} /\ H2 \subseteq Addrs!HLC /\ c \in Nat
  BY <1>2, <1>3, Zenon DEF Addrs!HLC
<1>5. PICK i \in {h.node_id : h \in H2} : \A v \in {h.node_id : h \in H2} : i <= v
  <2>1. Node \subseteq Nat
    BY Zenon DEF BackhaulParams
  <2>2. \A h \in H2 : h.node_id \in Node
    BY <1>4, Zenon DEF Addrs!HLC
  <2>3. {h.node_id : h \in H2} \in SUBSET Nat /\ {h.node_id : h \in H2} # {}
    BY <1>4, <2>1, <2>2, Zenon
  <2>4. QED BY <2>3, Least, Zenon
<1>6. PICK h \in H2 : h.node_id = i
  BY <1>5, Zenon
<1>7. ASSUME NEW g \in H PROVE Addrs!HlcLeq(h, g)
  <2>1. /\ g \in Addrs!HLC /\ h \in Addrs!HLC /\ h.wall_clock = w /\ h.counter = c
        /\ w <= g.wall_clock
        /\ g.node_id \in Nat /\ h.node_id \in Nat
    BY <1>1, <1>6, Zenon DEF Addrs!HLC, BackhaulParams
  <2>2. g.wall_clock = w => c <= g.counter
    BY <1>3, Zenon
  <2>3. g.wall_clock = w /\ g.counter = c => h.node_id <= g.node_id
    BY <1>5, <1>6, Zenon
  <2>4. g.wall_clock = w /\ g.counter = c /\ g.node_id = h.node_id => g = h
    BY <2>1 DEF Addrs!HLC
  <2>5. QED BY <2>1, <2>2, <2>3, <2>4 DEF Addrs!HlcLeq, Addrs!HlcLess, Addrs!HLC
<1>8. h \in H
  BY <1>6, Zenon
<1>9. QED BY <1>7, <1>8, Zenon

\* pick_backhaul_addr answers with an address.
LEMMA PickIsAddress ==
  ASSUME BackhaulParams, NEW st \in Addrs!Store, NEW n \in Node
  PROVE  Addrs!pick_backhaul_addr(st, n) \in Address
<1>1. CASE Addrs!Own(st, n) # {}
  <2> DEFINE own == Addrs!Own(st, n)
             H == {st[a].claimed_at : a \in own}
  <2>1. own \subseteq Address /\ \A a \in own : st[a] \in Addrs!Claim
    BY Zenon DEF Addrs!Own, Addrs!Store
  <2>2. H \in SUBSET Addrs!HLC /\ H # {}
    BY <1>1, <2>1, Zenon DEF Addrs!Claim
  <2>3. PICK h \in H : \A g \in H : Addrs!HlcLeq(h, g)
    BY <2>2, LeastStamp, Zenon
  <2>4. \E a \in own : \A b \in own : Addrs!HlcLeq(st[a].claimed_at, st[b].claimed_at)
    BY <2>3, Zenon
  <2>5. Addrs!Senior(st, own) \in own
    BY <2>4, Zenon DEF Addrs!Senior
  <2>6. QED BY <1>1, <2>1, <2>5, Zenon DEF Addrs!pick_backhaul_addr
<1>2. CASE Addrs!Own(st, n) = {}
  <2> DEFINE d == Derive[n]
             free == {i \in DOMAIN d : st[d[i]] = None}
  <2>1. d \in Seq(Address) /\ d # <<>>
    BY Zenon DEF BackhaulParams
  <2>2. 1 \in DOMAIN d /\ DOMAIN d \subseteq Nat /\ \A i \in DOMAIN d : d[i] \in Address
    BY <2>1
  <2>3. free # {} => \E i \in free : \A j \in free : i <= j
    BY <2>2, Least, Zenon
  <2>4. Addrs!FirstFree(st, n) = IF free = {} THEN d[1]
                           ELSE d[CHOOSE i \in free : \A j \in free : i <= j]
    BY Zenon DEF Addrs!FirstFree
  <2> HIDE DEF d
  <2>5. CASE free = {}
    BY <1>2, <2>2, <2>4, <2>5, Zenon DEF Addrs!pick_backhaul_addr
  <2>6. CASE free # {}
    <3>1. (CHOOSE i \in free : \A j \in free : i <= j) \in free
      BY <2>3, <2>6, Zenon
    <3>2. QED BY <1>2, <2>2, <2>4, <2>6, <3>1, Zenon DEF Addrs!pick_backhaul_addr
  <2>7. QED BY <2>5, <2>6, Zenon
<1>3. QED BY <1>1, <1>2, Zenon

\* A message changes the entry of its own subnet only, and takes a claim of
\* node n away only by telling n (WeLost).
LEMMA MergeTypes ==
  ASSUME BackhaulParams, NEW st \in Addrs!Store, NEW m \in Addrs!UpdateMsg
  PROVE  /\ Addrs!ApplySubnet(st, m) \in Addrs!Store
         /\ \A a \in Address : a # m.slot => Addrs!ApplySubnet(st, m)[a] = st[a]
         /\ Addrs!ApplySubnet(st, m)[m.slot] \in {st[m.slot], m.entry}
<1> DEFINE local == st[m.slot]
<1>1. /\ m.type = "update" /\ m.slot \in Address /\ m.entry \in Addrs!Claim
      /\ local \in Addrs!Claim \cup {None}
  BY Zenon DEF Addrs!UpdateMsg, Addrs!Store
<1>2. Addrs!Merged(local, m.entry) \in {local, m.entry}
  <2>1. CASE local = None
    BY <2>1, Zenon DEF Addrs!Merged, Addrs!merge_subnet_claim
  <2>2. CASE local # None /\ local.owner = m.entry.owner
    BY <2>2, Zenon DEF Addrs!Merged, Addrs!merge_subnet_claim
  <2>3. CASE local # None /\ local.owner # m.entry.owner
    BY <2>3, Zenon DEF Addrs!Merged, Addrs!merge_subnet_claim, Addrs!resolve_subnet_conflict
  <2>4. QED BY <2>1, <2>2, <2>3, Zenon
<1>3. Addrs!ApplySubnet(st, m) = [st EXCEPT ![m.slot] = Addrs!Merged(local, m.entry)]
  BY <1>1, Zenon DEF Addrs!ApplySubnet
<1> HIDE DEF local
<1>4. Addrs!Merged(local, m.entry) \in Addrs!Claim \cup {None}
  BY <1>1, <1>2, Zenon
<1>5. QED BY <1>1, <1>2, <1>3, <1>4, Zenon DEF Addrs!Store, local

\* A message that takes an address from node n tells n of it.
LEMMA LossIsTold ==
  ASSUME BackhaulParams, NEW st \in Addrs!Store, NEW m \in Addrs!UpdateMsg, NEW n \in Node,
         NEW a \in Addrs!Own(st, n), a \notin Addrs!Own(Addrs!ApplySubnet(st, m), n)
  PROVE  Addrs!WeLost(st, m, n)
<1> DEFINE local == st[m.slot]
           new == Addrs!ApplySubnet(st, m)
<1>1. /\ m.type = "update" /\ m.slot \in Address /\ m.entry \in Addrs!Claim
      /\ a \in Address /\ st[a] # None /\ st[a].owner = n
  BY Zenon DEF Addrs!UpdateMsg, Addrs!Own
<1>2. a = m.slot /\ new[m.slot] # local /\ new[m.slot] = m.entry
  <2>1. /\ \A b \in Address : b # m.slot => new[b] = st[b]
        /\ new[m.slot] \in {local, m.entry}
    BY MergeTypes, Zenon
  <2>2. new[a] = None \/ new[a].owner # n
    BY <1>1, Zenon DEF Addrs!Own
  <2>3. QED BY <1>1, <2>1, <2>2, Zenon
<1>3. new[m.slot] = Addrs!Merged(local, m.entry)
  BY <1>1, Zenon DEF Addrs!ApplySubnet, Addrs!Store
<1>4. local # None /\ local.owner = n /\ m.entry.owner # n
  <2>1. m.entry # None
    BY <1>1, Zenon DEF BackhaulParams
  <2>2. new[m.slot].owner # n
    BY <1>1, <1>2, <2>1, Zenon DEF Addrs!Own
  <2>3. QED BY <1>1, <1>2, <2>2, Zenon
<1> HIDE DEF new, local
<1>5. Addrs!merge_subnet_claim(local, m.entry) =
        [result |-> "Conflict", winner |-> Addrs!resolve_subnet_conflict(local, m.entry).winner,
         loser |-> Addrs!resolve_subnet_conflict(local, m.entry).loser]
  BY <1>4, Zenon DEF Addrs!merge_subnet_claim
<1>6. Addrs!resolve_subnet_conflict(local, m.entry) =
        [winner |-> m.entry, loser |-> local]
  BY <1>2, <1>3, <1>5 DEF Addrs!Merged, Addrs!resolve_subnet_conflict
<1>7. QED BY <1>1, <1>4, <1>5, <1>6 DEF Addrs!WeLost, local

\* What a broadcast leaves in the inboxes.
LEMMA BroadcastTypes ==
  ASSUME Addrs!TypeOK, NEW n \in Node, NEW ms \in SUBSET Addrs!UpdateMsg, Addrs!Broadcast(n, ms)
  PROVE  inbox' \in [Node -> SUBSET Addrs!UpdateMsg]
<1>1. PICK got \in [Node \ {n} -> SUBSET ms] :
        inbox' = [k \in Node |-> IF k = n THEN inbox[k] ELSE inbox[k] \cup got[k]]
  BY Zenon DEF Addrs!Broadcast
<1>2. QED BY <1>1, Zenon DEF Addrs!TypeOK

\* Where an exit leaves a node: down, its store saved.
LEMMA ExitTypes ==
  ASSUME BackhaulParams, Addrs!TypeOK, NEW n \in Node, NEW a \in Address, NEW st \in Addrs!Store,
         Addrs!ExitCollision(n, a, st)
  PROVE  /\ proc' \in [Node -> {"down", "starting", "up"}] /\ disk' \in [Node -> Addrs!Store]
         /\ lost' \in [Node -> [Address -> 0..2]]
         /\ \A k \in Node : proc'[k] = "up" => k # n /\ proc[k] = "up"
<1>1. /\ disk' = [disk EXCEPT ![n] = st] /\ proc' = [proc EXCEPT ![n] = "down"]
      /\ lost' = [lost EXCEPT ![n][a] = IF @ < 2 THEN @ + 1 ELSE @]
  BY Zenon DEF Addrs!ExitCollision
<1>2. disk' \in [Node -> Addrs!Store]
  BY <1>1, Zenon DEF Addrs!TypeOK
<1>3. proc' \in [Node -> {"down", "starting", "up"}]
      /\ \A k \in Node : proc'[k] = "up" => k # n /\ proc[k] = "up"
  BY <1>1, Zenon DEF Addrs!TypeOK
<1>4. lost' \in [Node -> [Address -> 0..2]]
  <2>1. lost \in [Node -> [Address -> 0..2]]
    BY Zenon DEF Addrs!TypeOK
  <2>2. lost[n][a] \in 0..2
    BY <2>1, Zenon
  <2>3. (IF lost[n][a] < 2 THEN lost[n][a] + 1 ELSE lost[n][a]) \in 0..2
    BY <2>2
  <2>4. QED BY <1>1, <2>1, <2>3, Zenon
<1>5. QED BY <1>2, <1>3, <1>4, Zenon

\* The steps keep the invariant: a claim made at the start...
LEMMA ClaimBackhaul ==
  ASSUME BackhaulParams, BackhaulInv, NEW n \in Node, Addrs!claim_backhaul_and_publish(n)
  PROVE  BackhaulInv'
<1> DEFINE a == addr[n]
<1>1. PICK w \in wall[n]..LastWall :
        LET fresh == [owner |-> n, claimed_at |-> Addrs!now_hlc(n, w)]
            r == Addrs!merge_subnet_claim(store[n][a], fresh)
            entry == IF a \in Addrs!Own(store[n], n) THEN store[n][a] ELSE fresh
        IN /\ wall' = [wall EXCEPT ![n] = w]
           /\ IF r.result = "Conflict" /\ r.winner.owner # n
                THEN /\ Addrs!ExitCollision(n, a, store[n])
                     /\ UNCHANGED <<store, inbox>>
                ELSE /\ store' = [store EXCEPT ![n][a] = entry]
                     /\ Addrs!Broadcast(n, {Addrs!Update(a, entry)})
                     /\ proc' = [proc EXCEPT ![n] = "up"]
                     /\ UNCHANGED <<disk, lost>>
           /\ UNCHANGED <<addr, crashes>>
  BY Zenon DEF Addrs!claim_backhaul_and_publish
<1> DEFINE fresh == [owner |-> n, claimed_at |-> Addrs!now_hlc(n, w)]
           r == Addrs!merge_subnet_claim(store[n][a], fresh)
           entry == IF a \in Addrs!Own(store[n], n) THEN store[n][a] ELSE fresh
<1>2. Addrs!TypeOK /\ Addrs!BoundIsOurs
  BY Zenon DEF BackhaulInv
<1>3. a \in Address /\ store[n] \in Addrs!Store /\ w \in 1..LastWall
  BY <1>2 DEF Addrs!TypeOK, BackhaulParams
<1>4. entry \in Addrs!Claim /\ entry.owner = n
  <2>1. fresh \in Addrs!Claim /\ fresh.owner = n
    BY <1>3 DEF Addrs!Claim, Addrs!HLC, Addrs!now_hlc
  <2>2. a \in Addrs!Own(store[n], n) => store[n][a] \in Addrs!Claim /\ store[n][a].owner = n
    BY <1>3, Zenon DEF Addrs!Own, Addrs!Store
  <2>3. QED BY <2>1, <2>2, Zenon
<1>5. wall' \in [Node -> 1..LastWall] /\ addr' = addr /\ crashes' = crashes
  BY <1>1, <1>2, <1>3, Zenon DEF Addrs!TypeOK
<1> HIDE DEF entry, fresh, a
<1>6. CASE r.result = "Conflict" /\ r.winner.owner # n
  <2>1. Addrs!ExitCollision(n, a, store[n]) /\ UNCHANGED <<store, inbox>>
    BY <1>1, <1>6, Zenon DEF fresh, r
  <2>2. /\ proc' \in [Node -> {"down", "starting", "up"}] /\ disk' \in [Node -> Addrs!Store]
        /\ lost' \in [Node -> [Address -> 0..2]]
        /\ \A k \in Node : proc'[k] = "up" => k # n /\ proc[k] = "up"
    BY <1>2, <1>3, <2>1, ExitTypes, Zenon
  <2>3. Addrs!TypeOK'
    BY <1>2, <1>5, <2>1, <2>2, Zenon DEF Addrs!TypeOK
  <2>4. Addrs!BoundIsOurs'
    BY <1>2, <1>5, <2>1, <2>2, Zenon DEF Addrs!BoundIsOurs, Addrs!Own
  <2>5. QED BY <2>3, <2>4, Zenon DEF BackhaulInv
<1>7. CASE ~(r.result = "Conflict" /\ r.winner.owner # n)
  <2>1. /\ store' = [store EXCEPT ![n][a] = entry]
        /\ Addrs!Broadcast(n, {Addrs!Update(a, entry)})
        /\ proc' = [proc EXCEPT ![n] = "up"]
        /\ UNCHANGED <<disk, lost>>
    BY <1>1, <1>7, Zenon DEF fresh, r, entry
  <2>2. inbox' \in [Node -> SUBSET Addrs!UpdateMsg]
    <3>1. {Addrs!Update(a, entry)} \in SUBSET Addrs!UpdateMsg
      BY <1>3, <1>4 DEF Addrs!Update, Addrs!UpdateMsg
    <3>2. QED BY <1>2, <2>1, <3>1, BroadcastTypes, Zenon
  <2>3. /\ store' \in [Node -> Addrs!Store] /\ store'[n][a] = entry
        /\ \A k \in Node : k # n => store'[k] = store[k]
    BY <1>2, <1>3, <1>4, <2>1, Zenon DEF Addrs!TypeOK, Addrs!Store
  <2>4. /\ proc' \in [Node -> {"down", "starting", "up"}]
        /\ \A k \in Node : k # n => proc'[k] = proc[k]
    BY <1>2, <2>1, Zenon DEF Addrs!TypeOK
  <2>5. Addrs!TypeOK'
    BY <1>2, <1>5, <2>1, <2>2, <2>3, <2>4, Zenon DEF Addrs!TypeOK
  <2>6. ASSUME NEW k \in Node, proc'[k] = "up" PROVE addr'[k] \in Addrs!Own(store'[k], k)
    <3>1. CASE k = n
      BY <1>3, <1>4, <1>5, <2>3, <3>1, Zenon DEF Addrs!Own, a, BackhaulParams
    <3>2. CASE k # n
      BY <1>2, <1>5, <2>3, <2>4, <2>6, <3>2, Zenon DEF Addrs!BoundIsOurs
    <3>3. QED BY <3>1, <3>2, Zenon
  <2>7. QED BY <2>5, <2>6, Zenon DEF BackhaulInv, Addrs!BoundIsOurs, Addrs!Own
<1>8. QED BY <1>6, <1>7, Zenon

\* ... a claim received...
LEMMA DeliverBackhaul ==
  ASSUME BackhaulParams, BackhaulInv, NEW n \in Node, NEW m \in inbox[n], Addrs!Deliver(n, m)
  PROVE  BackhaulInv'
<1> DEFINE st == Addrs!ApplySubnet(store[n], m)
<1>1. /\ inbox' = [inbox EXCEPT ![n] = @ \ {m}]
      /\ store' = [store EXCEPT ![n] = st]
      /\ IF Addrs!WeLost(store[n], m, n) THEN Addrs!ExitCollision(n, m.slot, st)
                                   ELSE UNCHANGED <<disk, proc, lost>>
      /\ UNCHANGED <<addr, wall, crashes>>
  BY Zenon DEF Addrs!Deliver
<1>2. Addrs!TypeOK /\ Addrs!BoundIsOurs
  BY Zenon DEF BackhaulInv
<1>3. m \in Addrs!UpdateMsg /\ m.slot \in Address /\ store[n] \in Addrs!Store
  BY <1>2 DEF Addrs!TypeOK, Addrs!UpdateMsg
<1>4. st \in Addrs!Store
  BY <1>3, MergeTypes, Zenon
<1> HIDE DEF st
<1>5. /\ inbox' \in [Node -> SUBSET Addrs!UpdateMsg] /\ store' \in [Node -> Addrs!Store]
      /\ store'[n] = st /\ \A k \in Node : k # n => store'[k] = store[k]
  BY <1>1, <1>2, <1>4, Zenon DEF Addrs!TypeOK
<1>6. /\ proc' \in [Node -> {"down", "starting", "up"}] /\ disk' \in [Node -> Addrs!Store]
      /\ lost' \in [Node -> [Address -> 0..2]]
      /\ \A k \in Node : proc'[k] = "up" => proc[k] = "up"
      /\ Addrs!WeLost(store[n], m, n) => proc'[n] # "up"
  <2>1. CASE Addrs!WeLost(store[n], m, n)
    <3>1. Addrs!ExitCollision(n, m.slot, st)
      BY <1>1, <2>1, Zenon
    <3>2. QED BY <1>2, <1>3, <1>4, <3>1, ExitTypes, Zenon
  <2>2. CASE ~Addrs!WeLost(store[n], m, n)
    BY <1>1, <1>2, <2>2, Zenon DEF Addrs!TypeOK
  <2>3. QED BY <2>1, <2>2, Zenon
<1>7. Addrs!TypeOK'
  BY <1>1, <1>2, <1>5, <1>6, Zenon DEF Addrs!TypeOK
<1>8. ASSUME NEW k \in Node, proc'[k] = "up" PROVE addr'[k] \in Addrs!Own(store'[k], k)
  <2>1. addr'[k] = addr[k] /\ addr[k] \in Addrs!Own(store[k], k)
    BY <1>1, <1>2, <1>6, <1>8, Zenon DEF Addrs!BoundIsOurs
  <2>2. CASE k = n
    <3>1. ~Addrs!WeLost(store[n], m, n)
      BY <1>6, <1>8, <2>2, Zenon
    <3>2. addr[n] \in Addrs!Own(Addrs!ApplySubnet(store[n], m), n)
      BY <1>3, <2>1, <2>2, <3>1, LossIsTold, Zenon
    <3>3. QED BY <1>5, <2>1, <2>2, <3>2, Zenon DEF st
  <2>3. CASE k # n
    BY <1>5, <2>1, <2>3, Zenon
  <2>4. QED BY <2>2, <2>3, Zenon
<1>9. QED BY <1>7, <1>8, Zenon DEF BackhaulInv, Addrs!BoundIsOurs, Addrs!Own

\* ... and the others.
LEMMA BackhaulStep ==
  ASSUME BackhaulParams, BackhaulInv, [Addrs!Next]_Addrs!vars
  PROVE  BackhaulInv'
<1>0. Addrs!TypeOK /\ Addrs!BoundIsOurs
  BY Zenon DEF BackhaulInv
<1>1. ASSUME NEW n \in Node, Addrs!claim_backhaul_and_publish(n) PROVE BackhaulInv'
  BY <1>1, ClaimBackhaul, Zenon
<1>2. ASSUME NEW n \in Node, NEW m \in inbox[n], Addrs!Deliver(n, m) PROVE BackhaulInv'
  BY <1>2, DeliverBackhaul, Zenon
<1>3. ASSUME NEW n \in Node, Addrs!AntiEntropy(n) PROVE BackhaulInv'
  <2> DEFINE ms == {Addrs!Update(b, store[n][b]) : b \in {c \in Address : store[n][c] # None}}
  <2>1. Addrs!Broadcast(n, ms) /\ disk' = [disk EXCEPT ![n] = store[n]]
        /\ UNCHANGED <<proc, addr, store, wall, crashes, lost>>
    BY <1>3, Zenon DEF Addrs!AntiEntropy
  <2>2. ms \in SUBSET Addrs!UpdateMsg
    BY <1>0 DEF Addrs!TypeOK, Addrs!Store, Addrs!Update, Addrs!UpdateMsg
  <2>3. inbox' \in [Node -> SUBSET Addrs!UpdateMsg]
    BY <1>0, <2>1, <2>2, BroadcastTypes, Zenon
  <2>4. Addrs!TypeOK'
    BY <1>0, <2>1, <2>3, Zenon DEF Addrs!TypeOK
  <2>5. QED BY <1>0, <2>1, <2>4, Zenon DEF BackhaulInv, Addrs!BoundIsOurs, Addrs!Own
<1>4. ASSUME NEW n \in Node, Addrs!Crash(n) PROVE BackhaulInv'
  <2>1. Addrs!TypeOK'
    BY <1>0, <1>4 DEF Addrs!TypeOK, Addrs!Crash, BackhaulParams
  <2>2. Addrs!BoundIsOurs'
    BY <1>0, <1>4, Zenon DEF Addrs!TypeOK, Addrs!Crash, Addrs!BoundIsOurs, Addrs!Own
  <2>3. QED BY <2>1, <2>2, Zenon DEF BackhaulInv
<1>5. ASSUME NEW n \in Node, Addrs!Respawn(n) PROVE BackhaulInv'
  <2>1. disk[n] \in Addrs!Store /\ Addrs!pick_backhaul_addr(disk[n], n) \in Address
    BY <1>0, PickIsAddress, Zenon DEF Addrs!TypeOK
  <2>2. Addrs!TypeOK'
    BY <1>0, <1>5, <2>1, Zenon DEF Addrs!TypeOK, Addrs!Respawn
  <2>3. Addrs!BoundIsOurs'
    BY <1>0, <1>5, Zenon DEF Addrs!TypeOK, Addrs!Respawn, Addrs!BoundIsOurs, Addrs!Own
  <2>4. QED BY <2>2, <2>3, Zenon DEF BackhaulInv
<1>6. CASE UNCHANGED Addrs!vars
  BY <1>0, <1>6, Zenon DEF Addrs!vars, BackhaulInv, Addrs!TypeOK, Addrs!BoundIsOurs, Addrs!Own
<1>7. QED BY <1>1, <1>2, <1>3, <1>4, <1>5, <1>6, Zenon DEF Addrs!Next

\* While a daemon is up, its own claim stands for the address its socket is
\* bound to: a claim that goes to another node takes the daemon down before it
\* handles anything else (apply_subnet_message, claim_backhaul_and_publish).
THEOREM AddressIsOurs ==
  ASSUME BackhaulParams
  PROVE  Addrs!Spec => [](Addrs!TypeOK /\ Addrs!BoundIsOurs)
<1>1. Addrs!Init => BackhaulInv
  <2> SUFFICES ASSUME Addrs!Init PROVE BackhaulInv
    BY Zenon
  <2>1. Addrs!EmptyStore \in Addrs!Store
    BY Zenon DEF Addrs!EmptyStore, Addrs!Store
  <2>2. \A n \in Node : Addrs!pick_backhaul_addr(Addrs!EmptyStore, n) \in Address
    BY <2>1, PickIsAddress, Zenon
  <2>3. QED BY <2>1, <2>2 DEF Addrs!Init, BackhaulInv, Addrs!TypeOK, Addrs!BoundIsOurs,
       BackhaulParams
<1>2. BackhaulInv /\ [Addrs!Next]_Addrs!vars => BackhaulInv'
  BY BackhaulStep, Zenon
<1>3. QED BY <1>1, <1>2, PTL DEF Addrs!Spec, BackhaulInv
=============================================================================
