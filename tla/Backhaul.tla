------------------------------ MODULE Backhaul ------------------------------
(***************************************************************************)
(* How routers come by distinct backhaul addresses 10.254.x.x.  A node     *)
(* derives a sequence of candidates from its id, binds the first one it    *)
(* does not know to be taken, and claims it as a /32 in the same claim     *)
(* store and gossip lane as the client subnets (SubnetMerge, Slot being    *)
(* the addresses).  A node that loses the claim cannot move while it runs: *)
(* it saves the winner's claim and exits, procd starts it again, and it    *)
(* picks anew.                                                             *)
(***************************************************************************)
EXTENDS SubnetMerge, Sequences, FiniteSets

CONSTANTS Derive,       \* Derive[n]: backhaul_addr_salted for each attempt
          Fragile,      \* nodes whose daemon may also crash
          MaxWall,      \* bound: wall-clock readings are 1..MaxWall
          MaxCrashes,   \* bound: crashes in a behaviour
          MaxInFlight   \* bound: messages on their way to one node

VARIABLES
  proc,     \* the daemon: "down", "starting" until the claim is made, "up"
  addr,     \* the address the socket is bound to
  store,    \* the claim store
  disk,     \* the claims file
  inbox,    \* claims on their way to a node
  wall,     \* the last wall-clock reading of each node
  crashes,  \* crashes so far
  lost      \* history: how often each node exited over each address, up to 2

vars == <<proc, addr, store, disk, inbox, wall, crashes, lost>>

\* pick_backhaul_addr: an own claim first, the senior one, else the first
\* candidate that is not another node's, else the first candidate.
Own(st, n) == {a \in Slot : st[a] # None /\ st[a].owner = n}
Senior(st, own) == CHOOSE a \in own : \A b \in own : HlcLeq(st[a].claimed_at, st[b].claimed_at)

FirstFree(st, n) ==
  LET Free(i) == st[Derive[n][i]] = None
      free == {i \in DOMAIN Derive[n] : Free(i)}
  IN IF free = {} THEN Derive[n][1]
     ELSE Derive[n][CHOOSE i \in free : \A j \in free : i <= j]

pick_backhaul_addr(st, n) ==
  IF Own(st, n) # {} THEN Senior(st, Own(st, n)) ELSE FirstFree(st, n)

\* Where a node dials a peer: at its senior backhaul claim, or its derivation.
peer_backhaul_hint(st, p) ==
  IF Own(st, p) # {} THEN Senior(st, Own(st, p)) ELSE Derive[p][1]

Init ==
  /\ proc = [n \in Node |-> "starting"]
  /\ disk = [n \in Node |-> EmptyStore]
  /\ store = disk
  /\ addr = [n \in Node |-> pick_backhaul_addr(store[n], n)]
  /\ inbox = [n \in Node |-> {}]
  /\ wall = [n \in Node |-> 1]
  /\ crashes = 0
  /\ lost = [n \in Node |-> [a \in Slot |-> 0]]

Broadcast(n, ms) ==
  \E got \in [Node \ {n} -> SUBSET ms] :
    /\ inbox' = [k \in Node |-> IF k = n THEN inbox[k] ELSE inbox[k] \cup got[k]]
    /\ \A k \in Node \ {n} : Cardinality(inbox'[k]) <= MaxInFlight

\* Mutant: the process exits without saving the winner.
ExitUnsaved(n, a, st) ==
  /\ proc' = [proc EXCEPT ![n] = "down"]
  /\ lost' = [lost EXCEPT ![n][a] = IF @ < 2 THEN @ + 1 ELSE @]
  /\ UNCHANGED disk

\* Mutant: the process goes on after it lost its address.
NoExit(n, a, st) ==
  /\ disk' = [disk EXCEPT ![n] = st]
  /\ UNCHANGED <<proc, lost>>

\* Exit over address a, with the store st saved first.
ExitCollision(n, a, st) ==
  /\ disk' = [disk EXCEPT ![n] = st]
  /\ proc' = [proc EXCEPT ![n] = "down"]
  /\ lost' = [lost EXCEPT ![n][a] = IF @ < 2 THEN @ + 1 ELSE @]

\* claim_backhaul_and_publish, the first step of the claim manager.
claim_backhaul_and_publish(n) ==
  \E w \in wall[n]..MaxWall :
    LET a == addr[n]
        fresh == [owner |-> n, claimed_at |-> now_hlc(n, w)]
        r == merge_subnet_claim(store[n][a], fresh)
        entry == IF a \in Own(store[n], n) THEN store[n][a] ELSE fresh
    IN /\ proc[n] = "starting"
       /\ wall' = [wall EXCEPT ![n] = w]
       /\ IF r.result = "Conflict" /\ r.winner.owner # n
            THEN /\ ExitCollision(n, a, store[n])
                 /\ UNCHANGED <<store, inbox>>
            ELSE /\ store' = [store EXCEPT ![n][a] = entry]
                 /\ Broadcast(n, {Update(a, entry)})
                 /\ proc' = [proc EXCEPT ![n] = "up"]
                 /\ UNCHANGED <<disk, lost>>
       /\ UNCHANGED <<addr, crashes>>

\* The dispatch loop: a lost claim in the backhaul block ends the process.
Deliver(n, m) ==
  LET st == ApplySubnet(store[n], m) IN
  /\ m \in inbox[n]
  /\ proc[n] # "down"
  /\ inbox' = [inbox EXCEPT ![n] = @ \ {m}]
  /\ store' = [store EXCEPT ![n] = st]
  /\ IF WeLost(store[n], m, n) THEN ExitCollision(n, m.slot, st)
                               ELSE UNCHANGED <<disk, proc, lost>>
  /\ UNCHANGED <<addr, wall, crashes>>

\* The anti-entropy tick.
AntiEntropy(n) ==
  /\ proc[n] # "down"
  /\ Broadcast(n, {Update(a, store[n][a]) : a \in {b \in Slot : store[n][b] # None}})
  /\ disk' = [disk EXCEPT ![n] = store[n]]
  /\ UNCHANGED <<proc, addr, store, wall, crashes, lost>>

Crash(n) ==
  /\ proc[n] # "down" /\ n \in Fragile /\ crashes < MaxCrashes
  /\ proc' = [proc EXCEPT ![n] = "down"]
  /\ crashes' = crashes + 1
  /\ UNCHANGED <<addr, store, disk, inbox, wall, lost>>

\* procd starts the daemon again.  It picks from the restored claims, before
\* it listens to anything.
Respawn(n) ==
  /\ proc[n] = "down"
  /\ proc' = [proc EXCEPT ![n] = "starting"]
  /\ store' = [store EXCEPT ![n] = disk[n]]
  /\ addr' = [addr EXCEPT ![n] = pick_backhaul_addr(disk[n], n)]
  /\ inbox' = [inbox EXCEPT ![n] = {}]
  /\ UNCHANGED <<disk, wall, crashes, lost>>

Next ==
  \E n \in Node :
    \/ claim_backhaul_and_publish(n)
    \/ \E m \in inbox[n] : Deliver(n, m)
    \/ AntiEntropy(n)
    \/ Crash(n)
    \/ Respawn(n)

Spec == Init /\ [][Next]_vars

-----------------------------------------------------------------------------
(* Fairness: procd respawns, the claim manager runs, messages that arrive  *)
(* are received, and the anti-entropy broadcast of what a node holds gets  *)
(* through to each other node now and then.                                *)

Claims == {[owner |-> n, claimed_at |-> now_hlc(n, w)] : n \in Node, w \in 1..MaxWall}
Heard(n, k) ==
  /\ AntiEntropy(n)
  /\ \A a \in Slot : store[n][a] # None => Update(a, store[n][a]) \in inbox'[k]

Fairness ==
  \A n \in Node :
    /\ WF_vars(Respawn(n))
    /\ WF_vars(claim_backhaul_and_publish(n))
    /\ \A a \in Slot, c \in Claims :
         WF_vars(Update(a, c) \in inbox[n] /\ Deliver(n, Update(a, c)))
    /\ \A k \in Node \ {n} : SF_vars(Heard(n, k))

FairSpec == Spec /\ Fairness

-----------------------------------------------------------------------------
(* Properties.                                                             *)

\* The values the variables take.
TypeOK ==
  /\ proc \in [Node -> {"down", "starting", "up"}]
  /\ addr \in [Node -> Slot]
  /\ store \in [Node -> Store] /\ disk \in [Node -> Store]
  /\ inbox \in [Node -> SUBSET UpdateMsg]
  /\ wall \in [Node -> 1..MaxWall]
  /\ crashes \in 0..MaxCrashes
  /\ lost \in [Node -> [Slot -> 0..2]]

\* A node never goes on using an address that is another's as far as it knows:
\* while it is up, its own claim stands in its store for the address it is
\* bound to.
BoundIsOurs ==
  \A n \in Node : proc[n] = "up" => addr[n] \in Own(store[n], n)

\* A lost collision is settled by one restart: as long as it does not crash, a
\* node does not exit twice over one address.
LostOnce ==
  \A n \in Node : crashes = 0 => \A a \in Slot : lost[n][a] <= 1

\* In the end every node is up on an address of its own, and, if none crashed
\* before it had saved its claim, every other node dials it there.
Dialable ==
  \A n \in Node :
    /\ proc[n] = "up"
    /\ \A k \in Node \ {n} :
         /\ addr[k] # addr[n]
         /\ crashes = 0 => peer_backhaul_hint(store[k], n) = addr[n]
AddressesSettle == <>[]Dialable
=============================================================================
