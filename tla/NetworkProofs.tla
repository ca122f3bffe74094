--------------------------- MODULE NetworkProofs ----------------------------
(***************************************************************************)
(* Proofs about the network a router is part of: the front desk, the       *)
(* tunnels to other routers, the overlay, the DNS responder, who is seen as*)
(* alive, what babeld is told, and the lan and DHCP configuration the daemon*)
(* writes for its claims, for any keys, connections, nodes and faults and  *)
(* every value of the other constants.                                     *)
(***************************************************************************)
EXTENDS FrontDesk, Tunnels, NetworkParts, Sequences, TLAPS

-----------------------------------------------------------------------------
(* The front desk.                                                         *)

\* The submissions that have used up a challenge.
Spent == accepted \cup taken \cup ({request} \ {None})

\* The inductive invariant: types, what hello holds, and what the files and the
\* sweeps hold.
HelloInv ==
  /\ challenge \in [Nonce -> {"unissued", "fresh", "expired", "gone"}]
  /\ request \in Valids \cup {None}
  /\ accepted \subseteq Valids /\ taken \subseteq accepted
  /\ \A s \in Spent : s.signed /\ challenge[s.nonce] = "gone"
  /\ \A s, t \in Spent : s.nonce = t.nonce => s = t
SpoolInv == spool \in [Dir -> [Key -> accepted \cup {Torn, None}]]
SweepInv == sweep \in [Dir -> [todo : SUBSET Key, key : Key \cup {None},
                               got : accepted \cup {Torn, None, Done}]]

DeskInv == HelloInv /\ SpoolInv /\ SweepInv

-----------------------------------------------------------------------------
\* A step of hello or of the daemon that uses up no challenge and makes up no
\* submission keeps hello's part in order.
LEMMA SpentShrinks ==
  ASSUME HelloInv, request' \in {request, None},
         \/ challenge' = challenge
         \/ /\ challenge' \in [Nonce -> {"unissued", "fresh", "expired", "gone"}]
            /\ \A c \in Nonce : challenge[c] = "gone" => challenge'[c] = "gone",
         accepted' \subseteq accepted \cup ({request} \ {None}),
         taken' \subseteq accepted'
  PROVE  HelloInv'
<1>1. Spent' \subseteq Spent /\ Spent \subseteq Valids
  BY Zenon DEF HelloInv, Spent
<1>2. /\ challenge' \in [Nonce -> {"unissued", "fresh", "expired", "gone"}]
      /\ \A c \in Nonce : challenge[c] = "gone" => challenge'[c] = "gone"
  BY Zenon DEF HelloInv
<1>3. \A s \in Spent' : s.signed /\ challenge'[s.nonce] = "gone"
  <2>1. \A s \in Spent : s.nonce \in Nonce
    BY <1>1, Zenon DEF Valids
  <2>2. QED BY <1>1, <1>2, <2>1, Zenon DEF HelloInv
<1>4. \A s, t \in Spent' : s.nonce = t.nonce => s = t
  BY <1>1, Zenon DEF HelloInv
<1>5. request' \in Valids \cup {None} /\ accepted' \subseteq Valids
  BY Zenon DEF HelloInv
<1>6. QED BY <1>2, <1>3, <1>4, <1>5, Zenon DEF HelloInv

\* A valid answer uses up a challenge that no submission had (Submit).
LEMMA SubmitKeeps ==
  ASSUME DeskInv, NEW d \in Dir, NEW k \in Key, NEW c \in Nonce, NEW signed \in BOOLEAN,
         Submit(d, k, c, signed)
  PROVE  DeskInv'
<1> DEFINE r == [dir |-> d, key |-> k, nonce |-> c, signed |-> signed]
<1>1. /\ request = None /\ challenge[c] = "fresh" /\ signed
      /\ challenge' = [challenge EXCEPT ![c] = "gone"] /\ request' = r
      /\ spool' = spool /\ sweep' = sweep /\ accepted' = accepted /\ taken' = taken
  BY Zenon DEF Submit, Valid, Consumed
<1>2. r \in Valids /\ r.nonce = c /\ r.signed
  BY <1>1, Zenon DEF Valids
<1> HIDE DEF r
<1>3. Spent' \subseteq Spent \cup {r} /\ Spent \subseteq Valids
  BY <1>1, Zenon DEF DeskInv, HelloInv, Spent
<1>4. /\ challenge' \in [Nonce -> {"unissued", "fresh", "expired", "gone"}]
      /\ challenge'[c] = "gone"
      /\ \A x \in Nonce : challenge[x] = "gone" => challenge'[x] = "gone"
  BY <1>1, Zenon DEF DeskInv, HelloInv
<1>5. \A s \in Spent : s.nonce \in Nonce /\ s.nonce # c
  BY <1>1, <1>3, Zenon DEF DeskInv, HelloInv, Valids
<1>6. \A s \in Spent' : s.signed /\ challenge'[s.nonce] = "gone"
  BY <1>2, <1>3, <1>4, <1>5, Zenon DEF DeskInv, HelloInv
<1>7. \A s, t \in Spent' : s.nonce = t.nonce => s = t
  BY <1>2, <1>3, <1>5, Zenon DEF DeskInv, HelloInv
<1>8. HelloInv'
  BY <1>1, <1>2, <1>4, <1>6, <1>7, Zenon DEF DeskInv, HelloInv
<1>9. QED BY <1>1, <1>8, Zenon DEF DeskInv, SpoolInv, SweepInv

\* The other steps of hello.
LEMMA HelloKeeps ==
  ASSUME DeskInv,
         \/ \E c \in Nonce : issue_challenge(c) \/ Expire(c)
         \/ SpoolFails \/ OpenFile \/ WriteFile \/ Restart
  PROVE  DeskInv'
<1>1. ASSUME NEW c \in Nonce, issue_challenge(c)
      PROVE  DeskInv'
  <2>1. /\ challenge' \in [Nonce -> {"unissued", "fresh", "expired", "gone"}]
        /\ \A x \in Nonce : challenge[x] = "gone" => challenge'[x] = "gone"
    BY <1>1, Zenon DEF issue_challenge, DeskInv, HelloInv
  <2>2. /\ request' = request /\ accepted' = accepted /\ taken' = taken
        /\ spool' = spool /\ sweep' = sweep
    BY <1>1, Zenon DEF issue_challenge
  <2>3. HelloInv'
    BY <2>1, <2>2, SpentShrinks, Zenon DEF DeskInv, HelloInv
  <2>4. QED BY <2>2, <2>3, Zenon DEF DeskInv, SpoolInv, SweepInv
<1>2. ASSUME NEW c \in Nonce, Expire(c)
      PROVE  DeskInv'
  <2>1. /\ challenge' \in [Nonce -> {"unissued", "fresh", "expired", "gone"}]
        /\ \A x \in Nonce : challenge[x] = "gone" => challenge'[x] = "gone"
    BY <1>2, Zenon DEF Expire, DeskInv, HelloInv
  <2>2. /\ request' = request /\ accepted' = accepted /\ taken' = taken
        /\ spool' = spool /\ sweep' = sweep
    BY <1>2, Zenon DEF Expire
  <2>3. HelloInv'
    BY <2>1, <2>2, SpentShrinks, Zenon DEF DeskInv, HelloInv
  <2>4. QED BY <2>2, <2>3, Zenon DEF DeskInv, SpoolInv, SweepInv
<1>3. CASE Restart
  <2>1. /\ challenge' \in [Nonce -> {"unissued", "fresh", "expired", "gone"}]
        /\ \A x \in Nonce : challenge[x] = "gone" => challenge'[x] = "gone"
    BY <1>3, Zenon DEF Restart, DeskInv, HelloInv
  <2>2. /\ request' = None /\ accepted' = accepted /\ taken' = taken
        /\ spool' = spool /\ sweep' = sweep
    BY <1>3, Zenon DEF Restart
  <2>3. HelloInv'
    BY <2>1, <2>2, SpentShrinks, Zenon DEF DeskInv, HelloInv
  <2>4. QED BY <2>2, <2>3, Zenon DEF DeskInv, SpoolInv, SweepInv
<1>4. CASE SpoolFails
  <2>1. /\ challenge' = challenge /\ request' = None /\ accepted' = accepted
        /\ taken' = taken /\ spool' = spool /\ sweep' = sweep
    BY <1>4, Zenon DEF SpoolFails
  <2>2. HelloInv'
    BY <2>1, SpentShrinks, Zenon DEF DeskInv, HelloInv
  <2>3. QED BY <2>1, <2>2, Zenon DEF DeskInv, SpoolInv, SweepInv
<1>5. CASE OpenFile
  <2>1. /\ challenge' = challenge /\ request' = request /\ accepted' = accepted
        /\ taken' = taken /\ sweep' = sweep
        /\ spool' = [spool EXCEPT ![request.dir][request.key] = Torn]
    BY <1>5, Zenon DEF OpenFile
  <2>2. HelloInv'
    BY <2>1, SpentShrinks, Zenon DEF DeskInv, HelloInv
  <2>3. SpoolInv'
    BY <2>1, Zenon DEF DeskInv, SpoolInv
  <2>4. QED BY <2>1, <2>2, <2>3, Zenon DEF DeskInv, SweepInv
<1>6. CASE WriteFile
  <2>1. /\ challenge' = challenge /\ request # None /\ request' = None
        /\ accepted' = accepted \cup {request} /\ taken' = taken /\ sweep' = sweep
        /\ \/ spool' = spool
           \/ spool' = [spool EXCEPT ![request.dir][request.key] = request]
    BY <1>6, Zenon DEF WriteFile
  <2>2. HelloInv'
    BY <2>1, SpentShrinks, Zenon DEF DeskInv, HelloInv
  <2>3. accepted \subseteq accepted' /\ request \in accepted'
    BY <2>1, Zenon
  <2>4. /\ spool \in [Dir -> [Key -> accepted' \cup {Torn, None}]]
        /\ sweep \in [Dir -> [todo : SUBSET Key, key : Key \cup {None},
                              got : accepted' \cup {Torn, None, Done}]]
    BY <2>3, Zenon DEF DeskInv, SpoolInv, SweepInv
  <2>5. spool' \in [Dir -> [Key -> accepted' \cup {Torn, None}]]
    <3> DEFINE C == accepted' \cup {Torn, None}
    <3>1. request \in C
      BY <2>3, Zenon
    <3> HIDE DEF C
    <3>2. spool \in [Dir -> [Key -> C]]
      BY <2>4, Zenon DEF C
    <3>3. spool' \in [Dir -> [Key -> C]]
      BY <2>1, <3>1, <3>2
    <3>4. QED BY <3>3, Zenon DEF C
  <2>6. QED BY <2>1, <2>2, <2>4, <2>5, Zenon DEF DeskInv, SpoolInv, SweepInv
<1>7. QED BY <1>1, <1>2, <1>3, <1>4, <1>5, <1>6, Zenon

\* The daemon merges only what it has read, and reads only what hello has
\* accepted, or a torn file (Sweep).
LEMMA SweepKeeps ==
  ASSUME DeskInv, NEW d \in Dir, Sweep(d)
  PROVE  DeskInv'
<1>1. /\ challenge' = challenge /\ request' = request /\ accepted' = accepted
  BY Zenon DEF Sweep, ReadDir, ReadFile, Quarantine, Merge, RemoveFile
<1>2. taken' \subseteq accepted
  <2>1. \/ taken' = taken
        \/ sweep[d].got \notin {None, Torn, Done} /\ taken' = taken \cup {sweep[d].got}
    BY Zenon DEF Sweep, ReadDir, ReadFile, Quarantine, Merge, RemoveFile
  <2>2. sweep[d].got \in accepted \cup {Torn, None, Done}
    BY Zenon DEF DeskInv, SweepInv
  <2>3. QED BY <2>1, <2>2, Zenon DEF DeskInv, HelloInv
<1>3. HelloInv'
  BY <1>1, <1>2, SpentShrinks, Zenon DEF DeskInv
<1>4. SpoolInv'
  <2>1. \/ spool' = spool
        \/ spool' = [spool EXCEPT ![d][sweep[d].key] = None]
    BY Zenon DEF Sweep, ReadDir, ReadFile, Quarantine, Merge, RemoveFile
  <2>2. QED BY <1>1, <2>1 DEF DeskInv, SpoolInv
<1>5. SweepInv'
  <2>1. PICK s : sweep' = [sweep EXCEPT ![d] = s]
                 /\ s \in [todo : SUBSET Key, key : Key \cup {None},
                          got : accepted \cup {Torn, None, Done}]
    <3>1. sweep[d] \in [todo : SUBSET Key, key : Key \cup {None},
                        got : accepted \cup {Torn, None, Done}]
      BY Zenon DEF DeskInv, SweepInv
    <3>2. CASE ReadDir(d)
      <4> DEFINE s == [sweep[d] EXCEPT !.todo = Files(d)]
      <4>1. sweep' = [sweep EXCEPT ![d] = s]
        BY <3>2, Zenon DEF ReadDir
      <4>2. s \in [todo : SUBSET Key, key : Key \cup {None},
                   got : accepted \cup {Torn, None, Done}]
        BY <3>1, Zenon DEF Files
      <4>3. QED BY <4>1, <4>2, Zenon
    <3>3. CASE \E k \in Key : ReadFile(d, k)
      <4>1. PICK k \in Key : ReadFile(d, k)
        BY <3>3, Zenon
      <4> DEFINE s == [todo |-> sweep[d].todo \ {k}, key |-> k, got |-> spool[d][k]]
      <4>2. sweep' = [sweep EXCEPT ![d] = s]
        BY <4>1, Zenon DEF ReadFile
      <4>3. spool[d][k] \in accepted \cup {Torn, None}
        BY Zenon DEF DeskInv, SpoolInv
      <4>4. s \in [todo : SUBSET Key, key : Key \cup {None},
                   got : accepted \cup {Torn, None, Done}]
        BY <3>1, <4>3, Zenon
      <4>5. QED BY <4>2, <4>4, Zenon
    <3>4. CASE Quarantine(d) \/ RemoveFile(d)
      <4> DEFINE s == [sweep[d] EXCEPT !.key = None, !.got = None]
      <4>1. sweep' = [sweep EXCEPT ![d] = s]
        BY <3>1, <3>4, Zenon DEF Quarantine, RemoveFile, DeskInv, SweepInv
      <4>2. s \in [todo : SUBSET Key, key : Key \cup {None},
                   got : accepted \cup {Torn, None, Done}]
        BY <3>1, Zenon
      <4>3. QED BY <4>1, <4>2, Zenon
    <3>5. CASE Merge(d)
      <4> DEFINE s == [sweep[d] EXCEPT !.got = Done]
      <4>1. sweep' = [sweep EXCEPT ![d] = s]
        BY <3>5, Zenon DEF Merge
      <4>2. s \in [todo : SUBSET Key, key : Key \cup {None},
                   got : accepted \cup {Torn, None, Done}]
        BY <3>1, Zenon
      <4>3. QED BY <4>1, <4>2, Zenon
    <3>6. QED BY <3>2, <3>3, <3>4, <3>5, Zenon DEF Sweep
  <2>2. QED BY <1>1, <2>1, Zenon DEF DeskInv, SweepInv
<1>6. QED BY <1>3, <1>4, <1>5, Zenon DEF DeskInv

-----------------------------------------------------------------------------
(* The theorems.                                                           *)

\* The invariant holds in every reachable state.
THEOREM DeskInvariance == Spec => []DeskInv
<1>1. Init => DeskInv
  BY DEF Init, DeskInv, HelloInv, SpoolInv, SweepInv, Spent, Resting
<1>2. DeskInv /\ [Next]_vars => DeskInv'
  <2> SUFFICES ASSUME DeskInv, [Next]_vars PROVE DeskInv'
    BY Zenon
  <2>1. CASE UNCHANGED vars
    BY <2>1, Zenon DEF vars, DeskInv, HelloInv, SpoolInv, SweepInv, Spent
  <2>2. CASE \E k \in Key, c \in Nonce, signed \in BOOLEAN :
               submit_identity(k, c, signed) \/ submit_name_claim(k, c, signed)
    BY <2>2, SubmitKeeps, Zenon DEF submit_identity, submit_name_claim, Dir
  <2>3. CASE \E d \in Dir : Sweep(d)
    BY <2>3, SweepKeeps, Zenon
  <2>4. QED BY <2>1, <2>2, <2>3, HelloKeeps, Zenon DEF Next
<1>3. QED BY <1>1, <1>2, PTL DEF Spec

\* A challenge buys one submission, whatever requests, failures, expiries and
\* restarts come between (CHALLENGES, submit_identity, submit_name_claim).
THEOREM ChallengesSingleUse == Spec => []SingleUse
<1>1. DeskInv => SingleUse
  BY Zenon DEF DeskInv, HelloInv, Spent, SingleUse
<1>2. QED BY DeskInvariance, <1>1, PTL

\* What the daemon takes from the spool directory without checking it again is
\* a whole submission with a signature that hello verified.
THEOREM OnlyVerifiedTaken == Spec => []TakenWasVerified
<1>1. DeskInv => TakenWasVerified
  BY Zenon DEF DeskInv, HelloInv, Spent, TakenWasVerified
<1>2. QED BY DeskInvariance, <1>1, PTL

-----------------------------------------------------------------------------
(* The tunnels.                                                            *)

\* The slot and the interface a serving task at one end has, by where it is.
SlotOf(c, t) == [conn |-> c, up |-> t = "serve"]
Holding == {"spawn", "serve"}
HasIface == {"serve", "drop", "release"}

\* The inductive invariant.  A task has the registry's slot from its reservation
\* until the connection is closed, and the interface, which no other task can
\* have, until the kernel has removed it.
ShapeInv ==
  /\ task \in [End -> [Conn -> Task]]
  /\ slot \in [End -> [conn : Conn \cup {NoConn}, up : BOOLEAN]]
  /\ iface \in [End -> Conn \cup {NoConn}]
SlotInv ==
  \A e \in End :
    /\ \A c \in Conn : task[e][c] \in Holding => slot[e] = SlotOf(c, task[e][c])
    /\ slot[e].up => task[e][slot[e].conn] = "serve" /\ slot[e].conn \in Conn
IfaceInv ==
  \A e \in End, c \in Conn : task[e][c] \in HasIface => iface[e] = c

TunnelsInv == ShapeInv /\ SlotInv /\ IfaceInv

-----------------------------------------------------------------------------
\* The task of c at e may be at t with slot sl and interface i there.
TaskFits(e, c, t, sl, i) ==
  /\ sl \in [conn : Conn \cup {NoConn}, up : BOOLEAN] /\ i \in Conn \cup {NoConn}
  /\ t \in Holding => sl = SlotOf(c, t)
  /\ \A d \in Conn \ {c} : task[e][d] \in Holding => sl = SlotOf(d, task[e][d])
  /\ sl.up => /\ sl.conn \in Conn
              /\ sl.conn = c => t = "serve"
              /\ sl.conn # c => task[e][sl.conn] = "serve"
  /\ t \in HasIface => i = c
  /\ \A d \in Conn \ {c} : task[e][d] \in HasIface => i = d

\* One task moves on at one end (Go), and with it slot and interface there.
LEMMA EndStep ==
  ASSUME TunnelsInv, NEW e \in End, NEW c \in Conn, NEW t \in Task, Go(e, c, t),
         NEW sl, slot' = [slot EXCEPT ![e] = sl],
         NEW i, iface' = [iface EXCEPT ![e] = i],
         TaskFits(e, c, t, sl, i)
  PROVE  TunnelsInv'
<1>1. /\ task' \in [End -> [Conn -> Task]] /\ task'[e][c] = t
      /\ \A d \in Conn \ {c} : task'[e][d] = task[e][d]
      /\ \A f \in End \ {e} : task'[f] = task[f]
  BY Zenon DEF TunnelsInv, ShapeInv, Go
<1>2. /\ slot' \in [End -> [conn : Conn \cup {NoConn}, up : BOOLEAN]]
      /\ slot'[e] = sl /\ \A f \in End \ {e} : slot'[f] = slot[f]
  BY Zenon DEF TunnelsInv, ShapeInv, TaskFits
<1>3. /\ iface' \in [End -> Conn \cup {NoConn}]
      /\ iface'[e] = i /\ \A f \in End \ {e} : iface'[f] = iface[f]
  BY Zenon DEF TunnelsInv, ShapeInv, TaskFits
<1>4. ASSUME NEW f \in End
      PROVE  /\ \A d \in Conn : task'[f][d] \in Holding => slot'[f] = SlotOf(d, task'[f][d])
             /\ slot'[f].up => task'[f][slot'[f].conn] = "serve" /\ slot'[f].conn \in Conn
             /\ \A d \in Conn : task'[f][d] \in HasIface => iface'[f] = d
  <2>1. CASE f = e
    <3>1. \A d \in Conn : task'[e][d] \in Holding => sl = SlotOf(d, task'[e][d])
      BY <1>1, Zenon DEF TaskFits
    <3>2. sl.up => task'[e][sl.conn] = "serve" /\ sl.conn \in Conn
      BY <1>1, Zenon DEF TaskFits
    <3>3. \A d \in Conn : task'[e][d] \in HasIface => i = d
      BY <1>1, Zenon DEF TaskFits
    <3>4. QED BY <1>2, <1>3, <2>1, <3>1, <3>2, <3>3, Zenon
  <2>2. CASE f # e
    BY <1>1, <1>2, <1>3, <2>2 DEF TunnelsInv, SlotInv, IfaceInv
  <2>3. QED BY <2>1, <2>2, Zenon
<1>5. QED BY <1>1, <1>2, <1>3, <1>4, Zenon DEF TunnelsInv, ShapeInv, SlotInv, IfaceInv

\* A slot that is not up is free, or held by a task that sets its tunnel up; no
\* two tasks hold it.
LEMMA OneHolder ==
  ASSUME TunnelsInv, NoConn \notin Conn, NEW e \in End, NEW c \in Conn, task[e][c] \in Holding
  PROVE  /\ slot[e].conn = c /\ slot[e] # Free
         /\ \A d \in Conn : d # c => task[e][d] \notin Holding
<1>1. \A d \in Conn : task[e][d] \in Holding => slot[e] = SlotOf(d, task[e][d])
  BY Zenon DEF TunnelsInv, SlotInv
<1>2. \A d \in Conn : task[e][d] \in Holding => slot[e].conn = d
  <2>1. \A d, t : SlotOf(d, t).conn = d
    BY Zenon DEF SlotOf
  <2>2. QED BY <1>1, <2>1, Zenon
<1>3. QED BY <1>2 DEF Free

-----------------------------------------------------------------------------
\* The steps of the task that serves a connection (serve_tunnel).
LEMMA ServeKeeps ==
  ASSUME TunnelsInv, NoConn \notin Conn, NEW e \in End, NEW c \in Conn, Serve(e, c)
  PROVE  TunnelsInv'
<1> DEFINE Slot == [conn : Conn \cup {NoConn}, up : BOOLEAN]
<1>1. /\ slot[e] \in Slot /\ iface[e] \in Conn \cup {NoConn}
      /\ Free \in Slot /\ Free.up = FALSE
      /\ \A b \in BOOLEAN : [conn |-> c, up |-> b] \in Slot
  BY Zenon DEF TunnelsInv, ShapeInv, Free
<1>2. /\ slot' = slot => slot' = [slot EXCEPT ![e] = slot[e]]
      /\ iface' = iface => iface' = [iface EXCEPT ![e] = iface[e]]
  BY Zenon DEF TunnelsInv, ShapeInv
<1>3. /\ \A d \in Conn : task[e][d] \in Holding => slot[e] = SlotOf(d, task[e][d])
      /\ slot[e].up => slot[e].conn \in Conn /\ task[e][slot[e].conn] = "serve"
      /\ \A d \in Conn : task[e][d] \in HasIface => iface[e] = d
  BY Zenon DEF TunnelsInv, SlotInv, IfaceInv
<1>4. CASE Reserve(e, c) /\ slot[e] = Free
  <2>1. /\ Go(e, c, "spawn") /\ iface' = iface
        /\ slot' = [slot EXCEPT ![e] = [conn |-> c, up |-> FALSE]]
    BY <1>4, Zenon DEF Reserve
  <2>2. \A d \in Conn : task[e][d] \notin Holding
    BY <1>4, OneHolder, Zenon
  <2>3. TaskFits(e, c, "spawn", [conn |-> c, up |-> FALSE], iface[e])
    BY <1>1, <1>3, <2>1, <2>2, Zenon DEF TaskFits, Holding, HasIface, SlotOf
  <2>4. QED BY <1>2, <2>1, <2>3, EndStep, Zenon DEF Task
<1>5. CASE Reserve(e, c) /\ slot[e] # Free
  <2>1. Go(e, c, "over") /\ iface' = iface /\ slot' = slot /\ task[e][c] = "reserve"
    BY <1>5, Zenon DEF Reserve
  <2>2. TaskFits(e, c, "over", slot[e], iface[e])
    BY <1>1, <1>3, <2>1, Zenon DEF TaskFits, Holding, HasIface, SlotOf
  <2>3. QED BY <1>2, <2>1, <2>2, EndStep, Zenon DEF Task
<1>6. CASE SpawnTunnel(e, c)
  <2>1. /\ Go(e, c, "serve") /\ iface' = [iface EXCEPT ![e] = c] /\ iface[e] = NoConn
        /\ slot' = [slot EXCEPT ![e] = [conn |-> c, up |-> TRUE]] /\ task[e][c] = "spawn"
    BY <1>6, Zenon DEF SpawnTunnel
  <2>2. \A d \in Conn \ {c} : task[e][d] \notin Holding /\ task[e][d] \notin HasIface
    BY <1>3, <2>1, OneHolder, Zenon DEF Holding
  <2>3. TaskFits(e, c, "serve", [conn |-> c, up |-> TRUE], c)
    BY <1>1, <2>1, <2>2, Zenon DEF TaskFits, Holding, HasIface, SlotOf
  <2>4. QED BY <1>2, <2>1, <2>3, EndStep, Zenon DEF Task
<1>7. CASE SpawnFails(e, c)
  <2>1. /\ Go(e, c, "over") /\ iface' = iface /\ slot' = [slot EXCEPT ![e] = Free]
        /\ task[e][c] = "spawn"
    BY <1>7, Zenon DEF SpawnFails
  <2>2. \A d \in Conn \ {c} : task[e][d] \notin Holding
    BY <2>1, OneHolder, Zenon DEF Holding
  <2>3. TaskFits(e, c, "over", Free, iface[e])
    BY <1>1, <1>3, <2>1, <2>2, Zenon DEF TaskFits, Holding, HasIface, SlotOf
  <2>4. QED BY <1>2, <2>1, <2>3, EndStep, Zenon DEF Task
<1>8. CASE ServeEnds(e, c)
  <2>1. /\ Go(e, c, "drop") /\ iface' = iface /\ slot' = [slot EXCEPT ![e] = Free]
        /\ task[e][c] = "serve"
    BY <1>8, Zenon DEF ServeEnds
  <2>2. /\ \A d \in Conn \ {c} : task[e][d] \notin Holding
        /\ iface[e] = c
    BY <1>3, <2>1, OneHolder, Zenon DEF Holding, HasIface
  <2>3. TaskFits(e, c, "drop", Free, iface[e])
    BY <1>1, <1>3, <2>1, <2>2, Zenon DEF TaskFits, Holding, HasIface, SlotOf
  <2>4. QED BY <1>2, <2>1, <2>3, EndStep, Zenon DEF Task
<1>9. CASE DropTunnel(e, c)
  <2>1. Go(e, c, "release") /\ iface' = iface /\ slot' = slot /\ task[e][c] = "drop"
    BY <1>9, Zenon DEF DropTunnel
  <2>2. iface[e] = c
    BY <1>3, <2>1, Zenon DEF HasIface
  <2>3. TaskFits(e, c, "release", slot[e], iface[e])
    BY <1>1, <1>3, <2>1, <2>2, Zenon DEF TaskFits, Holding, HasIface, SlotOf
  <2>4. QED BY <1>2, <2>1, <2>3, EndStep, Zenon DEF Task
<1>10. CASE Release(e, c)
  <2>1. /\ Go(e, c, "over") /\ iface' = [iface EXCEPT ![e] = NoConn] /\ slot' = slot
        /\ task[e][c] = "release"
    BY <1>10, Zenon DEF Release
  <2>2. \A d \in Conn \ {c} : task[e][d] \notin HasIface
    BY <1>3, <2>1, Zenon DEF HasIface
  <2>3. TaskFits(e, c, "over", slot[e], NoConn)
    BY <1>1, <1>3, <2>1, <2>2, Zenon DEF TaskFits, Holding, HasIface, SlotOf
  <2>4. QED BY <1>2, <2>1, <2>3, EndStep, Zenon DEF Task
<1>11. CASE Learn(e, c)
  BY <1>11, Zenon DEF Learn, TunnelsInv, ShapeInv, SlotInv, IfaceInv
<1>12. QED BY <1>4, <1>5, <1>6, <1>7, <1>8, <1>9, <1>10, <1>11, Zenon DEF Serve

\* A new connection is served at both ends (connector_loop); only tasks that
\* are over start again.
LEMMA DialKeeps ==
  ASSUME TunnelsInv, NEW c \in Conn, Dial(c)
  PROVE  TunnelsInv'
<1>1. /\ \A e \in End : task[e][c] \in {"none", "over"}
      /\ task' = [e \in End |-> [task[e] EXCEPT ![c] = "reserve"]]
      /\ slot' = slot /\ iface' = iface
  BY Zenon DEF Dial
<1>2. /\ task' \in [End -> [Conn -> Task]]
      /\ \A e \in End : task'[e][c] = "reserve"
      /\ \A e \in End, d \in Conn : d # c => task'[e][d] = task[e][d]
  BY <1>1, Zenon DEF TunnelsInv, ShapeInv, Task
<1>3. SlotInv'
  BY <1>1, <1>2 DEF TunnelsInv, SlotInv, Holding
<1>4. IfaceInv'
  BY <1>1, <1>2, Zenon DEF TunnelsInv, IfaceInv, HasIface
<1>5. QED BY <1>1, <1>2, <1>3, <1>4, Zenon DEF TunnelsInv, ShapeInv

\* A router that restarts has no tunnels (Crash).
LEMMA CrashKeeps ==
  ASSUME TunnelsInv, NEW e \in End, Crash(e)
  PROVE  TunnelsInv'
<1>1. /\ slot' = [slot EXCEPT ![e] = Free] /\ iface' = [iface EXCEPT ![e] = NoConn]
      /\ task' = [task EXCEPT ![e] = [c \in Conn |-> IF c \in dialed THEN "over" ELSE "none"]]
  BY Zenon DEF Crash
<1>2. /\ ShapeInv'
      /\ slot'[e] = Free /\ \A f \in End \ {e} : slot'[f] = slot[f]
      /\ \A f \in End \ {e} : iface'[f] = iface[f]
      /\ \A c \in Conn : task'[e][c] \in {"over", "none"}
      /\ \A f \in End \ {e} : task'[f] = task[f]
  BY <1>1, Zenon DEF TunnelsInv, ShapeInv, Free, Task
<1>3. SlotInv'
  BY <1>2 DEF TunnelsInv, SlotInv, Holding, Free
<1>4. IfaceInv'
  BY <1>2, Zenon DEF TunnelsInv, IfaceInv, HasIface
<1>5. QED BY <1>2, <1>3, <1>4, Zenon DEF TunnelsInv

-----------------------------------------------------------------------------
\* The registry, from which babeld's interfaces are taken, is true in every
\* reachable state: a name in it is that of an interface that exists and
\* carries the registered connection (TunnelRegistry, serve_tunnel).
THEOREM RegistryIsTrue ==
  ASSUME NoConn \notin Conn
  PROVE  TunnelsSpec => []RegistryTrue
<1>1. TunnelsInit => TunnelsInv
  BY DEF TunnelsInit, TunnelsInv, ShapeInv, SlotInv, IfaceInv, Free, Task, Holding, HasIface
<1>2. TunnelsInv /\ [TunnelsNext]_tunnelVars => TunnelsInv'
  <2> SUFFICES ASSUME TunnelsInv, [TunnelsNext]_tunnelVars PROVE TunnelsInv'
    BY Zenon
  <2>1. CASE UNCHANGED tunnelVars
    BY <2>1, Zenon DEF tunnelVars, TunnelsInv, ShapeInv, SlotInv, IfaceInv
  <2>2. CASE \E c \in Conn : Dial(c)
    BY <2>2, DialKeeps, Zenon
  <2>3. CASE \E c \in Conn : Break(c)
    BY <2>3, Zenon DEF Break, TunnelsInv, ShapeInv, SlotInv, IfaceInv
  <2>4. CASE \E e \in End, c \in Conn : Serve(e, c)
    BY <2>4, ServeKeeps, Zenon
  <2>5. CASE \E e \in End : Crash(e)
    BY <2>5, CrashKeeps, Zenon
  <2>6. CASE \E e \in End : SendTooLarge(e)
    <3>1. task' = task /\ slot' = slot /\ iface' = iface
      BY <2>6, Zenon DEF SendTooLarge
    <3>2. QED BY <3>1, Zenon DEF TunnelsInv, ShapeInv, SlotInv, IfaceInv
  <2>7. QED BY <2>1, <2>2, <2>3, <2>4, <2>5, <2>6, Zenon DEF TunnelsNext
<1>3. TunnelsInv => RegistryTrue
  BY Zenon DEF TunnelsInv, SlotInv, IfaceInv, RegistryTrue, SlotOf, Holding, HasIface
<1>4. QED BY <1>1, <1>2, <1>3, PTL DEF TunnelsSpec

-----------------------------------------------------------------------------
(* The overlay: s1 = task, s2 = by_peer, s3 = by_addr, s4 = kernel,        *)
(* s5 = listed, s6 = fib, s7 = sent.                                       *)

\* Routes go by way of peers.
ViaPeers(routes) ==
  \A d \in Overlays!Prefix : routes[d] # Nil => \E p \in Neighbour : routes[d] = Derived[p]

\* Both indexes lead to the same connection, and routes, set or listed, go by
\* way of peers.
OverlayInv ==
  /\ Overlays!TypeOK
  /\ \A p \in Neighbour : s3[Derived[p]] = s2[p]
  /\ ViaPeers(s4)
  /\ s5 # Nil => ViaPeers(s5)

LEMMA OverlayInit == Overlays!Init => OverlayInv
BY OverlayAssumption, Zenon DEF Overlays!Init, OverlayInv, Overlays!TypeOK, ViaPeers

LEMMA OverlayStep ==
  ASSUME OverlayInv, [Overlays!Next]_Overlays!vars
  PROVE  OverlayInv'
<1> USE OverlayAssumption
<1>1. /\ s1 \in [Link -> Neighbour \cup {Nil}] /\ s2 \in [Neighbour -> Link \cup {Nil}]
      /\ s3 \in [Addr -> Link \cup {Nil}] /\ s4 \in [Overlays!Prefix -> Addr \cup {Nil}]
      /\ s5 \in [Overlays!Prefix -> Addr \cup {Nil}] \cup {Nil}
      /\ s6 \in [Overlays!Prefix -> Addr \cup {Nil}] /\ s7 \subseteq Link
      /\ \A p \in Neighbour : s3[Derived[p]] = s2[p]
      /\ ViaPeers(s4) /\ (s5 # Nil => ViaPeers(s5))
  BY Zenon DEF OverlayInv, Overlays!TypeOK
<1>2. ASSUME NEW p \in Neighbour, NEW c \in Link, Overlays!Register(p, c)
      PROVE  OverlayInv'
  BY <1>1, <1>2, Zenon DEF OverlayInv, Overlays!TypeOK, Overlays!Register, Overlays!addr_of,
     ViaPeers
<1>3. ASSUME NEW c \in Link, Overlays!Deregister(c)
      PROVE  OverlayInv'
  BY <1>1, <1>3, Zenon DEF OverlayInv, Overlays!TypeOK, Overlays!Deregister, Overlays!addr_of,
     ViaPeers
<1>4. ASSUME NEW d \in Overlays!Prefix, Overlays!SetRoute(d)
      PROVE  OverlayInv'
  <2>1. /\ UNCHANGED <<s1, s2, s3, s5, s6, s7>>
        /\ \E a \in {Nil} \cup {Derived[p] : p \in Neighbour} : s4' = [s4 EXCEPT ![d] = a]
    BY <1>4, Zenon DEF Overlays!SetRoute, Overlays!own
  <2>2. s4' \in [Overlays!Prefix -> Addr \cup {Nil}]
    BY <1>1, <2>1
  <2>3. ViaPeers(s4')
    BY <1>1, <2>1 DEF ViaPeers
  <2>4. ViaPeers(s4)' /\ (s5 # Nil => ViaPeers(s5))'
    BY <1>1, <2>1, <2>3, Zenon DEF ViaPeers, Overlays!Prefix, Overlays!Subnet
  <2>5. QED BY <1>1, <2>1, <2>2, <2>4, Zenon DEF OverlayInv, Overlays!TypeOK
<1>5. ASSUME Overlays!fib_mirror \/ Overlays!ip_route_show
      PROVE  OverlayInv'
  <2>1. CASE Overlays!fib_mirror
    <3>1. /\ s5 # Nil /\ s5' = Nil /\ UNCHANGED <<s1, s2, s3, s4, s7>>
          /\ s6' = [d \in Overlays!Prefix |-> IF d # "default" THEN s5[d] ELSE Nil]
      BY <2>1, Zenon DEF Overlays!fib_mirror, Overlays!parse_cidr
    <3>2. s6' \in [Overlays!Prefix -> Addr \cup {Nil}]
      BY <1>1, <3>1, Zenon
    <3>3. QED BY <1>1, <3>1, <3>2, Zenon DEF OverlayInv, Overlays!TypeOK, ViaPeers
  <2>2. CASE Overlays!ip_route_show
    <3>1. s5' \in {s4, Overlays!NoRoutes} /\ UNCHANGED <<s1, s2, s3, s4, s6, s7>>
      BY <2>2, Zenon DEF Overlays!ip_route_show
    <3>2. Overlays!NoRoutes \in [Overlays!Prefix -> Addr \cup {Nil}] /\ ViaPeers(Overlays!NoRoutes)
      BY Zenon DEF Overlays!NoRoutes, ViaPeers
    <3>3. s5' \in [Overlays!Prefix -> Addr \cup {Nil}] /\ ViaPeers(s5')
      BY <1>1, <3>1, <3>2, Zenon
    <3>4. QED BY <1>1, <3>1, <3>3, Zenon DEF OverlayInv, Overlays!TypeOK, ViaPeers
  <2>3. QED BY <1>5, <2>1, <2>2, Zenon
<1>6. ASSUME NEW dest \in Overlays!Dest, Overlays!Forward(dest)
      PROVE  OverlayInv'
  <2>1. UNCHANGED <<s1, s2, s3, s4, s5, s6>>
    BY <1>6, Zenon DEF Overlays!Forward
  <2>2. Overlays!Live \subseteq Link
    BY <1>1 DEF Overlays!Live, Overlays!Range
  <2>3. Overlays!lookup(dest) \in Addr \cup {Nil}
    <3> DEFINE hits == {d \in Overlays!Prefix : s6[d] # Nil /\ Overlays!Covers(d, dest)}
               best == CHOOSE d \in hits : \A e \in hits : Overlays!Len(e) <= Overlays!Len(d)
    <3>1. ASSUME hits # {}
          PROVE  best \in hits
      <4>1. \E d \in hits : \A e \in hits : Overlays!Len(e) <= Overlays!Len(d)
        BY <3>1 DEF Overlays!Len
      <4>2. QED BY <4>1, Zenon
    <3>2. Overlays!lookup(dest) = IF hits = {} THEN Nil ELSE s6[best]
      BY Zenon DEF Overlays!lookup
    <3>3. QED BY <1>1, <3>1, <3>2
  <2>4. Overlays!next_hop(dest) \in Addr \cup {Nil}
    BY <2>3, Zenon DEF Overlays!next_hop
  <2>5. {Overlays!resolve(dest)} \ {Nil} \subseteq Link
    BY <1>1, <2>4, Zenon DEF Overlays!resolve
  <2>6. s7' \subseteq Link
    BY <1>6, <2>2, <2>5, Zenon DEF Overlays!Forward
  <2>7. QED BY <1>1, <2>1, <2>6, Zenon DEF OverlayInv, Overlays!TypeOK, ViaPeers
<1>7. CASE UNCHANGED Overlays!vars
  BY <1>1, <1>7, Zenon DEF OverlayInv, Overlays!TypeOK, Overlays!vars, ViaPeers
<1>8. QED BY <1>2, <1>3, <1>4, <1>5, <1>6, <1>7, Zenon DEF Overlays!Next

\* After a poll packets follow the routes to subnets that it has read.
LEMMA OverlayDelivers ==
  ASSUME OverlayInv, [Overlays!Next]_Overlays!vars
  PROVE  Overlays!DeliveredStep
<1> USE OverlayAssumption
<1> SUFFICES ASSUME Overlays!Polled, NEW dest \in Overlays!Subnet,
                    Overlays!ByDefault(s5, dest) => Overlays!RouteOf(s5, dest) = Nil
             PROVE  Overlays!Follows(dest)
  BY Zenon DEF Overlays!DeliveredStep
<1>1. Overlays!fib_mirror
  BY Zenon DEF Overlays!Polled, Overlays!Next, Overlays!vars, Overlays!Register,
     Overlays!Deregister, Overlays!SetRoute, Overlays!Forward, Overlays!ip_route_show
<1>2. /\ s6' = [d \in Overlays!Prefix |-> IF d # "default" THEN s5[d] ELSE Nil]
      /\ s3' = s3 /\ s5 # Nil
  BY <1>1, Zenon DEF Overlays!fib_mirror, Overlays!parse_cidr
<1>3. /\ dest \in Overlays!Prefix /\ dest # "default" /\ dest # "beyond" /\ dest # "overlay"
      /\ dest \notin Addr /\ s6'[dest] = s5[dest] /\ s6'["default"] = Nil
  BY <1>2, Zenon DEF Overlays!Prefix, Overlays!Subnet
<1> DEFINE hits == {d \in Overlays!Prefix : s6'[d] # Nil /\ Overlays!Covers(d, dest)}
           hop == Overlays!lookup(dest)'
           route == Overlays!RouteOf(s5, dest)
<1>4. hits = IF s5[dest] = Nil THEN {} ELSE {dest}
  BY <1>3, Zenon DEF Overlays!Covers
<1>5. hop = IF hits = {} THEN Nil
            ELSE s6'[CHOOSE d \in hits : \A e \in hits : Overlays!Len(e) <= Overlays!Len(d)]
  BY Zenon DEF Overlays!lookup
<1>6. hop = s5[dest]
  <2>1. CASE s5[dest] = Nil
    BY <1>4, <1>5, <2>1, Zenon
  <2>2. CASE s5[dest] # Nil
    <3>1. (CHOOSE d \in {dest} : \A e \in {dest} : Overlays!Len(e) <= Overlays!Len(d)) = dest
      BY DEF Overlays!Len
    <3>2. hits = {dest} /\ hits # {}
      BY <1>4, <2>2, Zenon
    <3>3. QED BY <1>3, <1>5, <3>1, <3>2, Zenon
  <2>3. QED BY <2>1, <2>2, Zenon
<1>7. Overlays!resolve(dest)' = IF hop = Nil THEN Nil ELSE s3[hop]
  BY <1>2, <1>3, Zenon DEF Overlays!resolve, Overlays!next_hop
<1>8. route = s5[dest]
  <2>1. CASE s5[dest] = Nil
    BY <2>1, Zenon DEF Overlays!ByDefault
  <2>2. CASE s5[dest] # Nil
    BY <1>3, <2>2, Zenon DEF Overlays!RouteOf, Overlays!ByDefault
  <2>3. QED BY <2>1, <2>2, Zenon
<1>9. Overlays!Follows(dest) <=>
        Overlays!resolve(dest)' = IF \E p \in Neighbour : Derived[p] = route
                                    THEN s2[CHOOSE p \in Neighbour : Derived[p] = route] ELSE Nil
  BY Zenon DEF Overlays!Follows, Overlays!Via, Overlays!own
<1> HIDE DEF hits, hop, route
<1>10. CASE s5[dest] = Nil
  BY <1>6, <1>7, <1>8, <1>9, <1>10, Zenon
<1>11. CASE s5[dest] # Nil
  <2>1. PICK p \in Neighbour : s5[dest] = Derived[p]
    BY <1>2, <1>3, <1>11, Zenon DEF OverlayInv, ViaPeers
  <2>2. (CHOOSE q \in Neighbour : Derived[q] = Derived[p]) = p
    BY Zenon
  <2>3. s3[Derived[p]] = s2[p]
    BY Zenon DEF OverlayInv
  <2>4. QED BY <1>6, <1>7, <1>8, <1>9, <1>11, <2>1, <2>2, <2>3, Zenon
<1>12. QED BY <1>10, <1>11, Zenon

-----------------------------------------------------------------------------
(* The responder: s1 = gateway, s2 = book, s3 = stale, s4 = leased,        *)
(* s5 = query, s6 = pc, s7 = got, s8 = reply, s9 = held, s10 = during.     *)

Queries == [name : Dns!Name, type : Dns!QType]
ReplyKind == {"data", "nodata", "nxdomain"}

\* What the directory and the leases hold for a name.
Entered(n) == IF n \in Published THEN s2[n] ELSE Nil
Lent(n) == IF n \in Leasable THEN s4[n] ELSE Nil

Alive(b, s) == b # Nil /\ b.owner \notin s
Serves(b, s, q) == Alive(b, s) /\ q.type \in b.has

\* The right answer to q, whose name is not well-known, from an entry b, the
\* silent owners s and a lease l.
RightIn(b, s, l, q) ==
  IF Serves(b, s, q) THEN Dns!Data(b)
  ELSE IF l # Nil /\ q.type \in l.has THEN Dns!Data(l)
  ELSE IF Alive(b, s) \/ l # Nil THEN Dns!NODATA ELSE Dns!NXDOMAIN

\* At most one of the tables is not as it was.
OneApart(b, s, l) ==
  /\ b = Entered(s5.name) \/ (s = s3 /\ l = Lent(s5.name))
  /\ s = s3 \/ (b = Entered(s5.name) /\ l = Lent(s5.name))
  /\ l = Lent(s5.name) \/ (b = Entered(s5.name) /\ s = s3)

\* The tables held b, s and l for the name in question at a moment of the query.
Moment(b, s, l) ==
  /\ RightIn(b, s, l, s5) \in s9
  /\ OneApart(b, s, l)
  /\ s10 = 0 => b = Entered(s5.name) /\ s = s3 /\ l = Lent(s5.name)

\* What was read so far (x, before step pc) was read then or could be read now.
Fits(pc, x, b, s) ==
  /\ pc \in {"owner", "owner exists"} => x # Nil /\ x \in {b, Entered(s5.name)}
  /\ pc = "leased" => ~Serves(b, s, s5) \/ ~Serves(Entered(s5.name), s3, s5)
  /\ pc = "leased exists" => ~Alive(b, s) \/ ~Alive(Entered(s5.name), s3)

Past(b, s, l) == Moment(b, s, l) /\ Fits(s6, s7, b, s)

Looking == {"well known", "book", "owner", "leased", "exists", "owner exists",
            "leased exists", "reply"}
Entries == Dns!Entry \cup {Nil}
Loans == Dns!Lease \cup {Nil}

DnsTypes ==
  /\ s1 \in Gateway \cup {Nil} /\ s2 \in [Published -> Entries]
  /\ s3 \subseteq Owner /\ s4 \in [Leasable -> Loans]
  /\ s5 \in Queries \cup {Nil} /\ (s5 = Nil <=> s6 = "recv")
  /\ s6 \in Looking \cup {"recv"}
  /\ s6 = "reply" => s7.kind \in ReplyKind
  /\ s6 \in {"owner", "owner exists", "leased exists"} => s5.name \notin WellKnown
  /\ s8.kind \in ReplyKind /\ s10 \in Nat

\* The answer is right, or one change away from right.
Answering ==
  s5 # Nil /\ s10 <= 1 =>
    /\ Dns!Right(s5) \in s9
    /\ s6 = "reply" => s7.kind = "nodata" \/ s7 \in s9
    /\ s5.name \notin WellKnown =>
         \E b \in Entries, s \in SUBSET Owner, l \in Loans : Past(b, s, l)

DnsInv == DnsTypes /\ Answering

LEMMA DnsInit == Dns!Init => DnsInv
BY DEF Dns!Init, Dns!NXDOMAIN, DnsInv, DnsTypes, Answering, ReplyKind, Looking, Entries, Loans

\* The reference answer is that of the name's entry and lease.
LEMMA RightNow ==
  ASSUME NEW q \in Queries, q.name \notin WellKnown
  PROVE  /\ Dns!Right(q) = RightIn(Entered(q.name), s3, Lent(q.name), q)
         /\ Dns!Right(q)' = RightIn(Entered(q.name)', s3', Lent(q.name)', q)
<1>1. Dns!Right(q) = RightIn(Entered(q.name), s3, Lent(q.name), q)
  BY Zenon DEF Dns!Right, RightIn, Serves, Alive, Entered, Lent
<1>2. Dns!Right(q)' = RightIn(Entered(q.name)', s3', Lent(q.name)', q)
  BY Zenon DEF Dns!Right, RightIn, Serves, Alive, Entered, Lent
<1>3. QED BY <1>1, <1>2, Zenon

LEMMA HeldTyped ==
  ASSUME DnsTypes, NEW n
  PROVE  Entered(n) \in Entries /\ Lent(n) \in Loans
BY Zenon DEF DnsTypes, Entered, Lent, Entries, Loans

\* A step of the query reads a table and leaves everything else alone.
LEMMA GoesKeeps ==
  ASSUME DnsInv, s5 # Nil, NEW next \in Looking, NEW x, Dns!Goes(next, x),
         next = "reply" => x.kind \in ReplyKind,
         next \in {"owner", "owner exists", "leased exists"} => s5.name \notin WellKnown,
         s10 <= 1 /\ next = "reply" => x.kind = "nodata" \/ x \in s9,
         s10 <= 1 /\ s5.name \notin WellKnown =>
           \A b \in Entries, s \in SUBSET Owner, l \in Loans : Past(b, s, l) => Fits(next, x, b, s)
  PROVE  DnsInv'
<1>1. s6' = next /\ s7' = x /\ UNCHANGED <<s1, s2, s3, s4, s5, s8, s9, s10>>
  BY Zenon DEF Dns!Goes, Dns!tables
<1>2. DnsTypes'
  BY <1>1, Zenon DEF DnsInv, DnsTypes, Looking
<1>3. ASSUME s10 <= 1
      PROVE  /\ Dns!Right(s5)' \in s9
             /\ next = "reply" => x.kind = "nodata" \/ x \in s9
  <2>1. Dns!Right(s5)' = Dns!Right(s5)
    BY <1>1, Zenon DEF Dns!Right, Dns!current_gateway
  <2>2. QED BY <1>3, <2>1, Zenon DEF DnsInv, Answering
<1>4. ASSUME s10 <= 1, s5.name \notin WellKnown
      PROVE  \E b \in Entries, s \in SUBSET Owner, l \in Loans : Past(b, s, l)'
  <2>1. PICK b \in Entries, s \in SUBSET Owner, l \in Loans : Past(b, s, l)
    BY <1>4, Zenon DEF DnsInv, Answering
  <2>2. Moment(b, s, l) /\ Fits(next, x, b, s)
    BY <1>4, <2>1, Zenon DEF Past
  <2>3. Moment(b, s, l)'
    BY <1>1, <2>2, Zenon DEF Moment, OneApart, Entered, Lent
  <2>4. Fits(s6, s7, b, s)'
    BY <1>1, <2>2, Zenon DEF Fits, Entered
  <2>5. QED BY <2>3, <2>4, Zenon DEF Past
<1>5. Answering'
  BY <1>1, <1>3, <1>4, Zenon DEF Answering
<1>6. QED BY <1>2, <1>5, Zenon DEF DnsInv

LEMMA WellKnownKeeps ==
  ASSUME DnsInv, Dns!WellKnownTable
  PROVE  DnsInv'
<1>1. s5 # Nil /\ s6 = "well known"
  BY Zenon DEF DnsInv, DnsTypes, Dns!WellKnownTable
<1>2. CASE s5.name \in WellKnown /\ s5.type = "A"
  <2> DEFINE x == Dns!Data(Dns!current_gateway)
  <2>1. Dns!Goes("reply", x) /\ Dns!Right(s5) = x /\ x.kind = "data"
    BY <1>2, Zenon DEF Dns!WellKnownTable, Dns!Right, Dns!Data
  <2>2. s10 <= 1 => x \in s9
    BY <1>1, <2>1, Zenon DEF DnsInv, Answering
  <2>3. \A b, s : Fits("reply", x, b, s)
    BY Zenon DEF Fits
  <2> HIDE DEF x
  <2>4. QED BY <1>1, <2>1, <2>2, <2>3, GoesKeeps, Zenon DEF Looking, ReplyKind
<1>3. CASE ~(s5.name \in WellKnown /\ s5.type = "A")
  <2>1. Dns!Goes("book", Nil)
    BY <1>3, Zenon DEF Dns!WellKnownTable
  <2>2. \A b, s : Fits("book", Nil, b, s)
    BY Zenon DEF Fits
  <2>3. QED BY <1>1, <2>1, <2>2, GoesKeeps, Zenon DEF Looking
<1>4. QED BY <1>2, <1>3, Zenon

LEMMA ServiceReadKeeps ==
  ASSUME DnsInv, Dns!ServiceRead
  PROVE  DnsInv'
<1> DEFINE n == s5.name
           found == n \in Published /\ s2[n] # Nil
<1>1. s5 # Nil /\ s6 \in {"book", "exists"}
  BY Zenon DEF DnsInv, DnsTypes, Dns!ServiceRead
<1>2. CASE s6 = "exists" /\ n \in WellKnown
  <2> DEFINE x == Dns!NODATA
  <2>1. Dns!Goes("reply", x) /\ x.kind = "nodata"
    BY <1>2, Zenon DEF Dns!ServiceRead, Dns!NODATA
  <2>2. \A b, s : Fits("reply", x, b, s)
    BY Zenon DEF Fits
  <2> HIDE DEF x
  <2>3. QED BY <1>1, <2>1, <2>2, GoesKeeps, Zenon DEF Looking, ReplyKind
<1>3. CASE ~(s6 = "exists" /\ n \in WellKnown) /\ found
  <2> DEFINE next == IF s6 = "book" THEN "owner" ELSE "owner exists"
             x == s2[n]
  <2>1. Dns!Goes(next, x)
    BY <1>3, Zenon DEF Dns!ServiceRead
  <2>2. n \notin WellKnown /\ x # Nil /\ x = Entered(n)
    BY <1>3, ResponderAssumption, Zenon DEF Entered
  <2>3. \A b, s : Fits(next, x, b, s)
    BY <2>2, Zenon DEF Fits
  <2>4. next \in Looking /\ next # "reply"
    BY Zenon DEF Looking
  <2> HIDE DEF x, next
  <2>5. QED BY <1>1, <2>1, <2>2, <2>3, <2>4, GoesKeeps, Zenon
<1>4. CASE ~(s6 = "exists" /\ n \in WellKnown) /\ ~found
  <2> DEFINE next == IF s6 = "book" THEN "leased" ELSE "leased exists"
  <2>1. Dns!Goes(next, Nil)
    BY <1>4, Zenon DEF Dns!ServiceRead
  <2>2. Entered(n) = Nil
    BY <1>4, Zenon DEF Entered
  <2>3. \A b, s : Fits(next, Nil, b, s)
    BY <2>2, Zenon DEF Fits, Serves, Alive
  <2>4. next \in Looking /\ next # "reply" /\ next \notin {"owner", "owner exists"}
        /\ (next = "leased exists" => n \notin WellKnown)
    BY <1>1, <1>4, Zenon DEF Looking
  <2> HIDE DEF next
  <2>5. QED BY <1>1, <2>1, <2>3, <2>4, GoesKeeps, Zenon
<1>5. QED BY <1>2, <1>3, <1>4, Zenon

\* What was read of the directory fits the owners that are silent now.
LEMMA OwnerFits ==
  ASSUME NEW b, NEW s, NEW l, Past(b, s, l), s6 \in {"owner", "owner exists"}
  PROVE  /\ s7 # Nil
         /\ (s7 = b /\ s = s3) \/ s7 = Entered(s5.name)
BY Zenon DEF Past, Moment, Fits, OneApart

LEMMA OwnerStaleKeeps ==
  ASSUME DnsInv, Dns!owner_stale
  PROVE  DnsInv'
<1>1. s5 # Nil /\ s6 \in {"owner", "owner exists"} /\ s5.name \notin WellKnown /\ s5 \in Queries
  BY Zenon DEF DnsInv, DnsTypes, Dns!owner_stale
<1>2. CASE s7.owner \in s3 \/ (s6 = "owner" /\ s5.type \notin s7.has)
  <2> DEFINE next == IF s6 = "owner" THEN "leased" ELSE "leased exists"
  <2>1. Dns!Goes(next, Nil)
    BY <1>1, <1>2, Zenon DEF Dns!owner_stale
  <2>2. next \in Looking /\ next # "reply" /\ next \notin {"owner", "owner exists"}
    BY Zenon DEF Looking
  <2>3. ASSUME NEW b \in Entries, NEW s \in SUBSET Owner, NEW l \in Loans, Past(b, s, l)
        PROVE  Fits(next, Nil, b, s)
    <3>1. s7 # Nil /\ ((s7 = b /\ s = s3) \/ s7 = Entered(s5.name))
      BY <1>1, <2>3, OwnerFits, Zenon
    <3>2. CASE s6 = "owner"
      BY <1>2, <3>1, <3>2, Zenon DEF Fits, Serves, Alive
    <3>3. CASE s6 # "owner"
      BY <1>2, <3>1, <3>3, Zenon DEF Fits, Serves, Alive
    <3>4. QED BY <3>2, <3>3, Zenon
  <2> HIDE DEF next
  <2>4. QED BY <1>1, <2>1, <2>2, <2>3, GoesKeeps, Zenon
<1>3. CASE s7.owner \notin s3 /\ s6 = "owner exists"
  <2> DEFINE x == Dns!NODATA
  <2>1. Dns!Goes("reply", x) /\ x.kind = "nodata"
    BY <1>3, Zenon DEF Dns!owner_stale, Dns!NODATA
  <2>2. \A b, s : Fits("reply", x, b, s)
    BY Zenon DEF Fits
  <2> HIDE DEF x
  <2>3. QED BY <1>1, <2>1, <2>2, GoesKeeps, Zenon DEF Looking, ReplyKind
<1>4. CASE s7.owner \notin s3 /\ s6 = "owner" /\ s5.type \in s7.has
  <2> DEFINE x == Dns!Data(s7)
  <2>1. Dns!Goes("reply", x) /\ x.kind = "data"
    BY <1>4, Zenon DEF Dns!owner_stale, Dns!Data
  <2>2. ASSUME s10 <= 1
        PROVE  x \in s9
    <3>1. PICK b \in Entries, s \in SUBSET Owner, l \in Loans : Past(b, s, l)
      BY <1>1, <2>2, Zenon DEF DnsInv, Answering
    <3>2. s7 # Nil /\ ((s7 = b /\ s = s3) \/ s7 = Entered(s5.name))
      BY <1>1, <3>1, OwnerFits, Zenon
    <3>3. CASE s7 = b /\ s = s3
      <4>1. RightIn(b, s, l, s5) = x
        BY <1>4, <3>2, <3>3, Zenon DEF RightIn, Serves, Alive
      <4>2. QED BY <3>1, <4>1, Zenon DEF Past, Moment
    <3>4. CASE s7 = Entered(s5.name)
      <4>1. RightIn(Entered(s5.name), s3, Lent(s5.name), s5) = x
        BY <1>4, <3>2, <3>4, Zenon DEF RightIn, Serves, Alive
      <4>2. Dns!Right(s5) = x
        BY <1>1, <4>1, RightNow, Zenon
      <4>3. QED BY <1>1, <2>2, <4>2, Zenon DEF DnsInv, Answering
    <3>5. QED BY <3>2, <3>3, <3>4, Zenon
  <2>3. \A b, s : Fits("reply", x, b, s)
    BY Zenon DEF Fits
  <2> HIDE DEF x
  <2>4. QED BY <1>1, <2>1, <2>2, <2>3, GoesKeeps, Zenon DEF Looking, ReplyKind
<1>5. QED BY <1>1, <1>2, <1>3, <1>4, Zenon

LEMMA LeasedNameKeeps ==
  ASSUME DnsInv, Dns!LeasedNameTable
  PROVE  DnsInv'
<1> DEFINE n == s5.name
           found == n \in Leasable /\ s4[n] # Nil
<1>1. s5 # Nil /\ s6 \in {"leased", "leased exists"} /\ s5 \in Queries
  BY Zenon DEF DnsInv, DnsTypes, Dns!LeasedNameTable
<1>2. CASE s6 = "leased exists" /\ found
  <2> DEFINE x == Dns!NODATA
  <2>1. Dns!Goes("reply", x) /\ x.kind = "nodata"
    BY <1>2, Zenon DEF Dns!LeasedNameTable, Dns!NODATA
  <2>2. \A b, s : Fits("reply", x, b, s)
    BY Zenon DEF Fits
  <2> HIDE DEF x
  <2>3. QED BY <1>1, <2>1, <2>2, GoesKeeps, Zenon DEF Looking, ReplyKind
<1>3. CASE s6 = "leased exists" /\ ~found
  <2> DEFINE x == Dns!NXDOMAIN
  <2>1. Dns!Goes("reply", x) /\ x.kind = "nxdomain"
    BY <1>3, Zenon DEF Dns!LeasedNameTable, Dns!NXDOMAIN
  <2>2. ASSUME s10 <= 1
        PROVE  x \in s9
    <3>1. n \notin WellKnown /\ Lent(n) = Nil
      BY <1>3, Zenon DEF DnsInv, DnsTypes, Lent
    <3>2. PICK b \in Entries, s \in SUBSET Owner, l \in Loans : Past(b, s, l)
      BY <1>1, <2>2, <3>1, Zenon DEF DnsInv, Answering
    <3>3. \/ ~Alive(Entered(n), s3)
          \/ ~Alive(b, s) /\ l = Nil
      BY <1>3, <3>1, <3>2, Zenon DEF Past, Moment, Fits, OneApart
    <3>4. CASE ~Alive(Entered(n), s3)
      <4>1. RightIn(Entered(n), s3, Lent(n), s5) = x
        BY <3>1, <3>4, Zenon DEF RightIn, Serves
      <4>2. Dns!Right(s5) = x
        BY <1>1, <3>1, <4>1, RightNow, Zenon
      <4>3. QED BY <1>1, <2>2, <4>2, Zenon DEF DnsInv, Answering
    <3>5. CASE ~Alive(b, s) /\ l = Nil
      <4>1. RightIn(b, s, l, s5) = x
        BY <3>5, Zenon DEF RightIn, Serves
      <4>2. QED BY <3>2, <4>1, Zenon DEF Past, Moment
    <3>6. QED BY <3>3, <3>4, <3>5, Zenon
  <2>3. \A b, s : Fits("reply", x, b, s)
    BY Zenon DEF Fits
  <2> HIDE DEF x
  <2>4. QED BY <1>1, <2>1, <2>2, <2>3, GoesKeeps, Zenon DEF Looking, ReplyKind
<1>4. CASE s6 = "leased" /\ found /\ s5.type \in s4[n].has
  <2> DEFINE x == Dns!Data(s4[n])
  <2>1. Dns!Goes("reply", x) /\ x.kind = "data"
    BY <1>4, Zenon DEF Dns!LeasedNameTable, Dns!Data
  <2>2. ASSUME s10 <= 1
        PROVE  x \in s9
    <3>1. n \notin WellKnown /\ Lent(n) = s4[n] /\ Lent(n) # Nil /\ s5.type \in Lent(n).has
      BY <1>4, ResponderAssumption, Zenon DEF Lent
    <3>2. PICK b \in Entries, s \in SUBSET Owner, l \in Loans : Past(b, s, l)
      BY <1>1, <2>2, <3>1, Zenon DEF DnsInv, Answering
    <3>3. \/ ~Serves(Entered(n), s3, s5)
          \/ ~Serves(b, s, s5) /\ l = Lent(n)
      BY <1>4, <3>2, Zenon DEF Past, Moment, Fits, OneApart
    <3>4. CASE ~Serves(Entered(n), s3, s5)
      <4>1. RightIn(Entered(n), s3, Lent(n), s5) = x
        BY <3>1, <3>4, Zenon DEF RightIn
      <4>2. Dns!Right(s5) = x
        BY <1>1, <3>1, <4>1, RightNow, Zenon
      <4>3. QED BY <1>1, <2>2, <4>2, Zenon DEF DnsInv, Answering
    <3>5. CASE ~Serves(b, s, s5) /\ l = Lent(n)
      <4>1. RightIn(b, s, l, s5) = x
        BY <3>1, <3>5, Zenon DEF RightIn
      <4>2. QED BY <3>2, <4>1, Zenon DEF Past, Moment
    <3>6. QED BY <3>3, <3>4, <3>5, Zenon
  <2>3. \A b, s : Fits("reply", x, b, s)
    BY Zenon DEF Fits
  <2> HIDE DEF x
  <2>4. QED BY <1>1, <2>1, <2>2, <2>3, GoesKeeps, Zenon DEF Looking, ReplyKind
<1>5. CASE s6 = "leased" /\ ~(found /\ s5.type \in s4[n].has)
  <2>1. Dns!Goes("exists", Nil)
    BY <1>5, Zenon DEF Dns!LeasedNameTable
  <2>2. \A b, s : Fits("exists", Nil, b, s)
    BY Zenon DEF Fits
  <2>3. QED BY <1>1, <2>1, <2>2, GoesKeeps, Zenon DEF Looking
<1>6. QED BY <1>1, <1>2, <1>3, <1>4, <1>5, Zenon

\* A query that comes finds the tables as they are.
LEMMA RecvKeeps ==
  ASSUME DnsInv, NEW q \in Queries, Dns!recv_loop(q)
  PROVE  DnsInv'
<1>1. /\ s5' = q /\ s6' = "well known" /\ s9' = {Dns!Right(q)} /\ s10' = 0
      /\ UNCHANGED <<s1, s2, s3, s4, s8>>
  BY Zenon DEF Dns!recv_loop, Dns!tables
<1>2. q # Nil
  BY ResponderAssumption, Zenon DEF Queries
<1>3. DnsTypes'
  BY <1>1, <1>2, Zenon DEF DnsInv, DnsTypes, Looking
<1>4. Dns!Right(s5)' = Dns!Right(q)
  BY <1>1, Zenon DEF Dns!Right, Dns!current_gateway
<1>5. ASSUME q.name \notin WellKnown
      PROVE  \E b \in Entries, s \in SUBSET Owner, l \in Loans : Past(b, s, l)'
  <2>1. PICK b \in Entries, s \in SUBSET Owner, l \in Loans :
          b = Entered(q.name) /\ s = s3 /\ l = Lent(q.name)
    BY HeldTyped, Zenon DEF DnsInv, DnsTypes
  <2>2. RightIn(b, s, l, q) = Dns!Right(q)
    BY <1>5, <2>1, RightNow, Zenon
  <2>3. b = Entered(s5.name)' /\ s = s3' /\ l = Lent(s5.name)'
    BY <1>1, <2>1, Zenon DEF Entered, Lent
  <2>4. Moment(b, s, l)'
    <3>1. RightIn(b, s, l, s5') \in s9'
      BY <1>1, <2>2, Zenon
    <3>2. QED BY <2>3, <3>1, Zenon DEF Moment, OneApart
  <2>5. Fits(s6, s7, b, s)'
    BY <1>1, Zenon DEF Fits
  <2>6. Past(b, s, l)'
    BY <2>4, <2>5, Zenon DEF Past
  <2>7. QED BY <2>6, Zenon
<1>6. Answering'
  BY <1>1, <1>4, <1>5, Zenon DEF Answering
<1>7. QED BY <1>3, <1>6, Zenon DEF DnsInv

\* A change of one table: what was held before it is the moment to go back to.
LEMMA ChangeKeeps ==
  ASSUME DnsInv, DnsTypes', UNCHANGED <<s5, s6, s7, s8>>, Dns!Remember,
         NEW n, s5 # Nil => n = s5.name,
         \/ UNCHANGED <<s3, Entered(n), Lent(n)>>
         \/ UNCHANGED <<s3, Lent(n)>>
         \/ UNCHANGED <<Entered(n), Lent(n)>>
         \/ UNCHANGED <<s3, Entered(n)>>
  PROVE  DnsInv'
<1>1. SUFFICES ASSUME s5 # Nil, s10' <= 1
               PROVE  /\ Dns!Right(s5)' \in s9'
                      /\ s6 = "reply" => s7.kind = "nodata" \/ s7 \in s9'
                      /\ s5.name \notin WellKnown =>
                           \E b \in Entries, s \in SUBSET Owner, l \in Loans : Past(b, s, l)'
  BY Zenon DEF DnsInv, Answering
<1>2. s9' = s9 \cup {Dns!Right(s5)'} /\ s10' = s10 + 1 /\ s10 = 0 /\ s10 <= 1
  <2>1. s9' = s9 \cup {Dns!Right(s5)'} /\ s10' = s10 + 1
    BY <1>1, Zenon DEF Dns!Remember
  <2>2. s10 \in Nat
    BY Zenon DEF DnsInv, DnsTypes
  <2>3. QED BY <1>1, <2>1, <2>2
<1>3. s6 = "reply" => s7.kind = "nodata" \/ s7 \in s9'
  BY <1>1, <1>2, Zenon DEF DnsInv, Answering
<1>4. ASSUME s5.name \notin WellKnown
      PROVE  \E b \in Entries, s \in SUBSET Owner, l \in Loans : Past(b, s, l)'
  <2>1. PICK b \in Entries, s \in SUBSET Owner, l \in Loans : Past(b, s, l)
    BY <1>1, <1>2, <1>4, Zenon DEF DnsInv, Answering
  <2>2. b = Entered(n) /\ s = s3 /\ l = Lent(n) /\ RightIn(b, s, l, s5) \in s9
    BY <1>1, <1>2, <2>1, Zenon DEF Past, Moment
  <2>3. n = s5.name /\ n = s5'.name /\ s5' = s5
    BY <1>1, Zenon
  <2>4. OneApart(b, s, l)'
    <3>1. /\ b = Entered(n)' \/ (s = s3' /\ l = Lent(n)')
          /\ s = s3' \/ (b = Entered(n)' /\ l = Lent(n)')
          /\ l = Lent(n)' \/ (b = Entered(n)' /\ s = s3')
      BY <2>2, Zenon
    <3>2. Entered(n)' = Entered(s5.name)' /\ Lent(n)' = Lent(s5.name)'
      BY <2>3, Zenon DEF Entered, Lent
    <3>3. QED BY <3>1, <3>2, Zenon DEF OneApart
  <2>5. Moment(b, s, l)'
    <3>1. RightIn(b, s, l, s5)' = RightIn(b, s, l, s5)
      BY <2>3, Zenon DEF RightIn, Serves
    <3>2. s10' # 0
      BY <1>2
    <3>3. QED BY <1>2, <2>2, <2>4, <3>1, <3>2, Zenon DEF Moment
  <2>6. Fits(s6, s7, b, s)'
    <3>1. Fits(s6, s7, b, s)
      BY <2>1, Zenon DEF Past
    <3>2. QED BY <2>2, <2>3, <3>1, Zenon DEF Fits, Serves
  <2>7. Past(b, s, l)'
    BY <2>5, <2>6, Zenon DEF Past
  <2>8. QED BY <2>7, Zenon
<1>5. QED BY <1>2, <1>3, <1>4, Zenon

LEMMA ChangesKeep ==
  ASSUME DnsInv,
         \/ Dns!Change(Dns!Gateways) \/ Dns!Change(Dns!Services)
         \/ Dns!Change(Dns!Beacons) \/ Dns!Change(Dns!Leases)
  PROVE  DnsInv'
<1> DEFINE n == s5.name
<1>1. UNCHANGED <<s5, s6, s7, s8>> /\ Dns!Remember
  BY Zenon DEF Dns!Change
<1>2. s10' \in Nat
  <2>1. s10' = 0 \/ s10' = s10 + 1
    BY <1>1, Zenon DEF Dns!Remember
  <2>2. s10 \in Nat
    BY Zenon DEF DnsInv, DnsTypes
  <2>3. QED BY <2>1, <2>2
<1>3. CASE Dns!Gateways
  <2>1. DnsTypes'
    BY <1>1, <1>2, <1>3, Zenon DEF DnsInv, DnsTypes, Dns!Gateways
  <2>2. UNCHANGED <<s3, Entered(n), Lent(n)>>
    BY <1>1, <1>3, Zenon DEF Dns!Gateways, Entered, Lent
  <2> HIDE DEF n
  <2>3. QED BY <1>1, <2>1, <2>2, ChangeKeeps, Zenon DEF n
<1>4. CASE Dns!Services
  <2>1. DnsTypes'
    BY <1>1, <1>2, <1>4, Zenon DEF DnsInv, DnsTypes, Dns!Services, Entries
  <2>2. UNCHANGED <<s3, Lent(n)>>
    BY <1>1, <1>4, Zenon DEF Dns!Services, Lent
  <2> HIDE DEF n
  <2>3. QED BY <1>1, <2>1, <2>2, ChangeKeeps, Zenon DEF n
<1>5. CASE Dns!Beacons
  <2>1. DnsTypes'
    BY <1>1, <1>2, <1>5, Zenon DEF DnsInv, DnsTypes, Dns!Beacons
  <2>2. UNCHANGED <<Entered(n), Lent(n)>>
    BY <1>1, <1>5, Zenon DEF Dns!Beacons, Entered, Lent
  <2> HIDE DEF n
  <2>3. QED BY <1>1, <2>1, <2>2, ChangeKeeps, Zenon DEF n
<1>6. CASE Dns!Leases
  <2>1. DnsTypes'
    BY <1>1, <1>2, <1>6, Zenon DEF DnsInv, DnsTypes, Dns!Leases, Loans
  <2>2. UNCHANGED <<s3, Entered(n)>>
    BY <1>1, <1>6, Zenon DEF Dns!Leases, Entered
  <2> HIDE DEF n
  <2>3. QED BY <1>1, <2>1, <2>2, ChangeKeeps, Zenon DEF n
<1>7. QED BY <1>3, <1>4, <1>5, <1>6, Zenon DEF Dns!Change

LEMMA DnsStep ==
  ASSUME DnsInv, [Dns!Next]_Dns!vars
  PROVE  DnsInv'
<1>1. ASSUME Dns!handle_query PROVE DnsInv'
  <2>1. s5' = Nil /\ s6' = "recv" /\ s10' = 0 /\ s8' \in {s7, s8} /\ UNCHANGED <<s1, s2, s3, s4>>
    BY <1>1, Zenon DEF Dns!handle_query, Dns!tables
  <2>2. s7.kind \in ReplyKind
    BY <1>1, Zenon DEF DnsInv, DnsTypes, Dns!handle_query
  <2>3. DnsTypes'
    BY <2>1, <2>2, Zenon DEF DnsInv, DnsTypes
  <2>4. QED BY <2>1, <2>3, Zenon DEF DnsInv, Answering
<1>2. ASSUME UNCHANGED Dns!vars PROVE DnsInv'
  <2>1. UNCHANGED <<s1, s2, s3, s4, s5, s6, s7, s8, s9, s10>>
    BY <1>2, Zenon DEF Dns!vars, Dns!tables
  <2>2. DnsTypes'
    BY <2>1, Zenon DEF DnsInv, DnsTypes
  <2>3. Dns!Right(s5)' = Dns!Right(s5)
    BY <2>1, Zenon DEF Dns!Right, Dns!current_gateway
  <2>4. ASSUME NEW b, NEW s, NEW l, Past(b, s, l)
        PROVE  Past(b, s, l)'
    <3>1. Moment(b, s, l)'
      BY <2>1, <2>4, Zenon DEF Past, Moment, OneApart, Entered, Lent
    <3>2. Fits(s6, s7, b, s)'
      BY <2>1, <2>4, Zenon DEF Past, Fits, Entered
    <3>3. QED BY <3>1, <3>2, Zenon DEF Past
  <2>5. Answering'
    BY <2>1, <2>3, <2>4, Zenon DEF DnsInv, Answering
  <2>6. QED BY <2>2, <2>5, Zenon DEF DnsInv
<1>3. QED BY <1>1, <1>2, ChangesKeep, RecvKeeps, WellKnownKeeps, ServiceReadKeeps,
             OwnerStaleKeeps, LeasedNameKeeps, Zenon DEF Dns!Next, Queries

LEMMA DnsHolds ==
  ASSUME DnsInv
  PROVE  Dns!TypeOK /\ Dns!AnswerWasRight
<1>1. Dns!TypeOK
  BY Zenon DEF DnsInv, DnsTypes, Dns!TypeOK, Entries, Loans, ReplyKind
<1>2. Dns!AnswerWasRight
  BY Zenon DEF DnsInv, DnsTypes, Answering, Dns!AnswerWasRight
<1>3. QED BY <1>1, <1>2, Zenon

-----------------------------------------------------------------------------
(* The parts.                                                              *)

NetworkInv == /\ part = "overlay" => OverlayInv
              /\ part = "responder" => DnsInv

LEMMA NetworkStart == NetworkInit => NetworkInv
BY OverlayInit, DnsInit, Zenon DEF NetworkInit, NetworkInv

LEMMA NetworkStep ==
  ASSUME NetworkInv, [NetworkNext]_<<part, slots>>
  PROVE  NetworkInv' /\ (part = "overlay" => Overlays!DeliveredStep)
<1>1. /\ part' = part
      /\ part = "overlay" => [Overlays!Next]_Overlays!vars
      /\ part = "responder" => [Dns!Next]_Dns!vars
  BY Zenon DEF NetworkNext, slots, Overlays!vars, Dns!vars, Dns!tables
<1>2. QED BY <1>1, OverlayStep, OverlayDelivers, DnsStep, Zenon DEF NetworkInv

\* After each poll of the kernel's routes packets for a client subnet go to the
\* neighbour that babeld chose, or nowhere (fib_mirror, Fib::lookup, resolve).
THEOREM PacketsDelivered == NetworkSpec => Delivered
BY NetworkStart, NetworkStep, PTL DEF NetworkSpec, Delivered

\* What the responder answers was right at some moment of the query, although
\* the tables it reads one after the other change meanwhile (CompositeTable,
\* handle_query).
THEOREM AnswersRight == NetworkSpec => []AnswerWasRight
<1>1. NetworkInv => AnswerWasRight
  BY DnsHolds, Zenon DEF NetworkInv, AnswerWasRight
<1>2. QED BY <1>1, NetworkStart, NetworkStep, PTL DEF NetworkSpec

\* The tables of the overlay (ConnManager, Fib) and what a query holds
\* (CompositeTable) keep their types.
THEOREM NetworkTypes == NetworkSpec => []NetworkTypeOK
<1>1. NetworkInv => NetworkTypeOK
  BY DnsHolds, Zenon DEF NetworkInv, OverlayInv, NetworkTypeOK
<1>2. QED BY <1>1, NetworkStart, NetworkStep, PTL DEF NetworkSpec

-----------------------------------------------------------------------------
(* The liveness tracker.                                                   *)

CONSTANTS Node, Stale, HardExpiry, Fragile, MaxBeacons, MaxBoots
VARIABLES up, incarnation, counter, sent, seen, boots

Live == INSTANCE Liveness

\* What the proof assumes of the constants.
LivenessParams ==
  /\ Stale \in Nat /\ HardExpiry \in Nat /\ MaxBeacons \in [Node -> Nat] /\ MaxBoots \in Nat
  /\ None \notin Live!Seen

\* A beacon, and the order in which a node sends them.
Beacon == [incarnation : Nat, counter : Nat, egress : Live!Egress]
Before(b, c) ==
  \/ b.incarnation < c.incarnation
  \/ b.incarnation = c.incarnation /\ b.counter < c.counter

\* What a node has sent, in order, all of it before its next beacon.
SentInv(n) ==
  /\ sent[n] \in Seq(Beacon)
  /\ \A i, j \in DOMAIN sent[n] : i < j => Before(sent[n][i], sent[n][j])
  /\ \A i \in DOMAIN sent[n] :
       \/ sent[n][i].incarnation < incarnation[n]
       \/ sent[n][i].incarnation = incarnation[n] /\ sent[n][i].counter < counter[n]
  /\ counter[n] <= Len(sent[n]) /\ Len(sent[n]) <= MaxBeacons[n]
  /\ incarnation[n] >= 1 /\ incarnation[n] <= boots + 1

\* Entry s of a tracker was made from beacon b.
From(s, b) == s.incarnation = b.incarnation /\ s.counter = b.counter /\ s.egress = b.egress

\* What a node holds of another was made from a beacon of that one.
HeardInv(r, o) ==
  r # o /\ seen[r][o] # None => \E i \in DOMAIN sent[o] : From(seen[r][o], sent[o][i])

\* The shapes of the variables.
LiveShape ==
  /\ up \in [Node -> BOOLEAN] /\ incarnation \in [Node -> Nat] /\ counter \in [Node -> Nat]
  /\ sent \in [Node -> Seq(Beacon)]
  /\ seen \in [Node -> [Node -> Live!Seen \cup {None}]]
  /\ boots \in 0..MaxBoots

\* The inductive invariant.
LiveInv ==
  /\ LiveShape
  /\ \A n \in Node : SentInv(n)
  /\ \A r, o \in Node : HeardInv(r, o)

\* The places and the elements of a sequence.
LEMMA SeqElements ==
  ASSUME NEW S, NEW e \in Seq(S)
  PROVE  /\ DOMAIN e = 1..Len(e) /\ Len(e) \in Nat /\ DOMAIN e \subseteq Nat
         /\ \A i \in DOMAIN e : e[i] \in S
OBVIOUS

\* Appending keeps the places.
LEMMA OneLonger ==
  ASSUME NEW k \in Nat
  PROVE  1..k \subseteq 1..k + 1
OBVIOUS

\* A tracker that has heard nobody.
LEMMA FreshType ==
  ASSUME LivenessParams, NEW n \in Node
  PROVE  Live!Fresh(n) \in [Node -> Live!Seen \cup {None}]
           /\ \A o \in Node : o # n => Live!Fresh(n)[o] = None
BY DEF LivenessParams, Live!Fresh, Live!Touched, Live!Seen, Live!Egress

\* It holds at the start, and each action keeps it.
LEMMA LiveStart ==
  ASSUME LivenessParams, Live!Init
  PROVE  LiveInv
<1>1. boots = 0 /\ sent = [n \in Node |-> <<>>] /\ counter = [n \in Node |-> 0]
      /\ incarnation = [n \in Node |-> 1] /\ up = [n \in Node |-> TRUE]
      /\ seen = [n \in Node |-> Live!Fresh(n)]
  BY Zenon DEF Live!Init
<1>2. \A n \in Node : Live!Fresh(n) \in [Node -> Live!Seen \cup {None}]
                       /\ \A o \in Node : o # n => Live!Fresh(n)[o] = None
  BY FreshType, Zenon
<1>3. LiveShape
  BY <1>1, <1>2 DEF LiveShape, LivenessParams
<1>4. \A n \in Node : SentInv(n)
  <2> SUFFICES ASSUME NEW n \in Node PROVE SentInv(n)
    BY Zenon
  <2>1. sent[n] = <<>> /\ counter[n] = 0 /\ incarnation[n] = 1 /\ MaxBeacons[n] \in Nat
    BY <1>1, Zenon DEF LivenessParams
  <2>2. sent[n] \in Seq(Beacon) /\ DOMAIN sent[n] = {} /\ Len(sent[n]) = 0
    BY <2>1
  <2>3. QED BY <1>1, <2>1, <2>2 DEF SentInv
<1>5. \A r, o \in Node : HeardInv(r, o)
  BY <1>1, <1>2, Zenon DEF HeardInv
<1>6. QED BY <1>3, <1>4, <1>5, Zenon DEF LiveInv

\* A beacon sent comes after every beacon sent before.
LEMMA EmitKeeps ==
  ASSUME LivenessParams, LiveInv, NEW n \in Node, Live!emit_liveness_beacon(n)
  PROVE  LiveInv'
<1>1. PICK ad \in Live!Egress :
        sent' = [sent EXCEPT ![n] = Append(@, [incarnation |-> incarnation[n],
                                               counter |-> counter[n], egress |-> ad])]
  BY Zenon DEF Live!emit_liveness_beacon
<1> DEFINE b == [incarnation |-> incarnation[n], counter |-> counter[n], egress |-> ad]
           q == sent[n]
           w == Append(q, b)
<1>2. /\ Len(sent[n]) < MaxBeacons[n] /\ counter' = [counter EXCEPT ![n] = @ + 1]
      /\ seen' = [seen EXCEPT ![n] = Live!touch(@, n)]
      /\ UNCHANGED <<up, incarnation, boots>>
  BY Zenon DEF Live!emit_liveness_beacon
<1>3. LiveShape /\ SentInv(n)
  BY Zenon DEF LiveInv
<1>4. b \in Beacon /\ q \in Seq(Beacon)
  BY <1>3, Zenon DEF LiveShape, Beacon
<1>5. sent'[n] = w /\ (\A m \in Node : m # n => sent'[m] = sent[m])
        /\ sent' \in [Node -> Seq(Beacon)]
  BY <1>1, <1>3, <1>4 DEF LiveShape
<1>6. counter'[n] = counter[n] + 1 /\ (\A m \in Node : m # n => counter'[m] = counter[m])
      /\ counter' \in [Node -> Nat] /\ counter[n] \in Nat
  BY <1>2, <1>3 DEF LiveShape
<1>7. Live!touch(seen[n], n) \in [Node -> Live!Seen \cup {None}]
      /\ \A o \in Node : o # n => Live!touch(seen[n], n)[o] = seen[n][o]
  <2>1. seen[n] \in [Node -> Live!Seen \cup {None}]
    BY <1>3, Zenon DEF LiveShape
  <2>2. Live!Touched \in Live!Seen
    BY DEF Live!Touched, Live!Seen, Live!Egress, LivenessParams
  <2>3. seen[n][n] # None => [seen[n][n] EXCEPT !.age = 0] \in Live!Seen
    BY <2>1 DEF Live!Seen, LivenessParams
  <2>4. QED BY <2>1, <2>2, <2>3, Zenon DEF Live!touch
<1>8. seen' \in [Node -> [Node -> Live!Seen \cup {None}]]
      /\ \A r, o \in Node : r # o => seen'[r][o] = seen[r][o]
  BY <1>2, <1>3, <1>7, Zenon DEF LiveShape
<1>9. LiveShape'
  BY <1>2, <1>3, <1>5, <1>6, <1>8, Zenon DEF LiveShape
<1>10. /\ w \in Seq(Beacon) /\ Len(w) = Len(q) + 1 /\ DOMAIN w = 1..Len(q) + 1
       /\ w[Len(q) + 1] = b /\ \A i \in 1..Len(q) : w[i] = q[i]
       /\ DOMAIN q = 1..Len(q) /\ Len(q) \in Nat
  BY <1>4
<1>11. ASSUME NEW m \in Node PROVE SentInv(m)'
  <2>1. CASE m # n
    BY <1>2, <1>5, <1>6, <2>1, Zenon DEF LiveInv, SentInv
  <2>2. CASE m = n
    <3> HIDE DEF w, b, q
    <3>1. \A i \in 1..Len(q) : /\ q[i] \in Beacon
                               /\ \/ q[i].incarnation < incarnation[n]
                                  \/ q[i].incarnation = incarnation[n] /\ q[i].counter < counter[n]
      <4>1. \A i \in 1..Len(q) : q[i] \in Beacon
        BY <1>4, <1>10, SeqElements, Zenon
      <4>2. QED BY <1>3, <1>10, <4>1, Zenon DEF SentInv, q
    <3>2. \A i, j \in DOMAIN w : i < j => Before(w[i], w[j])
      <4> SUFFICES ASSUME NEW i \in DOMAIN w, NEW j \in DOMAIN w, i < j
                   PROVE  Before(w[i], w[j])
        BY Zenon
      <4>1. i \in 1..Len(q)
        BY <1>10
      <4>2. CASE j \in 1..Len(q)
        BY <1>3, <1>10, <4>1, <4>2, Zenon DEF SentInv, q
      <4>3. CASE j = Len(q) + 1
        <5>1. w[j] = b /\ w[i] = q[i]
          BY <1>10, <4>1, <4>3, Zenon
        <5>2. b.incarnation = incarnation[n] /\ b.counter = counter[n]
          BY Zenon DEF b
        <5>3. QED BY <3>1, <4>1, <5>1, <5>2, Zenon DEF Before
      <4>4. QED BY <1>10, <4>2, <4>3
    <3>3. \A i \in DOMAIN w :
            \/ w[i].incarnation < incarnation[n]
            \/ w[i].incarnation = incarnation[n] /\ w[i].counter < counter[n] + 1
      <4>1. b.incarnation = incarnation[n] /\ b.counter = counter[n]
        BY Zenon DEF b
      <4>2. ASSUME NEW i \in 1..Len(q)
            PROVE  \/ w[i].incarnation < incarnation[n]
                   \/ w[i].incarnation = incarnation[n] /\ w[i].counter < counter[n] + 1
        <5>1. w[i] = q[i] /\ q[i].counter \in Nat
          BY <1>10, <3>1, Zenon DEF Beacon
        <5>2. QED BY <1>6, <3>1, <5>1
      <4>3. QED BY <1>6, <1>10, <4>1, <4>2
    <3>4. counter[n] + 1 <= Len(w) /\ Len(w) <= MaxBeacons[n]
      BY <1>2, <1>3, <1>6, <1>10 DEF SentInv, q, LivenessParams
    <3>5. QED BY <1>2, <1>3, <1>5, <1>6, <1>10, <2>2, <3>2, <3>3, <3>4, Zenon DEF SentInv
  <2>3. QED BY <2>1, <2>2, Zenon
<1>12. ASSUME NEW r \in Node, NEW o \in Node PROVE HeardInv(r, o)'
  <2> SUFFICES ASSUME r # o, seen'[r][o] # None
               PROVE  \E i \in DOMAIN sent'[o] : From(seen'[r][o], sent'[o][i])
    BY Zenon DEF HeardInv, From
  <2>1. PICK i \in DOMAIN sent[o] : From(seen[r][o], sent[o][i])
    BY <1>8, Zenon DEF LiveInv, HeardInv
  <2>2. i \in DOMAIN sent'[o] /\ sent'[o][i] = sent[o][i]
    <3>1. CASE o = n
      <4>1. i \in 1..Len(q) /\ sent[o] = q /\ sent'[o] = w
        BY <1>5, <1>10, <3>1, Zenon
      <4> HIDE DEF w, q
      <4>2. i \in DOMAIN w
        BY <1>10, <4>1, OneLonger, Zenon
      <4>3. QED BY <1>10, <4>1, <4>2, Zenon
    <3>2. QED BY <1>5, <3>1, Zenon
  <2>3. QED BY <1>8, <2>1, <2>2, Zenon
<1>13. QED BY <1>9, <1>11, <1>12, Zenon DEF LiveInv

\* What a step may do to what r holds of o: replace it by a later beacon, or age
\* it.
Forward(r, o) ==
  LET was == seen[r][o] is == seen'[r][o] IN
  r # o /\ was # None /\ is # None /\ is # was =>
    \/ [is EXCEPT !.age = was.age] = was /\ is.age = was.age + 1
    \/ Live!Place(o, was) < Live!Place(o, is)

\* An entry made from a beacon has a place among the beacons sent.
LEMMA PlaceFrom ==
  ASSUME LivenessParams, NEW o \in Node, sent[o] \in Seq(Beacon), NEW u \in Live!Seen,
         NEW j \in DOMAIN sent[o], From(u, sent[o][j])
  PROVE  Live!Place(o, u) \in DOMAIN sent[o] /\ From(u, sent[o][Live!Place(o, u)])
<1> DEFINE Made(i) == [u EXCEPT !.age = 0] =
             [incarnation |-> sent[o][i].incarnation, counter |-> sent[o][i].counter,
              egress |-> sent[o][i].egress, age |-> 0]
<1>1. \A i \in DOMAIN sent[o] : Made(i) <=> From(u, sent[o][i])
  <2> SUFFICES ASSUME NEW i \in DOMAIN sent[o] PROVE Made(i) <=> From(u, sent[o][i])
    BY Zenon
  <2> DEFINE b == sent[o][i]
  <2>1. [u EXCEPT !.age = 0] = [incarnation |-> u.incarnation, counter |-> u.counter,
                                egress |-> u.egress, age |-> 0]
    BY DEF Live!Seen
  <2> HIDE DEF b
  <2>2. [u EXCEPT !.age = 0] = [incarnation |-> b.incarnation, counter |-> b.counter,
                                egress |-> b.egress, age |-> 0] <=> From(u, b)
    BY <2>1, Zenon DEF From
  <2>3. QED BY <2>2, Zenon DEF b
<1>2. Live!Place(o, u) = CHOOSE i \in DOMAIN sent[o] : Made(i)
  BY Zenon DEF Live!Place
<1>3. Made(j)
  BY <1>1, Zenon
<1> HIDE DEF Made
<1>4. Live!Place(o, u) \in DOMAIN sent[o] /\ Made(Live!Place(o, u))
  BY <1>2, <1>3, Zenon
<1>5. QED BY <1>1, <1>4, Zenon

\* A beacon received replaces only an entry made from an earlier one.
LEMMA ReceiveKeeps ==
  ASSUME LivenessParams, LiveInv, NEW r \in Node, NEW o \in Node, NEW i, Live!Receive(r, o, i)
  PROVE  LiveInv' /\ \A p, q \in Node : Forward(p, q)
<1> DEFINE b == sent[o][i]
           s == [incarnation |-> b.incarnation, counter |-> b.counter, egress |-> b.egress,
             age |-> 0]
<1>1. /\ r # o /\ i \in DOMAIN sent[o]
      /\ seen' = [seen EXCEPT ![r] = Live!observe_with_egress(@, o, b)]
      /\ UNCHANGED <<up, incarnation, counter, sent, boots>>
  BY Zenon DEF Live!Receive
<1>2. LiveShape /\ SentInv(o) /\ sent[o] \in Seq(Beacon)
  BY Zenon DEF LiveInv, SentInv
<1>3. b \in Beacon
  BY <1>1, <1>2, SeqElements, Zenon
<1>4. s \in Live!Seen /\ From(s, b)
  BY <1>3 DEF Beacon, Live!Seen, From, LivenessParams
<1> HIDE DEF b
<1>5. \/ seen' = seen
      \/ Live!Accepts(seen[r][o], b) /\ seen' = [seen EXCEPT ![r] = [@ EXCEPT ![o] = s]]
  <2>1. seen \in [Node -> [Node -> Live!Seen \cup {None}]]
    BY <1>2, Zenon DEF LiveShape
  <2>2. CASE Live!Accepts(seen[r][o], b)
    BY <1>1, <2>2, Zenon DEF Live!observe_with_egress
  <2>3. CASE ~Live!Accepts(seen[r][o], b)
    BY <1>1, <2>1, <2>3, Zenon DEF Live!observe_with_egress
  <2>4. QED BY <2>2, <2>3, Zenon
<1> HIDE DEF s
<1>6. CASE seen' = seen
  <2>1. LiveInv'
    <3>1. LiveShape' /\ \A n \in Node : SentInv(n)'
      BY <1>1, <1>6, Zenon DEF LiveInv, LiveShape, SentInv
    <3>2. \A p, q \in Node : HeardInv(p, q)'
      <4>1. sent' = sent /\ \A p, q \in Node : HeardInv(p, q)
        BY <1>1, Zenon DEF LiveInv
      <4>2. QED BY <1>6, <4>1, Zenon DEF HeardInv, From
    <3>3. QED BY <3>1, <3>2, Zenon DEF LiveInv
  <2>2. \A p, q \in Node : Forward(p, q)
    BY <1>6, Zenon DEF Forward
  <2>3. QED BY <2>1, <2>2, Zenon
<1>7. CASE Live!Accepts(seen[r][o], b) /\ seen' = [seen EXCEPT ![r] = [@ EXCEPT ![o] = s]]
  <2>1. /\ seen'[r][o] = s /\ seen' \in [Node -> [Node -> Live!Seen \cup {None}]]
        /\ \A p, q \in Node : <<p, q>> # <<r, o>> => seen'[p][q] = seen[p][q]
    BY <1>2, <1>4, <1>7, Zenon DEF LiveShape
  <2>2. LiveShape'
    BY <1>1, <1>2, <2>1, Zenon DEF LiveShape
  <2>3. \A n \in Node : SentInv(n)'
    BY <1>1, Zenon DEF LiveInv, SentInv
  <2>4. ASSUME NEW p \in Node, NEW q \in Node PROVE HeardInv(p, q)'
    <3>1. CASE <<p, q>> = <<r, o>>
      <4>1. p = r /\ q = o
        BY <3>1, Zenon
      <4>2. From(seen'[p][q], sent'[q][i]) /\ i \in DOMAIN sent'[q]
        BY <1>1, <1>4, <2>1, <4>1, Zenon DEF b
      <4>3. QED BY <4>2, Zenon DEF HeardInv, From
    <3>2. CASE <<p, q>> # <<r, o>>
      <4>1. HeardInv(p, q) /\ seen'[p][q] = seen[p][q] /\ sent' = sent
        BY <1>1, <2>1, <3>2, Zenon DEF LiveInv
      <4>2. QED BY <4>1, Zenon DEF HeardInv, From
    <3>3. QED BY <3>1, <3>2, Zenon
  <2>5. ASSUME NEW p \in Node, NEW q \in Node PROVE Forward(p, q)
    <3>1. CASE <<p, q>> # <<r, o>>
      BY <2>1, <3>1, Zenon DEF Forward
    <3>2. CASE <<p, q>> = <<r, o>>
      <4> DEFINE was == seen[r][o]
      <4>0. p = r /\ q = o /\ seen'[p][q] = s
        BY <2>1, <3>2, Zenon
      <4> SUFFICES ASSUME was # None PROVE Live!Place(o, was) < Live!Place(o, s)
        BY <4>0, Zenon DEF Forward
      <4>1. PICK k \in DOMAIN sent[o] : From(was, sent[o][k])
        BY <1>1, Zenon DEF LiveInv, HeardInv
      <4>2. was \in Live!Seen
        BY <1>2, Zenon DEF LiveShape
      <4>3. Live!Place(o, was) \in DOMAIN sent[o] /\ From(was, sent[o][Live!Place(o, was)])
        BY <1>2, <4>1, <4>2, PlaceFrom, Zenon
      <4>4. Live!Place(o, s) \in DOMAIN sent[o] /\ From(s, sent[o][Live!Place(o, s)])
        BY <1>1, <1>2, <1>4, PlaceFrom, Zenon DEF b
      <4>5. Live!superseded_by(was, b)
        BY <1>7, Zenon DEF Live!Accepts
      <4> DEFINE x == Live!Place(o, was)
                 y == Live!Place(o, s)
                 bx == sent[o][x]
                 by == sent[o][y]
      <4> HIDE DEF x, y, was
      <4>6. x \in Nat /\ y \in Nat /\ bx \in Beacon /\ by \in Beacon
        <5>1. DOMAIN sent[o] \subseteq Nat /\ \A at \in DOMAIN sent[o] : sent[o][at] \in Beacon
          BY <1>2, SeqElements, Zenon
        <5>2. QED BY <4>3, <4>4, <5>1, Zenon DEF x, y
      <4>7. y < x => Before(by, bx)
        BY <1>2, <4>3, <4>4, Zenon DEF SentInv, x, y
      <4>8. y = x => by = bx
        BY Zenon
      <4>9. Before(bx, by)
        BY <1>4, <4>3, <4>4, <4>5, Zenon DEF Live!superseded_by, Before, From, x, y
      <4> HIDE DEF bx, by
      <4>10. ~(y < x) /\ y # x
        BY <4>6, <4>7, <4>8, <4>9 DEF Before, Beacon
      <4>11. QED BY <4>6, <4>10 DEF x, y, was
    <3>3. QED BY <3>1, <3>2, Zenon
  <2>6. QED BY <2>2, <2>3, <2>4, <2>5, Zenon DEF LiveInv
<1>8. QED BY <1>5, <1>6, <1>7, Zenon

\* A tick ages what is held, and changes nothing else of it.
LEMMA TickKeeps ==
  ASSUME LivenessParams, LiveInv, NEW r \in Node, Live!Tick(r)
  PROVE  LiveInv' /\ \A p, q \in Node : Forward(p, q)
<1>1. /\ seen' = [seen EXCEPT ![r] = [o \in Node |-> Live!Age(@[o])]]
      /\ UNCHANGED <<up, incarnation, counter, sent, boots>>
  BY Zenon DEF Live!Tick
<1>2. LiveShape
  BY Zenon DEF LiveInv
<1>3. \A t \in Live!Seen \cup {None} :
        /\ Live!Age(t) \in Live!Seen \cup {None} /\ (Live!Age(t) = None <=> t = None)
        /\ t # None => From(Live!Age(t), t)
        /\ t # None /\ Live!Age(t) # t => [Live!Age(t) EXCEPT !.age = t.age] = t
             /\ Live!Age(t).age = t.age + 1
  BY DEF Live!Age, Live!Seen, From, LivenessParams
<1>4. /\ seen' \in [Node -> [Node -> Live!Seen \cup {None}]]
      /\ \A p, q \in Node : seen'[p][q] \in {seen[p][q], Live!Age(seen[p][q])}
                            /\ seen[p][q] \in Live!Seen \cup {None}
  <2>1. seen \in [Node -> [Node -> Live!Seen \cup {None}]]
    BY <1>2, Zenon DEF LiveShape
  <2>2. [o \in Node |-> Live!Age(seen[r][o])] \in [Node -> Live!Seen \cup {None}]
    BY <1>3, <2>1, Zenon
  <2>3. QED BY <1>1, <2>1, <2>2, Zenon
<1>5. LiveShape' /\ \A n \in Node : SentInv(n)'
  BY <1>1, <1>2, <1>4, Zenon DEF LiveInv, LiveShape, SentInv
<1>6. ASSUME NEW p \in Node, NEW q \in Node PROVE Forward(p, q)
  <2>1. seen'[p][q] \in {seen[p][q], Live!Age(seen[p][q])} /\ seen[p][q] \in Live!Seen \cup {None}
    BY <1>4, Zenon
  <2>2. QED BY <1>3, <2>1, Zenon DEF Forward
<1>7. ASSUME NEW p \in Node, NEW q \in Node PROVE HeardInv(p, q)'
  <2> SUFFICES ASSUME p # q, seen'[p][q] # None
               PROVE  \E i \in DOMAIN sent'[q] : From(seen'[p][q], sent'[q][i])
    BY Zenon DEF HeardInv, From
  <2>1. seen'[p][q] \in {seen[p][q], Live!Age(seen[p][q])} /\ seen[p][q] \in Live!Seen \cup {None}
    BY <1>4, Zenon
  <2>2. seen[p][q] # None /\ (seen'[p][q] = seen[p][q] \/ From(seen'[p][q], seen[p][q]))
    BY <1>3, <2>1, Zenon
  <2>3. PICK i \in DOMAIN sent[q] : From(seen[p][q], sent[q][i])
    BY <2>2, Zenon DEF LiveInv, HeardInv
  <2>4. From(seen'[p][q], sent[q][i])
    BY <2>2, <2>3, Zenon DEF From
  <2>5. QED BY <1>1, <2>4, Zenon
<1>8. QED BY <1>5, <1>6, <1>7, Zenon DEF LiveInv

\* The death of a daemon empties its own tracker.
LEMMA DieKeeps ==
  ASSUME LivenessParams, LiveInv, NEW n \in Node, Live!Die(n)
  PROVE  LiveInv' /\ \A p, q \in Node : p # q => seen'[p][q] \in {None, seen[p][q]}
<1>1. /\ up' = [up EXCEPT ![n] = FALSE] /\ seen' = [seen EXCEPT ![n] = Live!Fresh(n)]
      /\ UNCHANGED <<incarnation, counter, sent, boots>>
  BY Zenon DEF Live!Die
<1>2. LiveShape
  BY Zenon DEF LiveInv
<1>3. Live!Fresh(n) \in [Node -> Live!Seen \cup {None}]
        /\ \A o \in Node : o # n => Live!Fresh(n)[o] = None
  BY FreshType, Zenon
<1>4. /\ seen' \in [Node -> [Node -> Live!Seen \cup {None}]] /\ up' \in [Node -> BOOLEAN]
      /\ \A p, q \in Node : p # q => seen'[p][q] \in {None, seen[p][q]}
  BY <1>1, <1>2, <1>3, Zenon DEF LiveShape
<1>5. LiveShape' /\ \A m \in Node : SentInv(m)'
  BY <1>1, <1>2, <1>4, Zenon DEF LiveInv, LiveShape, SentInv
<1>6. ASSUME NEW p \in Node, NEW q \in Node PROVE HeardInv(p, q)'
  <2> SUFFICES ASSUME p # q, seen'[p][q] # None
               PROVE  \E i \in DOMAIN sent'[q] : From(seen'[p][q], sent'[q][i])
    BY Zenon DEF HeardInv, From
  <2>1. seen'[p][q] = seen[p][q] /\ HeardInv(p, q)
    BY <1>4, Zenon DEF LiveInv
  <2>2. QED BY <1>1, <2>1, Zenon DEF HeardInv
<1>7. QED BY <1>4, <1>5, <1>6, Zenon DEF LiveInv

\* A restart begins an incarnation above every beacon sent.
LEMMA BootKeeps ==
  ASSUME LivenessParams, LiveInv, NEW n \in Node, Live!Boot(n)
  PROVE  LiveInv'
<1>1. /\ boots < MaxBoots /\ up' = [up EXCEPT ![n] = TRUE]
      /\ incarnation' = [incarnation EXCEPT ![n] = @ + 1]
      /\ counter' = [counter EXCEPT ![n] = 0] /\ boots' = boots + 1
      /\ UNCHANGED <<sent, seen>>
  BY Zenon DEF Live!Boot
<1>2. LiveShape
  BY Zenon DEF LiveInv
<1>3. LiveShape'
  BY <1>1, <1>2 DEF LiveShape, LivenessParams
<1>4. ASSUME NEW m \in Node PROVE SentInv(m)'
  <2>1. /\ SentInv(m) /\ incarnation[m] \in Nat /\ counter[m] \in Nat /\ boots \in Nat
        /\ sent[m] \in Seq(Beacon)
    BY <1>2 DEF LiveInv, LiveShape
  <2>2. CASE m = n
    <3>1. incarnation'[m] = incarnation[m] + 1 /\ counter'[m] = 0 /\ sent'[m] = sent[m]
      BY <1>1, <1>2, <2>2, Zenon DEF LiveShape
    <3>2. \A i \in DOMAIN sent[m] : sent[m][i].incarnation \in Nat
      <4>1. \A i \in DOMAIN sent[m] : sent[m][i] \in Beacon
        BY <2>1, SeqElements, Zenon
      <4>2. QED BY <4>1, Zenon DEF Beacon
    <3>3. \A i \in DOMAIN sent[m] : sent[m][i].incarnation < incarnation[m] + 1
      BY <2>1, <3>2 DEF SentInv
    <3>4. Len(sent[m]) \in Nat
      BY <2>1, SeqElements, Zenon
    <3>5. incarnation[m] >= 1 /\ incarnation[m] <= boots + 1
      BY <2>1, Zenon DEF SentInv
    <3>6. /\ incarnation[m] + 1 >= 1 /\ incarnation[m] + 1 <= boots' + 1
          /\ 0 <= Len(sent[m])
      BY <1>1, <2>1, <3>4, <3>5
    <3>7. QED BY <2>1, <3>1, <3>3, <3>6, Zenon DEF SentInv
  <2>3. CASE m # n
    <3>1. incarnation'[m] = incarnation[m] /\ counter'[m] = counter[m] /\ sent'[m] = sent[m]
      BY <1>1, <1>2, <2>3, Zenon DEF LiveShape
    <3>2. incarnation[m] <= boots + 1
      BY <2>1, Zenon DEF SentInv
    <3>3. incarnation'[m] <= boots' + 1
      BY <1>1, <2>1, <3>1, <3>2
    <3>4. QED BY <2>1, <3>1, <3>3, Zenon DEF SentInv
  <2>4. QED BY <2>2, <2>3, Zenon
<1>5. ASSUME NEW p \in Node, NEW q \in Node PROVE HeardInv(p, q)'
  BY <1>1, Zenon DEF LiveInv, HeardInv, From
<1>6. QED BY <1>3, <1>4, <1>5, Zenon DEF LiveInv

\* Every step keeps the invariant and moves every view forward.
LEMMA LiveStep ==
  ASSUME LivenessParams, LiveInv, [Live!Next]_Live!vars
  PROVE  LiveInv' /\ (Live!ForwardStep \/ UNCHANGED Live!vars)
<1>1. CASE UNCHANGED Live!vars
  <2>1. LiveInv'
    BY <1>1, Zenon DEF Live!vars, LiveInv, LiveShape, SentInv, HeardInv, From
  <2>2. QED BY <1>1, <2>1, Zenon
<1>2. ASSUME NEW n \in Node, Live!emit_liveness_beacon(n)
      PROVE  LiveInv' /\ \A p, q \in Node : Forward(p, q)
  <2>1. \A p, q \in Node : p # q => seen'[p][q] = seen[p][q]
    <3>1. seen' = [seen EXCEPT ![n] = Live!touch(@, n)]
      BY <1>2, Zenon DEF Live!emit_liveness_beacon
    <3>2. seen \in [Node -> [Node -> Live!Seen \cup {None}]]
      BY Zenon DEF LiveInv, LiveShape
    <3>3. \A q \in Node : q # n => Live!touch(seen[n], n)[q] = seen[n][q]
      BY <3>2, Zenon DEF Live!touch
    <3>4. QED BY <3>1, <3>2, <3>3, Zenon
  <2>2. QED BY <1>2, <2>1, EmitKeeps, Zenon DEF Forward
<1>3. ASSUME NEW n \in Node, NEW o \in Node, NEW i \in DOMAIN sent[o], Live!Receive(n, o, i)
      PROVE  LiveInv' /\ \A p, q \in Node : Forward(p, q)
  BY <1>3, ReceiveKeeps, Zenon
<1>4. ASSUME NEW n \in Node, Live!Tick(n)
      PROVE  LiveInv' /\ \A p, q \in Node : Forward(p, q)
  BY <1>4, TickKeeps, Zenon
<1>5. ASSUME NEW n \in Node, Live!Die(n)
      PROVE  LiveInv' /\ \A p, q \in Node : Forward(p, q)
  BY <1>5, DieKeeps, Zenon DEF Forward
<1>6. ASSUME NEW n \in Node, Live!Boot(n)
      PROVE  LiveInv' /\ \A p, q \in Node : Forward(p, q)
  <2>1. seen' = seen
    BY <1>6, Zenon DEF Live!Boot
  <2>2. QED BY <1>6, <2>1, BootKeeps, Zenon DEF Forward
<1>7. (\A p, q \in Node : Forward(p, q)) => Live!ForwardStep
  BY Zenon DEF Live!ForwardStep, Forward
<1>8. QED BY <1>1, <1>2, <1>3, <1>4, <1>5, <1>6, <1>7, Zenon DEF Live!Next

\* The invariant bounds what the types bound.
LEMMA LiveTypes ==
  ASSUME LivenessParams, LiveInv
  PROVE  Live!TypeOK
<1>1. LiveShape
  BY Zenon DEF LiveInv
<1>2. ASSUME NEW n \in Node
      PROVE  incarnation[n] \in 1..(MaxBoots + 1) /\ counter[n] \in 0..MaxBeacons[n]
  <2>1. /\ incarnation[n] \in Nat /\ counter[n] \in Nat /\ MaxBeacons[n] \in Nat
        /\ sent[n] \in Seq(Beacon) /\ boots \in 0..MaxBoots /\ SentInv(n)
    BY <1>1, Zenon DEF LiveInv, LiveShape, LivenessParams
  <2>2. /\ counter[n] <= Len(sent[n]) /\ Len(sent[n]) <= MaxBeacons[n]
        /\ incarnation[n] >= 1 /\ incarnation[n] <= boots + 1
    BY <2>1, Zenon DEF SentInv
  <2>3. Len(sent[n]) \in Nat /\ MaxBoots \in Nat
    BY <2>1, SeqElements, Zenon DEF LivenessParams
  <2>4. QED BY <2>1, <2>2, <2>3
<1>3. \A n \in Node : \A i \in DOMAIN sent[n] : sent[n][i] \in Beacon
  BY <1>1, SeqElements, Zenon DEF LiveShape
<1>4. QED BY <1>1, <1>2, <1>3, Zenon DEF LiveShape, Live!TypeOK, Beacon

\* What a router holds of another only moves forward: it is replaced by what a
\* beacon sent later said, or ages, whatever the order in which beacons arrive and
\* however daemons restart (observe_with_egress, superseded_by).
THEOREM ViewsForward ==
  ASSUME LivenessParams
  PROVE  Live!Spec => []Live!TypeOK /\ Live!ViewForward
<1>1. Live!Init => LiveInv
  BY LiveStart, Zenon
<1>2. LiveInv /\ [Live!Next]_Live!vars => LiveInv' /\ [Live!ForwardStep]_Live!vars
  BY LiveStep, Zenon
<1>3. LiveInv => Live!TypeOK
  BY LiveTypes, Zenon
<1>4. QED BY <1>1, <1>2, <1>3, PTL DEF Live!Spec, Live!ViewForward

-----------------------------------------------------------------------------
(* The babel reconciler.                                                   *)

CONSTANTS Iface, Subnet, L2, Advertise, MaxFails
VARIABLES mode, inputs, sample, last, started, pc, disk, babeld, changes, fails

Routing == INSTANCE BabelReconciler WITH Gateway <- Advertise

\* What the proof assumes of the constants.
BabelParams == Advertise \in BOOLEAN /\ MaxChanges \in Nat /\ MaxFails \in Nat

\* The inductive invariant: between two calls the loop's belief is right, and it
\* is about to start only what it believes stopped.
LoopInv ==
  fails = 0 =>
    /\ pc \in {"sample", "render"} /\ started => babeld = disk
    /\ pc = "restart" => babeld # disk

\* What is rendered is a configuration.
LEMMA RenderTypes ==
  ASSUME BabelParams, Routing!TypeOK
  PROVE  Routing!Rendered \in Routing!Conf
<1>1. sample \in Routing!Inputs /\ inputs \in Routing!Inputs
  BY Zenon DEF Routing!TypeOK
<1>2. inputs.uplink \in BOOLEAN
  BY <1>1, Zenon DEF Routing!Inputs
<1>3. [sample EXCEPT !.uplink = inputs.uplink] \in Routing!Inputs
  BY <1>1, <1>2, Zenon DEF Routing!Inputs
<1>4. ASSUME NEW i \in Routing!Inputs PROVE Routing!Render(i) \in Routing!Conf
  <2>1. i.ifaces \in SUBSET Iface /\ i.subnet \in Subnet \cup {None} /\ i.uplink \in BOOLEAN
    BY Zenon DEF Routing!Inputs
  <2>2. /\ (IF mode = "lan" THEN i.ifaces ELSE {}) \in SUBSET Iface
        /\ (Advertise /\ i.uplink) \in BOOLEAN
    BY <2>1, Zenon DEF BabelParams
  <2>3. QED BY <2>1, <2>2, Zenon DEF Routing!Render, Routing!Conf
<1>5. QED BY <1>3, <1>4, Zenon DEF Routing!Rendered

\* The call that is made keeps the belief right.
LEMMA CallRight ==
  ASSUME NEW i, NEW changed \in BOOLEAN
  PROVE  /\ Routing!Call(i, changed) \in {"sample", "start", "restart", "stop"}
         /\ Routing!Call(i, changed) = "sample" => ~started \/ ~changed
         /\ Routing!Call(i, changed) = "restart" => started /\ changed
BY Zenon DEF Routing!Call

\* Every step of the loop, of the service and of the inputs keeps the belief right.
LEMMA LoopStep ==
  ASSUME BabelParams, Routing!TypeOK, LoopInv, [Routing!Next]_Routing!vars
  PROVE  Routing!TypeOK' /\ LoopInv'
<1>1. CASE Routing!Sample
  <2>1. Routing!TypeOK'
    BY <1>1, Zenon DEF Routing!Sample, Routing!TypeOK
  <2>2. LoopInv'
    BY <1>1, Zenon DEF Routing!Sample, LoopInv
  <2>3. QED BY <2>1, <2>2, Zenon
<1>2. CASE Routing!Settle
  <2>1. Routing!TypeOK'
    BY <1>2, RenderTypes, Zenon DEF Routing!Settle, Routing!TypeOK
  <2>2. LoopInv'
    BY <1>2, Zenon DEF Routing!Settle, LoopInv
  <2>3. QED BY <2>1, <2>2, Zenon
<1>3. CASE Routing!Write
  <2>0. /\ pc = "render" /\ UNCHANGED <<mode, inputs, sample, started, babeld, changes>>
        /\ \/ /\ disk' = Routing!Rendered
              /\ pc' = Routing!Call(sample, disk # Routing!Rendered) /\ last' = Routing!Rendered
              /\ UNCHANGED fails
           \/ fails < MaxFails /\ fails' = fails + 1 /\ pc' = "sample" /\ UNCHANGED <<disk, last>>
    BY <1>3, Zenon DEF Routing!Write
  <2>1. CASE /\ disk' = Routing!Rendered
             /\ pc' = Routing!Call(sample, disk # Routing!Rendered) /\ last' = Routing!Rendered
             /\ UNCHANGED fails
    <3>1. /\ pc' \in {"sample", "start", "restart", "stop"}
          /\ pc' = "sample" => ~started \/ disk = Routing!Rendered
          /\ pc' = "restart" => started /\ disk # Routing!Rendered
      <4> DEFINE changed == disk # Routing!Rendered
      <4>1. changed \in BOOLEAN
        BY Zenon
      <4> HIDE DEF changed
      <4>2. /\ Routing!Call(sample, changed) \in {"sample", "start", "restart", "stop"}
            /\ Routing!Call(sample, changed) = "sample" => ~started \/ ~changed
            /\ Routing!Call(sample, changed) = "restart" => started /\ changed
        BY <4>1, CallRight, Zenon
      <4>3. QED BY <2>1, <4>2, Zenon DEF changed
    <3>2. Routing!TypeOK'
      BY <2>0, <2>1, <3>1, RenderTypes, Zenon DEF Routing!TypeOK
    <3>3. LoopInv'
      BY <2>0, <2>1, <3>1, Zenon DEF LoopInv
    <3>4. QED BY <3>2, <3>3, Zenon
  <2>2. CASE fails < MaxFails /\ fails' = fails + 1 /\ pc' = "sample" /\ UNCHANGED <<disk, last>>
    <3>1. fails' \in 0..MaxFails /\ fails' # 0
      BY <2>2 DEF Routing!TypeOK, BabelParams
    <3>2. Routing!TypeOK'
      BY <2>0, <2>2, <3>1, Zenon DEF Routing!TypeOK
    <3>3. QED BY <3>1, <3>2, Zenon DEF LoopInv
  <2>3. QED BY <2>0, <2>1, <2>2, Zenon
<1>4. CASE Routing!Skip
  <2>1. Routing!TypeOK'
    BY <1>4, Zenon DEF Routing!Skip, Routing!TypeOK
  <2>2. LoopInv'
    BY <1>4, Zenon DEF Routing!Skip, LoopInv
  <2>3. QED BY <2>1, <2>2, Zenon
<1>5. CASE Routing!babeld_service
  <2> DEFINE done == IF pc = "stop" THEN Routing!Off ELSE disk
  <2>1. /\ pc' = "sample" /\ UNCHANGED <<mode, inputs, sample, last, disk, changes>>
        /\ \/ babeld' = done /\ started' = (pc # "stop") /\ UNCHANGED fails
           \/ /\ fails < MaxFails /\ fails' = fails + 1
              /\ babeld' \in {babeld, Routing!Off, done} /\ started' = (pc = "restart")
    BY <1>5, Zenon DEF Routing!babeld_service
  <2>2. done \in Routing!Conf \cup {None} /\ Routing!Off \in Routing!Conf \cup {None}
    BY Zenon DEF Routing!TypeOK, Routing!Off
  <2>3. CASE babeld' = done /\ started' = (pc # "stop") /\ UNCHANGED fails
    <3>1. Routing!TypeOK'
      BY <2>1, <2>2, <2>3, Zenon DEF Routing!TypeOK
    <3>2. LoopInv'
      BY <2>1, <2>3, Zenon DEF LoopInv
    <3>3. QED BY <3>1, <3>2, Zenon
  <2>4. CASE /\ fails < MaxFails /\ fails' = fails + 1
             /\ babeld' \in {babeld, Routing!Off, done} /\ started' = (pc = "restart")
    <3>1. fails' \in 0..MaxFails /\ fails' # 0
      BY <2>4 DEF Routing!TypeOK, BabelParams
    <3>2. babeld' \in Routing!Conf \cup {None}
      BY <2>2, <2>4, Zenon DEF Routing!TypeOK
    <3>3. Routing!TypeOK'
      BY <2>1, <2>4, <3>1, <3>2, Zenon DEF Routing!TypeOK
    <3>4. QED BY <3>1, <3>3, Zenon DEF LoopInv
  <2>5. QED BY <2>1, <2>3, <2>4, Zenon
<1>6. CASE Routing!Change
  <2>1. changes' \in 0..MaxChanges
    BY <1>6 DEF Routing!Change, Routing!TypeOK, BabelParams
  <2>2. Routing!TypeOK'
    BY <1>6, <2>1, Zenon DEF Routing!Change, Routing!TypeOK
  <2>3. LoopInv'
    BY <1>6, Zenon DEF Routing!Change, LoopInv
  <2>4. QED BY <2>2, <2>3, Zenon
<1>7. CASE UNCHANGED Routing!vars
  BY <1>7, Zenon DEF Routing!vars, Routing!TypeOK, LoopInv
<1>8. QED BY <1>1, <1>2, <1>3, <1>4, <1>5, <1>6, <1>7, Zenon DEF Routing!Next, Routing!Loop

\* babeld is not restarted for nothing: as long as no call and no write has
\* failed, the loop restarts it only when the file it wrote differs from what
\* babeld runs with, in both modes and however tunnels, claims and the uplink
\* change (babel_reconciler, babel_reconciler_overlay).
THEOREM BabeldNotThrashed ==
  ASSUME BabelParams
  PROVE  Routing!Spec => [](Routing!TypeOK /\ Routing!NoThrash)
<1>1. Routing!Init => Routing!TypeOK /\ LoopInv
  <2> SUFFICES ASSUME Routing!Init PROVE Routing!TypeOK /\ LoopInv
    BY Zenon
  <2> DEFINE start == [ifaces |-> {}, subnet |-> None, uplink |-> FALSE]
             old == [ifaces |-> {}, subnet |-> None, gateway |-> TRUE]
  <2>1. start \in Routing!Inputs /\ old \in Routing!Conf
    BY Zenon DEF Routing!Inputs, Routing!Conf
  <2>2. changes \in 0..MaxChanges /\ fails \in 0..MaxFails
    BY DEF Routing!Init, BabelParams
  <2>3. disk \in {None, old} /\ babeld \in {None, disk} /\ last = None
    BY Zenon DEF Routing!Init, Routing!Off
  <2>4. {last, disk, babeld} \subseteq Routing!Conf \cup {None}
    BY <2>1, <2>3, Zenon
  <2>5. mode \in Routing!Mode /\ inputs = start /\ sample = inputs /\ started = FALSE
          /\ pc = "sample"
    BY Zenon DEF Routing!Init
  <2> HIDE DEF start
  <2>6. QED BY <2>1, <2>2, <2>4, <2>5, Zenon DEF Routing!TypeOK, LoopInv
<1>2. Routing!TypeOK /\ LoopInv /\ [Routing!Next]_Routing!vars => Routing!TypeOK' /\ LoopInv'
  BY LoopStep, Zenon
<1>3. LoopInv => Routing!NoThrash
  BY Zenon DEF LoopInv, Routing!NoThrash
<1>4. QED BY <1>1, <1>2, <1>3, PTL DEF Routing!Spec

-----------------------------------------------------------------------------
(* The configuration the daemon writes for its router.                     *)

CONSTANTS MaxClaims, MaxTimeouts, MaxReboots
VARIABLES claim, lan, lanSaved, lanLive, pool, dhcp, dhcpSaved, dhcpLive, scripts, count

Conf == INSTANCE UciReconciler

\* What the proof assumes of the constants.
UciParams ==
  /\ "none" \notin Subnet
  /\ {MaxClaims, MaxFails, MaxTimeouts, MaxReboots} \subseteq Nat

\* A whole lan list: the recovery address, after at most one other; unless the
\* command that puts it there, or the one that empties the list, has failed,
\* which k says.
WholeLan(l, k) ==
  /\ l \in Seq(Conf!Addr)
  /\ k.alias = 0 => l # <<>> /\ l[Len(l)] = Conf!Stock
  /\ k.delete = 0 => Len(l) <= 2

\* A script that can run while the daemon is at `t`: an edit of dhcp or of the
\* lan; one the daemon no longer waits for has committed.
Running(t) ==
  {s \in [name : {"lan", "dhcp", "late"}, target : Subnet \cup {"none"},
          pc : {"delete", "add", "alias", "edit", "commit", "reload", "restart"}] :
     /\ s.name \in {"late", t}
     /\ s.name = "late" => s.pc \in {"reload", "restart"}
     /\ s.name = "dhcp" => s.target = "none"
     /\ s.name = "lan" => s.target # "none"
     /\ IF s.target = "none" THEN s.pc \in {"edit", "commit", "restart"}
                             ELSE s.pc # "edit"}

\* The scripts: of those the daemon waits for there is one at most.
ScriptsInv ==
  /\ task \in {"boot", "idle", "lan", "dhcp"}
  /\ \A s \in scripts : s \in Running(task)
  /\ \A s, t \in scripts : s.name # "late" /\ t.name # "late" => s = t

\* The lan list as each command of a script finds it.
LanFor(s, l, k) ==
  /\ l \in Seq(Conf!Addr)
  /\ s.pc = "add" /\ k.delete = 0 => l = <<>>
  /\ s.pc = "alias" /\ k.delete = 0 => Len(l) <= 1
  /\ s.pc \notin {"add", "alias"} => WholeLan(l, k)

Bridge == Conf!Addr \cup {"none"}
LanAt(k) ==
  /\ \A s \in scripts : s.name # "late" => LanFor(s, lan, k)
  /\ (\A s \in scripts : s.name = "late") => WholeLan(lan, k)
  /\ WholeLan(lanSaved, k) /\ lanLive \in Bridge /\ pool \in Bridge
LanInv == LanAt(count)

\* The dnsmasq entries, edited and saved: one portal URL at most.
DhcpAt(k) ==
  \A d \in {dhcp, dhcpSaved, dhcpLive} :
    /\ d \subseteq Conf!Wanted \cup {"stale114"}
    /\ k.del_list = 0 => ~ {"option114", "stale114"} \subseteq d
DhcpInv == DhcpAt(count)

CountInv ==
  /\ claim \in Subnet \cup {"none"}
  /\ count \in [DOMAIN Conf!Bound -> Nat] /\ \A e \in DOMAIN Conf!Bound : count[e] <= Conf!Bound[e]

\* The inductive invariant.
UciInv == ScriptsInv /\ LanInv /\ DhcpInv /\ CountInv

\* A bounded event is counted within its bound.
LEMMA CountsKeeps ==
  ASSUME UciParams, CountInv, NEW e \in DOMAIN Conf!Bound, Conf!Counts(e),
         claim' \in Subnet \cup {"none"}
  PROVE  CountInv'
<1>1. \A f \in DOMAIN Conf!Bound : Conf!Bound[f] \in Nat
  BY DEF Conf!Bound, UciParams
<1>2. count[e] < Conf!Bound[e] /\ count' = [count EXCEPT ![e] = @ + 1]
  BY Zenon DEF Conf!Counts
<1>3. count \in [DOMAIN Conf!Bound -> Nat] /\ \A f \in DOMAIN Conf!Bound : count[f] <= Conf!Bound[f]
  BY Zenon DEF CountInv
<1> HIDE DEF Conf!Bound
<1>4. count[e] + 1 \in Nat /\ count[e] + 1 <= Conf!Bound[e]
  BY <1>1, <1>2, <1>3
<1>5. count' \in [DOMAIN Conf!Bound -> Nat]
        /\ \A f \in DOMAIN Conf!Bound : count'[f] <= Conf!Bound[f]
  BY <1>2, <1>3, <1>4, Zenon
<1>6. DOMAIN (Conf!Bound') = DOMAIN Conf!Bound /\ Conf!Bound' = Conf!Bound
  BY Zenon DEF Conf!Bound
<1>7. QED BY <1>5, <1>6, Zenon DEF CountInv

\* An edit that fails is counted as well.
LEMMA SkipsKeeps ==
  ASSUME UciParams, CountInv, NEW e \in {"delete", "add", "alias", "del_list"}, Conf!Skips(e),
         claim' \in Subnet \cup {"none"}
  PROVE  CountInv'
<1>1. /\ e \in DOMAIN Conf!Bound /\ "fails" \in DOMAIN Conf!Bound /\ e # "fails"
      /\ Conf!Bound[e] = 1 /\ Conf!Bound["fails"] = MaxFails /\ MaxFails \in Nat
  BY DEF Conf!Bound, UciParams
<1>2. /\ count["fails"] < MaxFails
      /\ count' = [count EXCEPT !["fails"] = @ + 1, ![e] = 1]
  BY Zenon DEF Conf!Skips
<1>3. count \in [DOMAIN Conf!Bound -> Nat] /\ \A f \in DOMAIN Conf!Bound : count[f] <= Conf!Bound[f]
  BY Zenon DEF CountInv
<1>4. DOMAIN (Conf!Bound') = DOMAIN Conf!Bound /\ Conf!Bound' = Conf!Bound
  BY Zenon DEF Conf!Bound
<1> HIDE DEF Conf!Bound
<1>5. count["fails"] + 1 \in Nat /\ count["fails"] + 1 <= MaxFails /\ 1 \in Nat /\ 1 <= 1
  BY <1>1, <1>2, <1>3
<1>6. count' \in [DOMAIN Conf!Bound -> Nat]
        /\ \A f \in DOMAIN Conf!Bound : count'[f] <= Conf!Bound[f]
  BY <1>1, <1>2, <1>3, <1>5, Zenon
<1>7. QED BY <1>4, <1>6, Zenon DEF CountInv

\* A failure once counted stays counted.
Remembers(k, m) ==
  \A e \in {"alias", "delete", "del_list"} : m[e] = 0 => k[e] = 0

LEMMA CountsRemembers ==
  ASSUME CountInv, NEW e, \/ Conf!Counts(e) /\ e \in {"claims", "fails", "timeouts", "reboots"}
                          \/ Conf!Skips(e) /\ e \in {"delete", "add", "alias", "del_list"}
  PROVE  Remembers(count, count')
<1>1. /\ count \in [DOMAIN Conf!Bound -> Nat]
      /\ DOMAIN Conf!Bound = {"claims", "fails", "timeouts", "reboots", "delete", "add", "alias",
                              "del_list"}
  BY Zenon DEF CountInv, Conf!Bound
<1> HIDE DEF Conf!Bound
<1>2. CASE Conf!Counts(e) /\ e \in {"claims", "fails", "timeouts", "reboots"}
  <2>1. count' = [count EXCEPT ![e] = @ + 1]
    BY <1>2, Zenon DEF Conf!Counts
  <2>2. QED BY <1>1, <1>2, <2>1 DEF Remembers
<1>3. CASE Conf!Skips(e) /\ e \in {"delete", "add", "alias", "del_list"}
  <2>1. count' = [count EXCEPT !["fails"] = @ + 1, ![e] = 1]
    BY <1>3, Zenon DEF Conf!Skips
  <2>2. QED BY <1>1, <1>3, <2>1 DEF Remembers
<1>4. QED BY <1>2, <1>3, Zenon

\* What holds of the lists holds of them after such a failure.
LEMMA ListsRemember ==
  ASSUME LanInv, DhcpInv, Remembers(count, count')
  PROVE  LanAt(count') /\ DhcpAt(count')
<1>1. /\ count'.alias = 0 => count.alias = 0
      /\ count'.delete = 0 => count.delete = 0
      /\ count'.del_list = 0 => count.del_list = 0
  BY Zenon DEF Remembers
<1>2. \A l : WholeLan(l, count) => WholeLan(l, count')
  BY <1>1, Zenon DEF WholeLan
<1>3. \A s, l : LanFor(s, l, count) => LanFor(s, l, count')
  BY <1>1, <1>2, Zenon DEF LanFor
<1>4. QED BY <1>1, <1>2, <1>3, Zenon DEF LanInv, DhcpInv, LanAt, DhcpAt

\* A script that goes on, or ends, leaves at most one the daemon waits for.
LEMMA ScriptGoes ==
  ASSUME UciParams, ScriptsInv, NEW s \in scripts, NEW to, Conf!Goes(s, to),
         to # "end" => [s EXCEPT !.pc = to] \in Running(task)
  PROVE  /\ ScriptsInv'
         /\ \A t \in scripts' : \/ t \in scripts /\ t # s
                                \/ to # "end" /\ t = [s EXCEPT !.pc = to]
         /\ \A t \in scripts : t # s => t \in scripts'
<1> DEFINE next == [s EXCEPT !.pc = to]
<1>1. s \in Running(task) /\ task \in {"boot", "idle", "lan", "dhcp"}
  BY Zenon DEF ScriptsInv
<1>2. next.name = s.name
  BY <1>1, Zenon DEF Running
<1> HIDE DEF next
<1>3. /\ \A t \in scripts' : \/ t \in scripts /\ t # s
                             \/ to # "end" /\ t = next
      /\ \A t \in scripts : t # s => t \in scripts'
  BY Zenon DEF Conf!Goes, next
<1>4. \A t, u \in scripts' : t.name # "late" /\ u.name # "late" => t = u
  BY <1>2, <1>3, Zenon DEF ScriptsInv
<1>5. task' \in {"boot", "idle", "lan", "dhcp"}
  BY <1>1, Zenon DEF Conf!Goes
<1>6. \A t \in scripts' : t \in Running(task')
  <2>1. CASE to = "end" /\ s.name = task
    <3>1. \A t \in scripts' : t \in Running(task) /\ t.name = "late"
      BY <1>1, <1>3, <2>1, Zenon DEF ScriptsInv
    <3>2. QED BY <3>1, Zenon DEF Running
  <2>2. CASE ~(to = "end" /\ s.name = task)
    <3>1. task' = task
      BY <2>2, Zenon DEF Conf!Goes
    <3>2. QED BY <1>3, <3>1, Zenon DEF ScriptsInv, next
  <2>3. QED BY <2>1, <2>2, Zenon
<1>7. ScriptsInv'
  <2>1. Running(task)' = Running(task')
    BY Zenon DEF Running
  <2>2. QED BY <1>4, <1>5, <1>6, <2>1, Zenon DEF ScriptsInv
<1>8. QED BY <1>3, <1>7, Zenon DEF next

\* The lists, where one is not touched.
LEMMA SameLan ==
  ASSUME UNCHANGED lan
  PROVE  /\ \A s : LanFor(s, lan, count)' <=> LanFor(s, lan, count')
         /\ WholeLan(lan, count)' <=> WholeLan(lan, count')
BY Zenon DEF LanFor, WholeLan, Bridge, Conf!Addr

\* A script that ends or goes on beyond its edits leaves the lan list.
LEMMA LanKeeps ==
  ASSUME UciParams, ScriptsInv, LanAt(count'), NEW s \in scripts, NEW to, Conf!Goes(s, to),
         s.pc \notin {"add", "alias"}, to \notin {"add", "alias"},
         to # "end" => [s EXCEPT !.pc = to] \in Running(task),
         UNCHANGED lan, WholeLan(lanSaved', count'), lanLive' \in Bridge, pool' \in Bridge
  PROVE  LanInv'
<1> DEFINE next == [s EXCEPT !.pc = to]
<1>1. s \in Running(task)
  BY Zenon DEF ScriptsInv
<1>2. next.name = s.name /\ next.pc = to
  BY <1>1, Zenon DEF Running
<1> HIDE DEF next
<1>3. /\ \A t \in scripts' : \/ t \in scripts /\ t # s
                             \/ to # "end" /\ t = next
      /\ \A t \in scripts : t # s => t \in scripts'
  BY ScriptGoes, Zenon DEF next
<1>4. s.name # "late" => WholeLan(lan, count')
  BY Zenon DEF LanInv, LanAt, LanFor
<1>5. \A t \in scripts' : t.name # "late" => LanFor(t, lan, count')
  <2> SUFFICES ASSUME NEW t \in scripts', t.name # "late" PROVE LanFor(t, lan, count')
    BY Zenon
  <2>1. CASE t \in scripts
    BY <2>1, Zenon DEF LanInv, LanAt
  <2>2. CASE t = next
    BY <1>2, <1>4, <2>2, Zenon DEF LanFor, WholeLan
  <2>3. QED BY <1>3, <2>1, <2>2, Zenon
<1>6. (\A t \in scripts' : t.name = "late") => WholeLan(lan, count')
  <2> SUFFICES ASSUME \A t \in scripts' : t.name = "late" PROVE WholeLan(lan, count')
    BY Zenon
  <2>1. CASE s.name # "late"
    BY <1>4, <2>1, Zenon
  <2>2. CASE s.name = "late"
    <3>1. \A t \in scripts : t.name = "late"
      BY <1>3, <2>2, Zenon
    <3>2. QED BY <3>1, Zenon DEF LanInv, LanAt
  <2>3. QED BY <2>1, <2>2, Zenon
<1>7. WholeLan(lanSaved, count)' /\ (lanLive \in Bridge /\ pool \in Bridge)'
  BY Zenon DEF WholeLan, Bridge, Conf!Addr
<1>8. QED BY <1>5, <1>6, <1>7, SameLan, Zenon DEF LanInv, LanAt

\* What a whole lan list gives who reads it.
LEMMA HeadWhole ==
  ASSUME NEW l, NEW k, WholeLan(l, k)
  PROVE  Conf!First(l) \in Bridge /\ l \in Seq(Conf!Addr)
<1>1. l \in Seq(Conf!Addr)
  BY Zenon DEF WholeLan
<1>2. l # <<>> => Head(l) \in Conf!Addr
  BY <1>1
<1>3. QED BY <1>1, <1>2, Zenon DEF Conf!First, Bridge

\* A script that edits the lan list leaves it as its next command finds it.
LEMMA LanEdited ==
  ASSUME UciParams, ScriptsInv, LanAt(count'), NEW s \in scripts,
         NEW to \in {"add", "alias", "commit"}, Conf!Goes(s, to),
         s.pc \in {"delete", "add", "alias"},
         LanFor([s EXCEPT !.pc = to], lan', count'),
         UNCHANGED lanSaved, UNCHANGED lanLive, UNCHANGED pool
  PROVE  ScriptsInv' /\ LanInv'
<1> DEFINE next == [s EXCEPT !.pc = to]
<1>1. s \in Running(task)
  BY Zenon DEF ScriptsInv
<1>2. s.name = "lan"
  BY <1>1, Zenon DEF Running
<1>3. next \in Running(task) /\ next.name = "lan"
  BY <1>1, <1>2, Zenon DEF Running
<1>4. /\ ScriptsInv'
      /\ \A t \in scripts' : (t \in scripts /\ t # s) \/ t = next
      /\ next \in scripts'
  <2>1. to # "end"
    BY Zenon
  <2>2. next \in scripts'
    BY <2>1, Zenon DEF Conf!Goes
  <2>3. QED BY <1>3, <2>1, <2>2, ScriptGoes, Zenon
<1>5. \A t \in scripts' : t.name # "late" => t = next
  BY <1>2, <1>4, Zenon DEF ScriptsInv
<1>6. \A t \in scripts' : t.name # "late" => LanFor(t, lan, count)'
  <2>1. LanFor(next, lan', count') => \A t : t = next => LanFor(t, lan, count)'
    BY Zenon DEF LanFor, WholeLan, Bridge, Conf!Addr
  <2> HIDE DEF next
  <2>2. LanFor(next, lan', count')
    BY Zenon DEF next
  <2>3. QED BY <1>5, <2>1, <2>2, Zenon
<1>7. ~(\A t \in scripts' : t.name = "late")
  BY <1>3, <1>4, Zenon
<1>8. (WholeLan(lanSaved, count) /\ lanLive \in Bridge /\ pool \in Bridge)'
  BY Zenon DEF LanAt, WholeLan, Bridge, Conf!Addr
<1>9. QED BY <1>4, <1>6, <1>7, <1>8, Zenon DEF LanInv, LanAt

\* Every step of the daemon and of a script, and a reboot, keeps the invariant.
LEMMA UciStep ==
  ASSUME UciParams, UciInv, [Conf!Next]_Conf!vars
  PROVE  UciInv'
<1>a. ScriptsInv /\ LanInv /\ DhcpInv /\ CountInv
  BY Zenon DEF UciInv
<1>b. Remembers(count, count')
  <2>1. \/ UNCHANGED count
        \/ \E e \in {"claims", "fails", "timeouts", "reboots"} : Conf!Counts(e)
        \/ \E e \in {"delete", "add", "alias", "del_list"} : Conf!Skips(e)
    BY Zenon DEF Conf!Next, Conf!vars, Conf!reconcile_dnsmasq_uci, Conf!reconcile_client_uci,
         Conf!Timeout, Conf!Script, Conf!Delete, Conf!AddList, Conf!Edit, Conf!Commit,
         Conf!Reload, Conf!Restart, Conf!Fails, Conf!SkipLan, Conf!SkipDhcp, Conf!Reboot
  <2>2. UNCHANGED count => Remembers(count, count')
    BY Zenon DEF Remembers
  <2>3. QED BY <1>a, <2>1, <2>2, CountsRemembers, Zenon
<1>0. ScriptsInv /\ LanAt(count') /\ DhcpAt(count') /\ CountInv
  BY <1>a, <1>b, ListsRemember, Zenon
<1>e. {"claims", "fails", "timeouts", "reboots"} \subseteq DOMAIN Conf!Bound
  BY Zenon DEF Conf!Bound
<1>d. UNCHANGED Conf!dhcpVars => DhcpInv'
  <2> SUFFICES ASSUME UNCHANGED Conf!dhcpVars PROVE DhcpInv'
    BY Zenon
  <2>1. UNCHANGED dhcp /\ UNCHANGED dhcpSaved /\ UNCHANGED dhcpLive
    BY Zenon DEF Conf!dhcpVars
  <2>2. QED BY <1>0, <2>1, Zenon DEF DhcpInv, DhcpAt, Conf!Wanted
<1>c. UNCHANGED <<claim, count>> => CountInv'
  BY <1>0, Zenon DEF CountInv, Conf!Bound
<1>l. ASSUME UNCHANGED Conf!lanVars PROVE UNCHANGED lan /\ UNCHANGED lanSaved /\ UNCHANGED lanLive
  BY <1>l, Zenon DEF Conf!lanVars
<1>s. ASSUME UNCHANGED Conf!lanVars, UNCHANGED pool
      PROVE  /\ UNCHANGED lan
             /\ (WholeLan(lanSaved, count) /\ lanLive \in Bridge /\ pool \in Bridge)'
             /\ WholeLan(lanSaved', count') /\ lanLive' \in Bridge /\ pool' \in Bridge
  BY <1>0, <1>s, <1>l, Zenon DEF LanInv, LanAt, WholeLan, Bridge, Conf!Addr
<1>1. CASE Conf!reconcile_dnsmasq_uci
  <2>1. /\ UNCHANGED <<claim, count>> /\ UNCHANGED Conf!lanVars /\ UNCHANGED pool
        /\ UNCHANGED Conf!dhcpVars /\ task = "boot"
    BY <1>1, Zenon DEF Conf!reconcile_dnsmasq_uci
  <2>2. \A s \in scripts : s.name = "late" /\ \A t : s \in Running(t)
    BY <1>0, <2>1, Zenon DEF ScriptsInv, Running
  <2>3. WholeLan(lan, count')
    BY <1>0, <2>2, Zenon DEF LanInv, LanAt
  <2>4. ScriptsInv' /\ LanInv'
    <3>1. CASE task' = "idle" /\ UNCHANGED scripts
      <4>1. ScriptsInv'
        BY <2>2, <3>1, Zenon DEF ScriptsInv, Running
      <4>2. QED BY <1>s, <2>1, <2>2, <2>3, <3>1, <4>1, SameLan, Zenon DEF LanInv, LanAt
    <3>2. CASE /\ task' = "dhcp"
               /\ scripts' = scripts \cup {[name |-> "dhcp", target |-> "none", pc |-> "edit"]}
      <4> DEFINE new == [name |-> "dhcp", target |-> "none", pc |-> "edit"]
      <4>1. new \in Running("dhcp") /\ new.name = "dhcp" /\ new.pc = "edit"
        BY Zenon DEF Running
      <4> HIDE DEF new
      <4>2. \A s \in scripts' : s = new \/ s \in scripts
        BY <3>2, Zenon DEF new
      <4>3. ScriptsInv'
        <5>1. Running(task)' = Running(task')
          BY Zenon DEF Running
        <5>2. QED BY <2>2, <3>2, <4>1, <4>2, <5>1, Zenon DEF ScriptsInv
      <4>4. LanInv'
        <5>1. LanFor(new, lan, count') /\ new \in scripts'
          BY <2>3, <3>2, <4>1, Zenon DEF LanFor, WholeLan, new
        <5>2. QED BY <1>s, <2>1, <2>2, <2>3, <4>1, <4>2, <5>1, SameLan, Zenon DEF LanInv, LanAt
      <4>5. QED BY <4>3, <4>4, Zenon
    <3>3. QED BY <1>1, <3>1, <3>2, Zenon DEF Conf!reconcile_dnsmasq_uci
  <2>5. QED BY <1>c, <1>d, <2>1, <2>4, Zenon DEF UciInv
<1>2. ASSUME NEW c \in Subnet, Conf!reconcile_client_uci(c) PROVE UciInv'
  <2>1. /\ UNCHANGED Conf!lanVars /\ UNCHANGED pool /\ Conf!Counts("claims") /\ claim' = c
        /\ UNCHANGED Conf!dhcpVars /\ task = "idle"
    BY <1>2, Zenon DEF Conf!reconcile_client_uci
  <2>2. \A s \in scripts : s.name = "late" /\ \A t : s \in Running(t)
    BY <1>0, <2>1, Zenon DEF ScriptsInv, Running
  <2>3. WholeLan(lan, count')
    BY <1>0, <2>2, Zenon DEF LanInv, LanAt
  <2>4. ScriptsInv' /\ LanInv'
    <3>1. CASE UNCHANGED <<task, scripts>>
      <4>1. ScriptsInv'
        BY <1>0, <3>1, Zenon DEF ScriptsInv, Running
      <4>2. QED BY <1>s, <2>1, <2>2, <2>3, <3>1, <4>1, SameLan, Zenon DEF LanInv, LanAt
    <3>2. CASE /\ task' = "lan"
               /\ scripts' = scripts \cup {[name |-> "lan", target |-> c, pc |-> "delete"]}
      <4> DEFINE new == [name |-> "lan", target |-> c, pc |-> "delete"]
      <4>1. new \in Running("lan") /\ new.name = "lan" /\ new.pc = "delete"
        BY Zenon DEF Running, UciParams
      <4> HIDE DEF new
      <4>2. \A s \in scripts' : s = new \/ s \in scripts
        BY <3>2, Zenon DEF new
      <4>3. ScriptsInv'
        <5>1. Running(task)' = Running(task')
          BY Zenon DEF Running
        <5>2. QED BY <2>2, <3>2, <4>1, <4>2, <5>1, Zenon DEF ScriptsInv
      <4>4. LanInv'
        <5>1. LanFor(new, lan, count') /\ new \in scripts'
          BY <2>3, <3>2, <4>1, Zenon DEF LanFor, WholeLan, new
        <5>2. QED BY <1>s, <2>1, <2>2, <2>3, <4>1, <4>2, <5>1, SameLan, Zenon DEF LanInv, LanAt
      <4>5. QED BY <4>3, <4>4, Zenon
    <3>3. QED BY <1>2, <3>1, <3>2, Zenon DEF Conf!reconcile_client_uci
  <2>5. CountInv'
    BY <1>0, <1>e, <2>1, CountsKeeps, Zenon
  <2>6. QED BY <1>d, <2>1, <2>4, <2>5, Zenon DEF UciInv
<1>3. CASE Conf!Timeout
  <2> DEFINE Late(s) == IF s.name = task THEN [s EXCEPT !.name = "late"] ELSE s
  <2>1. /\ UNCHANGED Conf!lanVars /\ UNCHANGED pool /\ Conf!Counts("timeouts") /\ UNCHANGED claim
        /\ UNCHANGED Conf!dhcpVars /\ task \in {"lan", "dhcp"} /\ task' = "idle"
        /\ scripts' = {Late(s) : s \in scripts}
    BY <1>3, Zenon DEF Conf!Timeout
  <2>2. PICK w \in scripts : w.name = task /\ w.pc \in {"reload", "restart"}
    BY <1>3, Zenon DEF Conf!Timeout
  <2>3. \A s \in scripts : s.name = "late" \/ s = w
    BY <1>0, <2>1, <2>2, Zenon DEF ScriptsInv
  <2>4. \A s \in scripts : Late(s).name = "late" /\ Late(s) \in Running("idle")
    <3>1. Late(w) = [w EXCEPT !.name = "late"] /\ w \in Running(task)
      BY <1>0, <2>2, Zenon DEF ScriptsInv
    <3>2. Late(w).name = "late" /\ Late(w) \in Running("idle")
      BY <2>2, <3>1, Zenon DEF Running
    <3>3. \A s \in scripts : s.name = "late" => Late(s) = s /\ s \in Running("idle")
      BY <1>0, <2>1, Zenon DEF ScriptsInv, Running
    <3> HIDE DEF Late
    <3>4. QED BY <2>3, <3>2, <3>3, Zenon
  <2>5. WholeLan(lan, count')
    <3>1. w.name # "late" /\ w.pc \notin {"add", "alias"}
      BY <2>1, <2>2, Zenon
    <3>2. QED BY <1>0, <3>1, Zenon DEF LanInv, LanAt, LanFor
  <2> HIDE DEF Late
  <2>6. \A s \in scripts' : s.name = "late" /\ s \in Running("idle")
    BY <2>1, <2>4, Zenon
  <2>7. ScriptsInv'
    <3>1. Running(task)' = Running(task')
      BY Zenon DEF Running
    <3>2. QED BY <2>1, <2>6, <3>1, Zenon DEF ScriptsInv
  <2>8. LanInv'
    BY <1>s, <2>1, <2>5, <2>6, SameLan, Zenon DEF LanInv, LanAt
  <2>9. CountInv'
    <3>1. claim' \in Subnet \cup {"none"}
      BY <1>0, <2>1, Zenon DEF CountInv
    <3>2. QED BY <1>0, <1>e, <2>1, <3>1, CountsKeeps, Zenon
  <2>10. QED BY <1>d, <2>1, <2>7, <2>8, <2>9, Zenon DEF UciInv
<1>4. ASSUME NEW s \in scripts, Conf!Delete(s) \/ Conf!AddList(s) \/ Conf!SkipLan(s)
      PROVE  UciInv'
  <2> DEFINE to == IF s.pc = "delete" THEN "add" ELSE IF s.pc = "add" THEN "alias" ELSE "commit"
             next == [s EXCEPT !.pc = to]
  <2>1. /\ s.pc \in {"delete", "add", "alias"} /\ Conf!Goes(s, to)
        /\ UNCHANGED lanSaved /\ UNCHANGED lanLive /\ UNCHANGED pool /\ UNCHANGED Conf!dhcpVars
        /\ UNCHANGED claim
        /\ \/ /\ UNCHANGED count
              /\ lan' = (IF s.pc = "delete" THEN <<>>
                         ELSE Append(lan, IF s.pc = "add" THEN s.target ELSE Conf!Stock))
           \/ Conf!Skips(s.pc) /\ UNCHANGED lan
    BY <1>4, Zenon DEF Conf!Delete, Conf!AddList, Conf!SkipLan, Conf!lanVars
  <2>2. s \in Running(task)
    BY <1>0, Zenon DEF ScriptsInv
  <2>3. s.name = "lan" /\ s.target \in Conf!Addr /\ Conf!Stock \in Conf!Addr
    BY <2>1, <2>2, Zenon DEF Running, Conf!Addr
  <2>4. next.pc = to /\ to \in {"add", "alias", "commit"}
    BY <2>2, Zenon DEF Running
  <2>5. LanFor(s, lan, count')
    BY <1>0, <2>3, Zenon DEF LanAt
  <2>6. LanFor(next, lan', count')
    <3>1. /\ s.pc = "delete" => next.pc = "add"
          /\ s.pc = "add" => next.pc = "alias"
          /\ s.pc = "alias" => next.pc = "commit"
      BY <2>4, Zenon
    <3> HIDE DEF next, to
    <3>2. lan \in Seq(Conf!Addr)
      BY <2>5, Zenon DEF LanFor
    <3>3. CASE s.pc = "delete"
      <4>1. lan' = <<>> \/ (lan' = lan /\ count'.delete = 1)
        <5>1. Conf!Skips("delete") => count'["delete"] = 1
          <6>1. "delete" \in DOMAIN count
            BY <1>0, Zenon DEF CountInv, Conf!Bound
          <6>2. QED BY <6>1 DEF Conf!Skips
        <5>2. QED BY <2>1, <3>3, <5>1, Zenon
      <4>2. lan' \in Seq(Conf!Addr)
        <5>1. <<>> \in Seq(Conf!Addr)
          OBVIOUS
        <5>2. QED BY <3>2, <4>1, <5>1, Zenon
      <4>3. count'.delete = 0 => lan' = <<>>
        BY <4>1
      <4>4. QED BY <3>1, <3>3, <4>2, <4>3, Zenon DEF LanFor
    <3>4. CASE s.pc = "add"
      <4>1. lan' = lan \/ lan' = Append(lan, s.target)
        BY <2>1, <3>4, Zenon
      <4>2. count'.delete = 0 => lan = <<>>
        BY <2>5, <3>4, Zenon DEF LanFor
      <4>3. lan' \in Seq(Conf!Addr) /\ (count'.delete = 0 => Len(lan') <= 1)
        BY <2>3, <3>2, <4>1, <4>2
      <4>4. QED BY <3>1, <3>4, <4>3, Zenon DEF LanFor
    <3>5. CASE s.pc = "alias"
      <4>1. lan' = Append(lan, Conf!Stock) \/ (lan' = lan /\ count'.alias = 1)
        <5>1. Conf!Skips("alias") => count'["alias"] = 1
          <6>1. "alias" \in DOMAIN count
            BY <1>0, Zenon DEF CountInv, Conf!Bound
          <6>2. QED BY <6>1 DEF Conf!Skips
        <5>2. QED BY <2>1, <3>5, <5>1, Zenon
      <4>2. count'.delete = 0 => Len(lan) <= 1
        BY <2>5, <3>5, Zenon DEF LanFor
      <4>3. WholeLan(lan', count')
        <5>1. CASE lan' = Append(lan, Conf!Stock)
          BY <2>3, <3>2, <4>2, <5>1 DEF WholeLan
        <5>2. CASE lan' = lan /\ count'.alias = 1
          BY <3>2, <4>2, <5>2 DEF WholeLan
        <5>3. QED BY <4>1, <5>1, <5>2, Zenon
      <4>4. lan' \in Seq(Conf!Addr)
        BY <4>3, Zenon DEF WholeLan
      <4>5. QED BY <3>1, <3>5, <4>3, <4>4, Zenon DEF LanFor
    <3>6. QED BY <2>1, <3>3, <3>4, <3>5, Zenon
  <2>7. ScriptsInv' /\ LanInv'
    <3> HIDE DEF to
    <3>1. QED BY <1>0, <2>1, <2>4, <2>6, LanEdited, Zenon
  <2>8. CountInv'
    <3>1. claim' \in Subnet \cup {"none"}
      BY <1>0, <2>1, Zenon DEF CountInv
    <3>2. UNCHANGED <<claim, count>> \/ Conf!Skips(s.pc)
      BY <2>1, Zenon
    <3>3. s.pc \in {"delete", "add", "alias", "del_list"}
      BY <2>1, Zenon
    <3>4. QED BY <1>0, <1>c, <3>1, <3>2, <3>3, SkipsKeeps, Zenon
  <2>9. QED BY <1>d, <2>1, <2>7, <2>8, Zenon DEF UciInv
<1>5. ASSUME NEW s \in scripts, Conf!Edit(s) \/ Conf!SkipDhcp(s) PROVE UciInv'
  <2> DEFINE next == [s EXCEPT !.pc = "commit"]
  <2>1. /\ s.pc = "edit" /\ Conf!Goes(s, "commit") /\ UNCHANGED Conf!lanVars /\ UNCHANGED pool
        /\ UNCHANGED dhcpSaved /\ UNCHANGED dhcpLive /\ UNCHANGED claim
        /\ \/ dhcp' = Conf!Edited /\ UNCHANGED count
           \/ Conf!Skips("del_list") /\ dhcp' = dhcp \cup Conf!Wanted
           \/ Conf!Skips("add") /\ \E w \in Conf!Wanted : dhcp' = Conf!Edited \ {w}
    BY <1>5, Zenon DEF Conf!Edit, Conf!SkipDhcp
  <2>2. s \in Running(task)
    BY <1>0, Zenon DEF ScriptsInv
  <2>3. next \in Running(task)
    BY <2>1, <2>2, Zenon DEF Running
  <2>4. ScriptsInv'
    BY <1>0, <2>1, <2>3, ScriptGoes, Zenon
  <2>5. LanInv'
    <3>1. s.pc \notin {"add", "alias"} /\ "commit" \notin {"add", "alias"}
      BY <2>1, Zenon
    <3>2. UNCHANGED lan /\ WholeLan(lanSaved', count') /\ lanLive' \in Bridge /\ pool' \in Bridge
      BY <1>s, <2>1, Zenon
    <3>3. QED BY <1>0, <2>1, <2>3, <3>1, <3>2, LanKeeps, Zenon
  <2>6. DhcpInv'
    <3>1. /\ dhcp' \subseteq Conf!Wanted \cup {"stale114"}
          /\ count'.del_list = 0 => ~({"option114", "stale114"} \subseteq dhcp')
      <4>1. dhcp \subseteq Conf!Wanted \cup {"stale114"}
        BY <1>0, Zenon DEF DhcpAt
      <4>2. "stale114" \notin Conf!Wanted
        BY Zenon DEF Conf!Wanted
      <4>3. Conf!Skips("del_list") => count'["del_list"] # 0
        <5>1. "del_list" \in DOMAIN count
          BY <1>0, Zenon DEF CountInv, Conf!Bound
        <5>2. QED BY <5>1 DEF Conf!Skips
      <4>4. /\ Conf!Edited \subseteq Conf!Wanted \cup {"stale114"}
            /\ ~({"option114", "stale114"} \subseteq dhcp) => "stale114" \notin Conf!Edited
        BY <4>1, <4>2, Zenon DEF Conf!Edited, Conf!Replaces
      <4>5. count'.del_list = 0 => ~({"option114", "stale114"} \subseteq dhcp)
        BY <1>0, Zenon DEF DhcpAt
      <4>6. CASE dhcp' = Conf!Edited \/ \E w \in Conf!Wanted : dhcp' = Conf!Edited \ {w}
        BY <4>4, <4>5, <4>6, Zenon
      <4>7. CASE Conf!Skips("del_list") /\ dhcp' = dhcp \cup Conf!Wanted
        BY <4>1, <4>3, <4>7, Zenon
      <4>8. QED BY <2>1, <4>6, <4>7, Zenon
    <3>2. QED BY <1>0, <2>1, <3>1, Zenon DEF DhcpInv, DhcpAt, Conf!Wanted
  <2>7. CountInv'
    <3>1. claim' \in Subnet \cup {"none"}
      BY <1>0, <2>1, Zenon DEF CountInv
    <3>2. \/ UNCHANGED <<claim, count>>
          \/ \E e \in {"delete", "add", "alias", "del_list"} : Conf!Skips(e)
      BY <2>1, Zenon
    <3>3. QED BY <1>0, <1>c, <3>1, <3>2, SkipsKeeps, Zenon
  <2>8. QED BY <2>4, <2>5, <2>6, <2>7, Zenon DEF UciInv
<1>6. ASSUME NEW s \in scripts, Conf!Commit(s) PROVE UciInv'
  <2> DEFINE to == IF s.target = "none" THEN "restart" ELSE "reload"
             next == [s EXCEPT !.pc = to]
  <2>1. /\ s.pc = "commit" /\ Conf!Goes(s, to) /\ UNCHANGED lan /\ UNCHANGED lanLive
        /\ UNCHANGED pool /\ UNCHANGED dhcp /\ UNCHANGED dhcpLive /\ UNCHANGED <<claim, count>>
        /\ lanSaved' \in {lan, lanSaved} /\ dhcpSaved' \in {dhcp, dhcpSaved}
    BY <1>6, Zenon DEF Conf!Commit
  <2>2. s \in Running(task)
    BY <1>0, Zenon DEF ScriptsInv
  <2>3. next \in Running(task)
    BY <2>1, <2>2, Zenon DEF Running
  <2>4. to # "end" /\ to \notin {"add", "alias"}
    BY Zenon
  <2>5. ScriptsInv'
    <3> HIDE DEF to
    <3>1. QED BY <1>0, <2>1, <2>3, ScriptGoes, Zenon
  <2>6. LanInv'
    <3>1. s.pc \notin {"add", "alias"} /\ s.name # "late"
      BY <2>1, <2>2, Zenon DEF Running
    <3>2. WholeLan(lan, count')
      BY <1>0, <3>1, Zenon DEF LanInv, LanAt, LanFor
    <3>3. WholeLan(lanSaved', count') /\ lanLive' \in Bridge /\ pool' \in Bridge
      BY <1>0, <2>1, <3>2, Zenon DEF LanInv, LanAt
    <3> HIDE DEF to
    <3>4. QED BY <1>0, <2>1, <2>3, <2>4, <3>1, <3>3, LanKeeps, Zenon
  <2>7. DhcpInv'
    BY <1>0, <2>1, Zenon DEF DhcpInv, DhcpAt, Conf!Wanted
  <2>8. QED BY <1>c, <2>1, <2>5, <2>6, <2>7, Zenon DEF UciInv
<1>7. ASSUME NEW s \in scripts, Conf!Reload(s) \/ Conf!Restart(s) \/ Conf!Fails(s) PROVE UciInv'
  <2> DEFINE Pc(to) == /\ Conf!Goes(s, to) /\ to \in {"restart", "end"}
                       /\ to = "restart" => s.pc = "reload"
  <2>1. /\ s.pc \in {"commit", "reload", "restart"} /\ UNCHANGED lan /\ UNCHANGED lanSaved
        /\ lanLive' \in {lanLive, Conf!First(lanSaved)} /\ pool' \in {pool, lanLive}
        /\ dhcp' = dhcp /\ dhcpSaved' = dhcpSaved /\ dhcpLive' \in {dhcpLive, dhcpSaved}
        /\ UNCHANGED claim /\ (UNCHANGED count \/ Conf!Counts("fails"))
    BY <1>7, Zenon DEF Conf!Reload, Conf!Restart, Conf!Fails, Conf!lanVars, Conf!dhcpVars
  <2>2. PICK to : Pc(to)
    <3>1. Pc("restart") \/ Pc("end")
      BY <1>7, Zenon DEF Conf!Reload, Conf!Restart, Conf!Fails
    <3>2. QED BY <3>1, Zenon
  <2>3. s \in Running(task)
    BY <1>0, Zenon DEF ScriptsInv
  <2>4. to # "end" => [s EXCEPT !.pc = to] \in Running(task)
    BY <2>2, <2>3, Zenon DEF Running
  <2>5. ScriptsInv'
    BY <1>0, <2>2, <2>4, ScriptGoes, Zenon
  <2>6. LanInv'
    <3>1. s.pc \notin {"add", "alias"} /\ to \notin {"add", "alias"}
      BY <2>1, <2>2, Zenon
    <3>2. WholeLan(lanSaved', count') /\ lanLive' \in Bridge /\ pool' \in Bridge
      BY <1>0, <2>1, HeadWhole, Zenon DEF LanInv, LanAt
    <3>3. QED BY <1>0, <2>1, <2>2, <2>4, <3>1, <3>2, LanKeeps, Zenon
  <2>7. DhcpInv'
    BY <1>0, <2>1, Zenon DEF DhcpInv, DhcpAt, Conf!Wanted
  <2>8. CountInv'
    <3>1. claim' \in Subnet \cup {"none"}
      BY <1>0, <2>1, Zenon DEF CountInv
    <3>2. QED BY <1>0, <1>c, <1>e, <2>1, <3>1, CountsKeeps, Zenon
  <2>9. QED BY <2>5, <2>6, <2>7, <2>8, Zenon DEF UciInv
<1>8. CASE Conf!Reboot
  <2>1. /\ lan' = lanSaved /\ lanSaved' = lanSaved /\ lanLive' = Conf!First(lanSaved)
        /\ pool' = Conf!First(lanSaved) /\ dhcp' = dhcpSaved /\ dhcpLive' = dhcpSaved
        /\ dhcpSaved' = dhcpSaved /\ task' = "boot" /\ scripts' = {} /\ UNCHANGED claim
        /\ Conf!Counts("reboots")
    BY <1>8, Zenon DEF Conf!Reboot
  <2>2. ScriptsInv'
    BY <2>1, Zenon DEF ScriptsInv
  <2>3. LanInv'
    <3>1. WholeLan(lanSaved, count') /\ Conf!First(lanSaved) \in Bridge
      BY <1>0, HeadWhole, Zenon DEF LanInv, LanAt
    <3>2. WholeLan(lan, count)' /\ WholeLan(lanSaved, count)'
      BY <2>1, <3>1, Zenon DEF WholeLan, Bridge, Conf!Addr
    <3>3. (lanLive \in Bridge)' /\ (pool \in Bridge)'
      BY <2>1, <3>1, Zenon DEF Conf!Addr
    <3>4. QED BY <2>1, <3>2, <3>3, Zenon DEF LanInv, LanAt
  <2>4. DhcpInv'
    BY <1>0, <2>1, Zenon DEF DhcpInv, DhcpAt, Conf!Wanted
  <2>5. CountInv'
    <3>1. claim' \in Subnet \cup {"none"}
      BY <1>0, <2>1, Zenon DEF CountInv
    <3>2. QED BY <1>0, <1>e, <2>1, <3>1, CountsKeeps, Zenon
  <2>6. QED BY <2>2, <2>3, <2>4, <2>5, Zenon DEF UciInv
<1>9. CASE UNCHANGED Conf!vars
  <2>1. /\ UNCHANGED scripts /\ UNCHANGED task /\ UNCHANGED Conf!lanVars /\ UNCHANGED pool
        /\ UNCHANGED Conf!dhcpVars /\ UNCHANGED <<claim, count>>
    BY <1>9, Zenon DEF Conf!vars, Conf!lanVars, Conf!dhcpVars
  <2>2. ScriptsInv'
    BY <1>0, <2>1, Zenon DEF ScriptsInv, Running
  <2>3. LanInv'
    BY <1>0, <1>s, <2>1, SameLan, Zenon DEF LanInv, LanAt
  <2>4. QED BY <1>c, <1>d, <2>1, <2>2, <2>3, Zenon DEF UciInv
<1>10. QED BY <1>1, <1>2, <1>3, <1>4, <1>5, <1>6, <1>7, <1>8, <1>9, Zenon DEF Conf!Next,
     Conf!Script

\* The router always boots with a lan a laptop can reach it by, and dnsmasq
\* never starts with two portal URLs, whatever claims come, scripts fail or
\* wedge, waits end and reboots happen between, unless the very command fails
\* that adds the recovery address or takes the old URL out (reconcile_client_uci,
\* reconcile_dnsmasq_uci and the scripts they run).
THEOREM RouterStaysReachable ==
  ASSUME UciParams
  PROVE  Conf!Spec => [](Conf!TypeOK /\ Conf!RecoveryAlias /\ Conf!OnePortal)
<1>1. Conf!Init => UciInv
  <2> SUFFICES ASSUME Conf!Init PROVE UciInv
    BY Zenon
  <2>1. ScriptsInv
    BY Zenon DEF Conf!Init, ScriptsInv
  <2>2. LanInv
    <3>1. Conf!Stock \in Conf!Addr
      BY Zenon DEF Conf!Addr
    <3>2. WholeLan(<<Conf!Stock>>, count)
      BY <3>1 DEF WholeLan
    <3>3. QED BY <3>1, <3>2, Zenon DEF Conf!Init, LanInv, LanAt, Bridge
  <2>3. DhcpInv
    <3>1. /\ "option114" \notin {} /\ "option114" \notin {"stale114"}
          /\ dhcp \in {{}, {"stale114"}} /\ dhcpSaved = dhcp /\ dhcpLive = dhcp
      BY Zenon DEF Conf!Init
    <3>2. QED BY <3>1, Zenon DEF DhcpInv, DhcpAt
  <2>4. CountInv
    <3>1. \A e \in DOMAIN Conf!Bound : 0 <= Conf!Bound[e]
      BY DEF Conf!Bound, UciParams
    <3>2. QED BY <3>1, Zenon DEF Conf!Init, CountInv
  <2>5. QED BY <2>1, <2>2, <2>3, <2>4, Zenon DEF UciInv
<1>2. UciInv /\ [Conf!Next]_Conf!vars => UciInv'
  BY UciStep, Zenon
<1>3. UciInv => Conf!TypeOK /\ Conf!RecoveryAlias /\ Conf!OnePortal
  <2> SUFFICES ASSUME UciInv PROVE Conf!TypeOK /\ Conf!RecoveryAlias /\ Conf!OnePortal
    BY Zenon
  <2>1. ScriptsInv /\ LanInv /\ DhcpInv /\ CountInv
    BY Zenon DEF UciInv
  <2>2. lan \in Seq(Conf!Addr)
    <3>1. CASE \A s \in scripts : s.name = "late"
      BY <2>1, <3>1, HeadWhole, Zenon DEF LanInv, LanAt
    <3>2. CASE \E s \in scripts : s.name # "late"
      <4>1. PICK s \in scripts : s.name # "late"
        BY <3>2, Zenon
      <4>2. LanFor(s, lan, count) /\ s \in Running(task)
        BY <2>1, <4>1, Zenon DEF LanInv, LanAt, ScriptsInv
      <4>3. QED BY <4>2, Zenon DEF LanFor
    <3>3. QED BY <3>1, <3>2, Zenon
  <2>3. lanSaved \in Seq(Conf!Addr) /\ Conf!RecoveryAlias
    BY <2>1, HeadWhole, Zenon DEF LanInv, LanAt, WholeLan, Conf!RecoveryAlias
  <2>4. \A s \in scripts : /\ s.name \in {"lan", "dhcp", "late"}
                           /\ s.target \in Subnet \cup {"none"}
    BY <2>1, Zenon DEF ScriptsInv, Running
  <2>5. \A e \in DOMAIN Conf!Bound : count[e] \in 0..Conf!Bound[e]
    <3>1. \A e \in DOMAIN Conf!Bound : Conf!Bound[e] \in Nat
      BY DEF Conf!Bound, UciParams
    <3>2. /\ count \in [DOMAIN Conf!Bound -> Nat]
          /\ \A e \in DOMAIN Conf!Bound : count[e] <= Conf!Bound[e]
      BY <2>1, Zenon DEF CountInv
    <3> HIDE DEF Conf!Bound
    <3>3. QED BY <3>1, <3>2
  <2>6. Conf!OnePortal
          /\ {dhcp, dhcpSaved, dhcpLive} \subseteq SUBSET (Conf!Wanted \cup {"stale114"})
    BY <2>1, Zenon DEF DhcpInv, DhcpAt, Conf!OnePortal
  <2>7. QED BY <2>1, <2>2, <2>3, <2>4, <2>5, <2>6, Zenon
                DEF Conf!TypeOK, ScriptsInv, LanInv, LanAt, Bridge,
                    CountInv
<1>4. QED BY <1>1, <1>2, <1>3, PTL DEF Conf!Spec
=============================================================================
