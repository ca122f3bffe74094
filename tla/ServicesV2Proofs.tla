-------------------------- MODULE ServicesV2Proofs --------------------------
(***************************************************************************)
(* Proofs about the service directory: types, reserved names stay out of   *)
(* every directory, a name lost to a peer stays lost, and only its owner   *)
(* takes a service down, for any set of nodes, names and requests and any  *)
(* bounds.                                                                 *)
(***************************************************************************)
EXTENDS ServicesV2, TLAPS

\* No reserved name is in the book of a state.
Clean(st) == \A x \in Reserved : st.book[x] = None

\* Node n holds no name that it has lost.
GivenUp(st, n) ==
  \A x \in Name : st.lost_names[x] # None => ~(st.book[x] # None /\ st.book[x].owner = n)

\* What a message tells: never a reserved name, never the receiver's own entry.
Honest(m, k) == m.type = "publish" => m.name \notin Reserved /\ m.entry.owner # k

\* A snapshot that is being made or about to be written is one.
Writing == {"cloning", "flush", "write"}

\* The inductive invariant, by what it is about.
SvcInv ==
  /\ svc \in [Node -> ServiceStateV2]
  /\ \A n \in Node : Clean(svc[n]) /\ (n \notin Fragile => GivenUp(svc[n], n))
FileInv == file \in [Node -> ServiceStateV2] /\ \A n \in Node : Clean(file[n])
InboxInv ==
  inbox \in [Node -> SUBSET Msg] /\ \A n \in Node : \A m \in inbox[n] : Honest(m, n)
Stage == {"free", "applied", "cloning", "flush", "sweep", "gc", "announce", "write"}
SnapInv ==
  /\ at \in [Node -> [Task -> Stage]]
  /\ snap \in [Node -> [Task -> ServiceStateV2 \cup {None}]]
  /\ \A n \in Node, t \in Task :
       at[n][t] \in Writing => snap[n][t] \in ServiceStateV2 /\ Clean(snap[n][t])
RestInv ==
  /\ doomed \in [Node -> SUBSET Name] /\ observed \in [Node -> SUBSET Name]
  /\ wall \in [Node -> 1..MaxWall]
  /\ asked \in [Node -> [publish : Nat, unpublish : Nat]]
  /\ restarts \in 0..MaxRestarts

IInv == SvcInv /\ FileInv /\ InboxInv /\ SnapInv /\ RestInv

-----------------------------------------------------------------------------
(* The operators.                                                          *)

\* The fields of a service state have their types, and three maps make one.
LEMMA StateFields ==
  /\ \A st \in ServiceStateV2 :
       /\ st.book \in [Name -> ServiceEntryV2 \cup {None}]
       /\ st.tombstones \in [Name -> ServiceTombstone \cup {None}]
       /\ st.lost_names \in [Name -> LostName \cup {None}]
  /\ \A b \in [Name -> ServiceEntryV2 \cup {None}],
        d \in [Name -> ServiceTombstone \cup {None}],
        l \in [Name -> LostName \cup {None}] :
       [book |-> b, tombstones |-> d, lost_names |-> l] \in ServiceStateV2
BY Zenon DEF ServiceStateV2

\* The empty state is a service state without entries.
LEMMA EmptyState ==
  /\ DefaultState \in ServiceStateV2
  /\ Clean(DefaultState)
  /\ \A n \in Node : GivenUp(DefaultState, n)
<1>1. DefaultState \in ServiceStateV2
  BY StateFields, Zenon DEF DefaultState, Nothing
<1>2. Clean(DefaultState)
  BY NameAssumption, Zenon DEF DefaultState, Nothing, Clean
<1>3. \A n \in Node : GivenUp(DefaultState, n)
  BY Zenon DEF DefaultState, Nothing, GivenUp
<1>4. QED BY <1>1, <1>2, <1>3, Zenon

\* What a conflict comes to (resolve_service_conflict_v2): winner and loser
\* are the two records, one each.
LEMMA ConflictParts ==
  ASSUME NEW a \in ServiceEntryV2, NEW b \in ServiceEntryV2,
         NEW r, r = resolve_service_conflict_v2(a, b)
  PROVE  \/ r.winner = a /\ r.loser = b
         \/ r.winner = b /\ r.loser = a
BY Zenon DEF resolve_service_conflict_v2

\* A publish that conflicts does so with a live entry of another owner.
LEMMA OutcomeParts ==
  ASSUME NEW st \in ServiceStateV2, NEW x \in Name, NEW e \in ServiceEntryV2,
         NEW r, r = PublishOutcome(st, x, e), r.result = "Conflict"
  PROVE  /\ st.book[x] \in ServiceEntryV2 /\ st.book[x].owner # e.owner
         /\ \/ r.winner = st.book[x] /\ r.loser = e
            \/ r.winner = e /\ r.loser = st.book[x]
<1>1. r = merge_service_v2(x, st.book[x], e)
  BY Zenon DEF PublishOutcome
<1> DEFINE c == resolve_service_conflict_v2(st.book[x], e)
<1>2. /\ st.book[x] # None /\ st.book[x].owner # e.owner
      /\ r.winner = c.winner /\ r.loser = c.loser
  <2> HIDE DEF c
  <2>1. x \notin Reserved /\ st.book[x] # None /\ st.book[x].owner # e.owner
    BY <1>1 DEF merge_service_v2
  <2>2. r = [result |-> "Conflict", winner |-> c.winner, loser |-> c.loser]
    BY <1>1, <2>1, Zenon DEF merge_service_v2, c
  <2>3. QED BY <2>1, <2>2
<1>3. st.book[x] \in ServiceEntryV2
  BY <1>2, StateFields, Zenon
<1>4. QED BY <1>2, <1>3, ConflictParts

\* A publish leaves a service state, puts no reserved name into the book, and
\* does not give a node back a name it has lost.
LEMMA PublishKeeps ==
  ASSUME NEW st \in ServiceStateV2, NEW n \in Node, NEW x \in Name,
         NEW e \in ServiceEntryV2, NEW s, s = ApplyPublish(st, n, x, e)
  PROVE  /\ s \in ServiceStateV2
         /\ x \notin Reserved /\ Clean(st) => Clean(s)
         /\ GivenUp(st, n) /\ (e.owner # n \/ st.lost_names[x] = None) => GivenUp(s, n)
<1> DEFINE r == PublishOutcome(st, x, e)
<1>1. /\ st.book \in [Name -> ServiceEntryV2 \cup {None}]
      /\ st.tombstones \in [Name -> ServiceTombstone \cup {None}]
      /\ st.lost_names \in [Name -> LostName \cup {None}]
  BY StateFields, Zenon
<1>2. r.result = "Conflict" =>
        /\ st.book[x] \in ServiceEntryV2 /\ st.book[x].owner # e.owner
        /\ \/ r.winner = st.book[x] /\ r.loser = e
           \/ r.winner = e /\ r.loser = st.book[x]
  BY OutcomeParts
<1> DEFINE v == CASE r.result \in {"Inserted", "Updated", "Revived"} -> e
                  [] r.result = "Conflict" -> r.winner
                  [] OTHER -> st.book[x]
           u == IF r.result = "Conflict" /\ r.loser.owner = n
                THEN [winner |-> r.winner.owner, hlc |-> r.winner.first_claimed_at]
                ELSE st.lost_names[x]
<1>3. /\ s.book = [st.book EXCEPT ![x] = v]
      /\ s.tombstones = st.tombstones
      /\ s.lost_names = [st.lost_names EXCEPT ![x] = u]
      /\ s = [book |-> s.book, tombstones |-> s.tombstones, lost_names |-> s.lost_names]
  BY Zenon DEF ApplyPublish, BookAfter, LossTracked
<1> HIDE DEF r
<1>4. v \in ServiceEntryV2 \cup {None}
  BY <1>1, <1>2, Zenon
<1>5. u \in LostName \cup {None}
  BY <1>1, <1>2, Zenon DEF LostName, ServiceEntryV2
<1>6. \/ v = st.book[x] /\ u = st.lost_names[x]
      \/ v = e /\ u = st.lost_names[x]
      \/ v # None /\ v.owner # n /\ v \in {e, st.book[x]}
  BY <1>2, NoRecordAssumption, Zenon
<1> HIDE DEF v, u
<1>7. s \in ServiceStateV2
  BY <1>1, <1>3, <1>4, <1>5, StateFields
<1>8. x \notin Reserved /\ Clean(st) => Clean(s)
  BY <1>1, <1>3, NameAssumption, Zenon DEF Clean
<1>9. ASSUME GivenUp(st, n), e.owner # n \/ st.lost_names[x] = None
      PROVE  GivenUp(s, n)
  <2>1. u # None => ~(v # None /\ v.owner = n)
    BY <1>6, <1>9, Zenon DEF GivenUp
  <2>2. QED BY <1>1, <1>3, <1>9, <2>1, Zenon DEF GivenUp
<1>10. QED BY <1>7, <1>8, <1>9, Zenon

\* An unpublish leaves a service state and adds nothing to the book.
LEMMA UnpublishKeeps ==
  ASSUME NEW st \in ServiceStateV2, NEW n \in Node, NEW x \in Name,
         NEW o \in Node, NEW h \in HLC, NEW s, s = ApplyUnpublish(st, x, o, h)
  PROVE  /\ s \in ServiceStateV2
         /\ Clean(st) => Clean(s)
         /\ GivenUp(st, n) => GivenUp(s, n)
<1>1. /\ st.book \in [Name -> ServiceEntryV2 \cup {None}]
      /\ st.tombstones \in [Name -> ServiceTombstone \cup {None}]
      /\ st.lost_names \in [Name -> LostName \cup {None}]
  BY StateFields, Zenon
<1>2. [owner |-> o, hlc |-> h] \in ServiceTombstone
  BY Zenon DEF ServiceTombstone
<1>3. /\ s.book = st.book \/ s.book = [st.book EXCEPT ![x] = None]
      /\ \/ s.tombstones = st.tombstones
         \/ s.tombstones = [st.tombstones EXCEPT ![x] = [owner |-> o, hlc |-> h]]
      /\ s.lost_names = st.lost_names
      /\ s = [book |-> s.book, tombstones |-> s.tombstones, lost_names |-> s.lost_names]
  BY Zenon DEF ApplyUnpublish
<1>4. s \in ServiceStateV2
  BY <1>1, <1>2, <1>3, StateFields
<1>5. Clean(st) => Clean(s)
  BY <1>1, <1>3, NameAssumption, Zenon DEF Clean
<1>6. GivenUp(st, n) => GivenUp(s, n)
  BY <1>1, <1>3, Zenon DEF GivenUp
<1>7. QED BY <1>4, <1>5, <1>6, Zenon

-----------------------------------------------------------------------------
(* The parts of a step.                                                    *)

\* The invariant holds at the start.
LEMMA InitHolds == Init => IInv
<1> SUFFICES ASSUME Init PROVE IInv
  BY Zenon
<1>1. SvcInv /\ FileInv
  BY EmptyState, Zenon DEF Init, SvcInv, FileInv
<1>2. InboxInv
  BY Zenon DEF Init, InboxInv
<1>3. SnapInv
  BY Zenon DEF Init, SnapInv, FreshTasks, Stage, Writing
<1>4. RestInv
  BY BoundAssumption DEF Init, RestInv
<1>5. QED BY <1>1, <1>2, <1>3, <1>4, Zenon DEF IInv

\* A change of one node's state that keeps it sound (the locked part of a
\* request, a message or a sweep).
LEMMA SvcChange ==
  ASSUME SvcInv, NEW n \in Node, NEW s \in ServiceStateV2, Clean(s),
         n \notin Fragile => GivenUp(s, n),
         svc' = [svc EXCEPT ![n] = s]
  PROVE  SvcInv' /\ svc'[n] = s
BY Zenon DEF SvcInv

\* A broadcast of a node's own unreserved entries keeps the inboxes sound.
LEMMA Sends ==
  ASSUME InboxInv, NEW n \in Node, NEW ms \in SUBSET Msg,
         \A m \in ms : m.type = "publish" => m.name \notin Reserved /\ m.entry.owner = n,
         Broadcast(n, ms)
  PROVE  InboxInv'
<1>1. PICK got \in [Node \ {n} -> SUBSET ms] :
        inbox' = [k \in Node |-> IF k = n THEN inbox[k] ELSE inbox[k] \cup got[k]]
  BY Zenon DEF Broadcast
<1>2. inbox' \in [Node -> SUBSET Msg]
  BY <1>1, Zenon DEF InboxInv
<1>3. ASSUME NEW k \in Node, NEW m \in inbox'[k] PROVE Honest(m, k)
  <2>1. CASE m \in inbox[k]
    BY <2>1, Zenon DEF InboxInv
  <2>2. CASE m \notin inbox[k]
    <3>1. k # n /\ m \in ms
      BY <1>1, <2>2, Zenon
    <3>2. QED BY <3>1, Zenon DEF Honest
  <2>3. QED BY <2>1, <2>2, Zenon
<1>4. QED BY <1>2, <1>3, Zenon DEF InboxInv

\* A task moves to a stage in which it needs no snapshot, or has a sound one.
LEMMA TaskMoves ==
  ASSUME SnapInv, NEW n \in Node, NEW t \in Task, NEW stage \in Stage,
         NEW st \in ServiceStateV2 \cup {None},
         stage \in Writing => st \in ServiceStateV2 /\ Clean(st),
         at' = [at EXCEPT ![n][t] = stage],
         snap' = [snap EXCEPT ![n][t] = st]
  PROVE  SnapInv'
<1>1. at' \in [Node -> [Task -> Stage]] /\ snap' \in [Node -> [Task -> ServiceStateV2 \cup {None}]]
  BY Zenon DEF SnapInv
<1>2. ASSUME NEW k \in Node, NEW u \in Task, at'[k][u] \in Writing
      PROVE  snap'[k][u] \in ServiceStateV2 /\ Clean(snap'[k][u])
  <2>1. CASE k = n /\ u = t
    <3>1. at'[k][u] = stage /\ snap'[k][u] = st
      BY <2>1, Zenon DEF SnapInv
    <3>2. QED BY <1>2, <3>1, Zenon
  <2>2. CASE ~(k = n /\ u = t)
    <3>1. at'[k][u] = at[k][u] /\ snap'[k][u] = snap[k][u]
      BY <2>2, Zenon DEF SnapInv
    <3>2. QED BY <1>2, <3>1, Zenon DEF SnapInv
  <2>3. QED BY <2>1, <2>2, Zenon
<1>3. QED BY <1>1, <1>2, Zenon DEF SnapInv

\* A task that keeps its snapshot.
LEMMA TaskStays ==
  ASSUME SnapInv, NEW n \in Node, NEW t \in Task, NEW stage \in Stage \ Writing,
         at' = [at EXCEPT ![n][t] = stage], UNCHANGED snap
  PROVE  SnapInv'
<1>1. snap[n][t] \in ServiceStateV2 \cup {None} /\ snap' = [snap EXCEPT ![n][t] = snap[n][t]]
  BY Zenon DEF SnapInv
<1>2. QED BY <1>1, TaskMoves, Zenon

\* The end of a request or an announcement (BroadcastAndWrite).
LEMMA WriteFollows ==
  ASSUME SnapInv, SvcInv', NEW n \in Node, NEW t \in Task, NEW ms,
         BroadcastAndWrite(n, t, ms)
  PROVE  SnapInv'
<1>1. svc'[n] \in ServiceStateV2 /\ Clean(svc'[n])
  BY Zenon DEF SvcInv
<1>2. CASE n \in Kept
  BY <1>1, <1>2, TaskMoves, Zenon DEF BroadcastAndWrite, GoesOn, Stage
<1>3. CASE n \notin Kept
  <2>1. at' = [at EXCEPT ![n][t] = "free"] /\ snap' = [snap EXCEPT ![n][t] = None]
    BY <1>3, Zenon DEF BroadcastAndWrite, GoesOn
  <2>2. "free" \in Stage /\ "free" \notin Writing
    BY Zenon DEF Stage, Writing
  <2>3. QED BY <2>1, <2>2, TaskMoves, Zenon
<1>4. QED BY <1>2, <1>3, Zenon

\* A stamp of this node's clock, and an entry with it.
LEMMA Stamped ==
  ASSUME RestInv, NEW n \in Node, NEW w \in wall[n]..MaxWall
  PROVE  /\ w \in 1..MaxWall /\ now_hlc(n, w) \in HLC
         /\ NewEntry(n, w) \in ServiceEntryV2 /\ NewEntry(n, w).owner = n
<1>1. w \in 1..MaxWall
  BY BoundAssumption DEF RestInv
<1>2. now_hlc(n, w) \in HLC
  BY <1>1 DEF now_hlc, HLC
<1>3. QED BY <1>1, <1>2, Zenon DEF NewEntry, ServiceEntryV2

-----------------------------------------------------------------------------
(* One lemma per action.                                                   *)

\* A publish request (publish_service): applied and broadcast, or refused.
LEMMA ApiPublishKeeps ==
  ASSUME IInv, NEW n \in Node, NEW t \in Request, NEW x \in Name, ApiPublish(n, t, x)
  PROVE  IInv'
<1> USE DEF IInv
<1>1. PICK w \in wall[n]..MaxWall :
        /\ wall' = [wall EXCEPT ![n] = w]
        /\ IF MayPublish(n, x)
           THEN LET e == NewEntry(n, w) IN
                /\ svc' = [svc EXCEPT ![n] = ApplyPublish(@, n, x, e)]
                /\ BroadcastAndWrite(n, t, {Publish(x, e)})
           ELSE UNCHANGED <<svc, inbox, taskVars>>
  BY Zenon DEF ApiPublish
<1>2. /\ w \in 1..MaxWall
      /\ NewEntry(n, w) \in ServiceEntryV2 /\ NewEntry(n, w).owner = n
  BY Stamped, Zenon
<1>3. RestInv'
  BY <1>1, <1>2 DEF ApiPublish, RestInv
<1>4. FileInv'
  BY Zenon DEF ApiPublish, FileInv
<1>5. CASE ~MayPublish(n, x)
  <2>1. UNCHANGED <<svc, inbox, at, snap>>
    BY <1>1, <1>5, Zenon DEF taskVars
  <2>2. SvcInv' /\ InboxInv' /\ SnapInv'
    BY <2>1, Zenon DEF SvcInv, InboxInv, SnapInv
  <2>3. QED BY <1>3, <1>4, <2>2, Zenon
<1>6. CASE MayPublish(n, x)
  <2> DEFINE e == NewEntry(n, w)
             s == ApplyPublish(svc[n], n, x, e)
  <2>1. svc' = [svc EXCEPT ![n] = s] /\ BroadcastAndWrite(n, t, {Publish(x, e)})
    BY <1>1, <1>6, Zenon
  <2>2. x \notin Reserved /\ svc[n].lost_names[x] = None
    BY <1>6, Zenon DEF MayPublish
  <2>3. svc[n] \in ServiceStateV2 /\ Clean(svc[n]) /\ (n \notin Fragile => GivenUp(svc[n], n))
    BY Zenon DEF SvcInv
  <2> HIDE DEF e
  <2>4. s \in ServiceStateV2 /\ Clean(s) /\ (n \notin Fragile => GivenUp(s, n))
    BY <1>2, <2>2, <2>3, PublishKeeps DEF e
  <2> HIDE DEF s
  <2>5. SvcInv'
    BY <2>1, <2>4, SvcChange, Zenon
  <2>6. Publish(x, e) \in Msg /\ Publish(x, e).name = x /\ Publish(x, e).entry.owner = n
    BY <1>2, Zenon DEF Publish, Msg, PublishMsg, e
  <2>7. InboxInv'
    BY <2>1, <2>2, <2>6, Sends, Zenon DEF BroadcastAndWrite
  <2>8. SnapInv'
    BY <2>1, <2>5, WriteFollows, Zenon DEF Task
  <2>9. QED BY <1>3, <1>4, <2>5, <2>7, <2>8, Zenon
<1>7. QED BY <1>5, <1>6, Zenon

\* An unpublish request (unpublish_service) for any name.
LEMMA ApiUnpublishKeeps ==
  ASSUME IInv, NEW n \in Node, NEW t \in Request, NEW x \in Name, ApiUnpublish(n, t, x)
  PROVE  IInv'
<1> USE DEF IInv
<1>1. PICK w \in wall[n]..MaxWall :
        /\ wall' = [wall EXCEPT ![n] = w]
        /\ svc' = [svc EXCEPT ![n] = ApplyUnpublish(@, x, n, now_hlc(n, w))]
        /\ BroadcastAndWrite(n, t, {Unpublish(x, n, now_hlc(n, w))})
  BY Zenon DEF ApiUnpublish
<1>2. w \in 1..MaxWall /\ now_hlc(n, w) \in HLC
  BY Stamped, Zenon
<1>3. RestInv'
  BY <1>1, <1>2 DEF ApiUnpublish, RestInv
<1>4. FileInv'
  BY Zenon DEF ApiUnpublish, FileInv
<1> DEFINE h == now_hlc(n, w)
           s == ApplyUnpublish(svc[n], x, n, h)
<1>5. svc' = [svc EXCEPT ![n] = s] /\ BroadcastAndWrite(n, t, {Unpublish(x, n, h)})
  BY <1>1, Zenon
<1>6. svc[n] \in ServiceStateV2 /\ Clean(svc[n]) /\ (n \notin Fragile => GivenUp(svc[n], n))
  BY Zenon DEF SvcInv
<1> HIDE DEF h
<1>7. s \in ServiceStateV2 /\ Clean(s) /\ (n \notin Fragile => GivenUp(s, n))
  BY <1>2, <1>6, UnpublishKeeps DEF h
<1> HIDE DEF s
<1>8. SvcInv'
  BY <1>5, <1>7, SvcChange, Zenon
<1>9. Unpublish(x, n, h) \in Msg /\ Unpublish(x, n, h).type = "unpublish"
  BY <1>2, Zenon DEF Unpublish, Msg, UnpublishMsg, h
<1>10. InboxInv'
  BY <1>5, <1>9, Sends, Zenon DEF BroadcastAndWrite
<1>11. SnapInv'
  BY <1>5, <1>8, WriteFollows, Zenon DEF Task
<1>12. QED BY <1>3, <1>4, <1>8, <1>10, <1>11, Zenon

\* A message at the dispatch loop: its entry is neither reserved nor the node's own.
LEMMA DeliverKeeps ==
  ASSUME IInv, NEW n \in Node, NEW m \in inbox[n], Deliver(n, m)
  PROVE  IInv'
<1> USE DEF IInv
<1>1. FileInv' /\ RestInv'
  BY Zenon DEF Deliver, FileInv, RestInv
<1>2. InboxInv'
  BY Zenon DEF Deliver, InboxInv
<1>3. m \in Msg /\ Honest(m, n)
  BY Zenon DEF InboxInv
<1> DEFINE s == ApplyService(svc[n], n, m)
<1>4. svc' = [svc EXCEPT ![n] = s]
  BY Zenon DEF Deliver
<1>5. svc[n] \in ServiceStateV2 /\ Clean(svc[n]) /\ (n \notin Fragile => GivenUp(svc[n], n))
  BY Zenon DEF SvcInv
<1>6. s \in ServiceStateV2 /\ Clean(s) /\ (n \notin Fragile => GivenUp(s, n))
  <2>1. CASE m.type = "publish"
    <3>1. m.name \in Name /\ m.entry \in ServiceEntryV2 /\ m.name \notin Reserved
            /\ m.entry.owner # n
      BY <1>3, <2>1, Zenon DEF Honest, Msg, PublishMsg, UnpublishMsg
    <3>2. s = ApplyPublish(svc[n], n, m.name, m.entry)
      BY <2>1, Zenon DEF ApplyService
    <3>3. QED BY <1>5, <3>1, <3>2, PublishKeeps
  <2>2. CASE m.type # "publish"
    <3>1. m.name \in Name /\ m.owner \in Node /\ m.hlc \in HLC
      BY <1>3, <2>2, Zenon DEF Msg, PublishMsg, UnpublishMsg
    <3>2. s = ApplyUnpublish(svc[n], m.name, m.owner, m.hlc)
      BY <2>2, Zenon DEF ApplyService
    <3>3. QED BY <1>5, <3>1, <3>2, UnpublishKeeps
  <2>3. QED BY <2>1, <2>2, Zenon
<1> HIDE DEF s
<1>7. SvcInv'
  BY <1>4, <1>6, SvcChange, Zenon
<1>8. SnapInv'
  <2> DEFINE stage == IF n \in Kept THEN "applied" ELSE "free"
  <2>1. at' = [at EXCEPT ![n]["dispatch"] = stage] /\ UNCHANGED snap
    BY Zenon DEF Deliver, GoesOn
  <2>2. stage \in Stage \ Writing /\ "dispatch" \in Task
    BY Zenon DEF Stage, Writing, Task
  <2> HIDE DEF stage
  <2>3. QED BY <2>1, <2>2, TaskStays, Zenon
<1>9. QED BY <1>1, <1>2, <1>7, <1>8, Zenon

\* The sweep choosing names changes no state that matters here.
LEMMA SweepCollectKeeps ==
  ASSUME IInv, NEW n \in Node, SweepCollect(n)
  PROVE  IInv'
<1> USE DEF IInv
<1>1. SvcInv' /\ FileInv' /\ InboxInv'
  BY Zenon DEF SweepCollect, SvcInv, FileInv, InboxInv
<1>2. RestInv'
  BY Zenon DEF SweepCollect, RestInv
<1>3. SnapInv'
  <2> DEFINE stage == IF doomed'[n] = {} THEN "gc" ELSE "sweep"
  <2>1. at' = [at EXCEPT ![n]["tick"] = stage] /\ UNCHANGED snap
    BY Zenon DEF SweepCollect
  <2>2. stage \in Stage \ Writing /\ "tick" \in Task
    BY Zenon DEF Stage, Writing, Task
  <2> HIDE DEF stage
  <2>3. QED BY <2>1, <2>2, TaskStays, Zenon
<1>4. QED BY <1>1, <1>2, <1>3, Zenon

\* A sweep drops entries, and so what holds of a state without one holds on.
LEMMA SweepDropKeeps ==
  ASSUME IInv, NEW n \in Node, SweepDrop(n)
  PROVE  IInv'
<1> USE DEF IInv
<1>1. FileInv' /\ InboxInv' /\ RestInv'
  BY Zenon DEF SweepDrop, FileInv, InboxInv, RestInv
<1> DEFINE st == svc[n]
           b == Without(st.book, doomed[n])
           s == [st EXCEPT !.book = b]
<1>2. svc' = [svc EXCEPT ![n] = s]
  BY Zenon DEF SweepDrop
<1>3. st \in ServiceStateV2 /\ Clean(st) /\ (n \notin Fragile => GivenUp(st, n))
  BY Zenon DEF SvcInv
<1>4. b \in [Name -> ServiceEntryV2 \cup {None}] /\ \A x \in Name : b[x] = None \/ b[x] = st.book[x]
  BY <1>3, StateFields, Zenon DEF Without
<1> HIDE DEF st, b
<1>5. s \in ServiceStateV2 /\ s.book = b /\ s.lost_names = st.lost_names
  BY <1>3, <1>4, Zenon DEF ServiceStateV2
<1>6. Clean(s)
  BY <1>3, <1>4, <1>5, NameAssumption, Zenon DEF Clean
<1>7. n \notin Fragile => GivenUp(s, n)
  BY <1>3, <1>4, <1>5, Zenon DEF GivenUp
<1> HIDE DEF s
<1>8. SvcInv'
  BY <1>2, <1>5, <1>6, <1>7, SvcChange, Zenon
<1>9. SnapInv'
  <2>1. at' = [at EXCEPT ![n]["tick"] = "gc"] /\ UNCHANGED snap
    BY Zenon DEF SweepDrop
  <2>2. "gc" \in Stage \ Writing /\ "tick" \in Task
    BY Zenon DEF Stage, Writing, Task
  <2>3. QED BY <2>1, <2>2, TaskStays, Zenon
<1>10. QED BY <1>1, <1>8, <1>9, Zenon

\* The sweep dropping tombstones leaves books and lost names alone.
LEMMA SweepGcKeeps ==
  ASSUME IInv, NEW n \in Node, SweepGc(n)
  PROVE  IInv'
<1> USE DEF IInv
<1>1. PICK gc \in SUBSET (Buried(n) \cap observed[n]) :
        /\ svc' = [svc EXCEPT ![n].tombstones = Without(@, gc)]
        /\ observed' = [observed EXCEPT ![n] = Buried(n) \ gc]
        /\ GoesOn(n, "tick", IF doomed[n] \cup gc = {} THEN "announce" ELSE "applied",
                  "announce")
  BY Zenon DEF SweepGc
<1>2. FileInv' /\ InboxInv'
  BY Zenon DEF SweepGc, FileInv, InboxInv
<1>3. RestInv'
  BY <1>1, Zenon DEF SweepGc, RestInv, Buried
<1> DEFINE st == svc[n]
           d == Without(st.tombstones, gc)
           s == [st EXCEPT !.tombstones = d]
<1>4. svc' = [svc EXCEPT ![n] = s]
  BY <1>1, Zenon
<1>5. st \in ServiceStateV2 /\ Clean(st) /\ (n \notin Fragile => GivenUp(st, n))
  BY Zenon DEF SvcInv
<1>6. d \in [Name -> ServiceTombstone \cup {None}]
  BY <1>5, StateFields, Zenon DEF Without
<1> HIDE DEF st, d
<1>7. s \in ServiceStateV2 /\ s.book = st.book /\ s.lost_names = st.lost_names
  BY <1>5, <1>6, Zenon DEF ServiceStateV2
<1>8. Clean(s) /\ (n \notin Fragile => GivenUp(s, n))
  BY <1>5, <1>7, Zenon DEF Clean, GivenUp
<1> HIDE DEF s
<1>9. SvcInv'
  BY <1>4, <1>7, <1>8, SvcChange, Zenon
<1>10. SnapInv'
  <2> DEFINE stage == IF n \in Kept
                      THEN IF doomed[n] \cup gc = {} THEN "announce" ELSE "applied"
                      ELSE "announce"
  <2>1. at' = [at EXCEPT ![n]["tick"] = stage] /\ UNCHANGED snap
    BY <1>1, Zenon DEF SweepGc, GoesOn
  <2>2. stage \in Stage \ Writing /\ "tick" \in Task
    BY Zenon DEF Stage, Writing, Task
  <2> HIDE DEF stage
  <2>3. QED BY <2>1, <2>2, TaskStays, Zenon
<1>11. QED BY <1>2, <1>3, <1>9, <1>10, Zenon

\* A node announces its own entries; none of them has a reserved name.
LEMMA AnnounceKeeps ==
  ASSUME IInv, NEW n \in Node, Announce(n)
  PROVE  IInv'
<1> USE DEF IInv
<1>1. SvcInv' /\ FileInv' /\ RestInv'
  BY Zenon DEF Announce, SvcInv, FileInv, RestInv
<1>2. /\ svc[n].book \in [Name -> ServiceEntryV2 \cup {None}]
      /\ svc[n].tombstones \in [Name -> ServiceTombstone \cup {None}]
      /\ Clean(svc[n])
  BY StateFields, Zenon DEF SvcInv
<1>3. \A m \in Own(n) : /\ m \in Msg
                        /\ m.type = "publish" => m.name \notin Reserved /\ m.entry.owner = n
  <2>1. ASSUME NEW m \in OwnEntries(n)
        PROVE  m \in Msg /\ m.name \notin Reserved /\ m.entry.owner = n
    <3>1. PICK x \in Name : Owns(n, x) /\ m = Publish(x, svc[n].book[x])
      BY <2>1, Zenon DEF OwnEntries
    <3>2. svc[n].book[x] \in ServiceEntryV2 /\ svc[n].book[x].owner = n /\ x \notin Reserved
      BY <1>2, <3>1, Zenon DEF Owns, Clean
    <3>3. QED BY <3>1, <3>2, Zenon DEF Publish, Msg, PublishMsg
  <2>2. ASSUME NEW m \in OwnTombstones(n)
        PROVE  m \in Msg /\ m.type = "unpublish"
    <3>1. PICK x \in Buried(n) : m = Unpublish(x, n, svc[n].tombstones[x].hlc)
      BY <2>2, Zenon DEF OwnTombstones
    <3>2. x \in Name /\ svc[n].tombstones[x].hlc \in HLC
      BY <1>2, Zenon DEF Buried, ServiceTombstone
    <3>3. QED BY <3>1, <3>2, Zenon DEF Unpublish, Msg, UnpublishMsg
  <2>3. QED BY <2>1, <2>2, Zenon DEF Own
<1>4. InboxInv'
  BY <1>3, Sends, Zenon DEF Announce, BroadcastAndWrite
<1>5. SnapInv'
  BY <1>1, WriteFollows, Zenon DEF Announce, Task
<1>6. QED BY <1>1, <1>4, <1>5, Zenon

\* The first half of a snapshot holds the book of a sound state.
LEMMA CloneBookKeeps ==
  ASSUME IInv, NEW n \in Node, NEW t \in Task, CloneBook(n, t)
  PROVE  IInv'
<1> USE DEF IInv
<1>1. SvcInv' /\ FileInv' /\ InboxInv' /\ RestInv'
  BY Zenon DEF CloneBook, SvcInv, FileInv, InboxInv, RestInv
<1> DEFINE s == [DefaultState EXCEPT !.book = svc[n].book]
<1>2. svc[n] \in ServiceStateV2 /\ Clean(svc[n])
  BY Zenon DEF SvcInv
<1>3. s \in ServiceStateV2 /\ s.book = svc[n].book
  BY <1>2, EmptyState, Zenon DEF ServiceStateV2
<1>4. Clean(s)
  BY <1>2, <1>3, Zenon DEF Clean
<1>5. at' = [at EXCEPT ![n][t] = "cloning"] /\ snap' = [snap EXCEPT ![n][t] = s]
  BY Zenon DEF CloneBook
<1> HIDE DEF s
<1>6. SnapInv'
  BY <1>3, <1>4, <1>5, TaskMoves, Zenon DEF Stage
<1>7. QED BY <1>1, <1>6, Zenon

\* The second half keeps that book, however the state has changed since.
LEMMA CloneRestKeeps ==
  ASSUME IInv, NEW n \in Node, NEW t \in Task, CloneRest(n, t)
  PROVE  IInv'
<1> USE DEF IInv
<1>1. SvcInv' /\ FileInv' /\ InboxInv' /\ RestInv'
  BY Zenon DEF CloneRest, SvcInv, FileInv, InboxInv, RestInv
<1> DEFINE s == [svc[n] EXCEPT !.book = snap[n][t].book]
<1>2. svc[n] \in ServiceStateV2
  BY Zenon DEF SvcInv
<1>3. snap[n][t] \in ServiceStateV2 /\ Clean(snap[n][t])
  BY Zenon DEF CloneRest, SnapInv, Writing
<1>4. s \in ServiceStateV2 /\ s.book = snap[n][t].book
  BY <1>2, <1>3, Zenon DEF ServiceStateV2
<1>5. Clean(s)
  BY <1>3, <1>4, Zenon DEF Clean
<1>6. at' = [at EXCEPT ![n][t] = "flush"] /\ snap' = [snap EXCEPT ![n][t] = s]
  BY Zenon DEF CloneRest
<1> HIDE DEF s
<1>7. SnapInv'
  BY <1>4, <1>5, <1>6, TaskMoves, Zenon DEF Stage
<1>8. QED BY <1>1, <1>7, Zenon

\* A write that succeeds leaves a sound snapshot in the file.
LEMMA PersistKeeps ==
  ASSUME IInv, NEW n \in Node, NEW t \in Task, Persist(n, t)
  PROVE  IInv'
<1> USE DEF IInv
<1>1. SvcInv' /\ InboxInv' /\ RestInv'
  BY Zenon DEF Persist, SvcInv, InboxInv, RestInv
<1>2. snap[n][t] \in ServiceStateV2 /\ Clean(snap[n][t])
  BY Zenon DEF Persist, SnapInv, Writing
<1>3. FileInv'
  BY <1>2, Zenon DEF Persist, FileInv
<1>4. SnapInv'
  <2> DEFINE stage == IF t = "tick" /\ at[n][t] = "flush" THEN "announce" ELSE "free"
  <2>1. at' = [at EXCEPT ![n][t] = stage] /\ snap' = [snap EXCEPT ![n][t] = None]
    BY Zenon DEF Persist
  <2>2. stage \in Stage \ Writing
    BY Zenon DEF Stage, Writing
  <2> HIDE DEF stage
  <2>3. QED BY <2>1, <2>2, TaskMoves, Zenon
<1>5. QED BY <1>1, <1>3, <1>4, Zenon

\* A daemon comes back with its file's state or with nothing.
LEMMA RestartKeeps ==
  ASSUME IInv, NEW n \in Node, Restart(n)
  PROVE  IInv'
<1> USE DEF IInv
<1>1. PICK st \in {file[n], DefaultState} : svc' = [svc EXCEPT ![n] = st]
  BY Zenon DEF Restart
<1>2. st \in ServiceStateV2 /\ Clean(st) /\ n \in Fragile
  BY EmptyState, Zenon DEF Restart, FileInv
<1>3. SvcInv'
  BY <1>1, <1>2, SvcChange, Zenon
<1>4. FileInv' /\ InboxInv'
  BY Zenon DEF Restart, FileInv, InboxInv
<1>5. RestInv'
  BY BoundAssumption DEF Restart, RestInv
<1>6. SnapInv'
  BY Zenon DEF Restart, SnapInv, FreshTasks, Stage, Writing
<1>7. QED BY <1>3, <1>4, <1>5, <1>6, Zenon

-----------------------------------------------------------------------------
(* The invariant and what follows from it.                                 *)

\* Every step keeps the invariant, one action at a time.
LEMMA NextKeeps == IInv /\ [Next]_vars => IInv'
<1> SUFFICES ASSUME IInv, [Next]_vars PROVE IInv'
  BY Zenon
<1>1. ASSUME NEW n \in Node, NEW t \in Request, NEW x \in Name, ApiPublish(n, t, x)
      PROVE  IInv'
  BY <1>1, ApiPublishKeeps, Zenon
<1>2. ASSUME NEW n \in Node, NEW t \in Request, NEW x \in Name, ApiUnpublish(n, t, x)
      PROVE  IInv'
  BY <1>2, ApiUnpublishKeeps, Zenon
<1>3. ASSUME NEW n \in Node, NEW m \in inbox[n], Deliver(n, m) PROVE IInv'
  BY <1>3, DeliverKeeps, Zenon
<1>4. ASSUME NEW n \in Node, NEW t \in Task, Step(n, t) PROVE IInv'
  BY <1>4, CloneBookKeeps, CloneRestKeeps, PersistKeeps, Zenon DEF Step
<1>5. ASSUME NEW n \in Node, Tick(n) PROVE IInv'
  BY <1>5, SweepCollectKeeps, SweepDropKeeps, SweepGcKeeps, AnnounceKeeps, Zenon DEF Tick
<1>6. ASSUME NEW n \in Node, Restart(n) PROVE IInv'
  BY <1>6, RestartKeeps, Zenon
<1>7. CASE UNCHANGED vars
  BY <1>7, Zenon DEF vars, taskVars, IInv, SvcInv, FileInv, InboxInv, SnapInv, RestInv
<1>8. QED BY <1>1, <1>2, <1>3, <1>4, <1>5, <1>6, <1>7, Zenon DEF Next

\* The inductive invariant holds throughout.
LEMMA Invariant == Spec => []IInv
BY InitHolds, NextKeeps, PTL DEF Spec

LEMMA TypesNow == IInv => TypeOK
BY Zenon DEF IInv, SvcInv, FileInv, InboxInv, SnapInv, RestInv, TypeOK, Stage

LEMMA LostNow == IInv => LostIsLost
BY Zenon DEF IInv, SvcInv, GivenUp, LostIsLost, Owns

\* Every variable keeps its type, the snapshots and the file among them: what
\* a task writes and what a restarting daemon reads is a service state.
THEOREM ServicesTypeCorrect == Spec => []TypeOK
BY TypesNow, Invariant, PTL

\* No directory ever has a reserved name (publish_service_v2 refuses it,
\* merge_service_v2 too), although the revival of a buried name does not ask.
THEOREM ReservedStayOut == Spec => []ReservedUnclaimed
<1>1. IInv => ReservedUnclaimed
  BY Zenon DEF IInv, SvcInv, Clean, ReservedUnclaimed
<1>2. QED BY <1>1, Invariant, PTL

\* A node that does not restart never again holds for itself a name it lost
\* to another owner (track_conflict_loss and the refusal in publish_service_v2).
THEOREM LostStaysLost == Spec => []LostIsLost
BY LostNow, Invariant, PTL

-----------------------------------------------------------------------------
(* Who takes a service down.                                               *)

\* Stamps are totally ordered (Ord for HLC).
LEMMA HlcTotal ==
  ASSUME NEW a \in HLC, NEW b \in HLC
  PROVE  HlcLess(a, b) \/ HlcLeq(b, a)
<1>1. /\ {a.wall_clock, b.wall_clock} \subseteq Nat /\ {a.counter, b.counter} \subseteq Nat
      /\ {a.node_id, b.node_id} \subseteq Nat
      /\ a = [wall_clock |-> a.wall_clock, counter |-> a.counter, node_id |-> a.node_id]
      /\ b = [wall_clock |-> b.wall_clock, counter |-> b.counter, node_id |-> b.node_id]
  BY NodeAssumption, Zenon DEF HLC
<1>2. QED BY <1>1 DEF HlcLess, HlcLeq

\* What may become of an entry e when a record f arrives: a newer one of its
\* owner, or one that was claimed no later.
Replaced(e, f) ==
  \/ f.owner = e.owner /\ HlcLess(e.updated_at, f.updated_at)
  \/ f.owner # e.owner /\ HlcLeq(f.first_claimed_at, e.first_claimed_at)

\* A publish replaces an entry only so (merge_service_v2).
LEMMA PublishReplaces ==
  ASSUME NEW st \in ServiceStateV2, NEW n \in Node, NEW x \in Name,
         NEW e \in ServiceEntryV2, NEW y \in Name, st.book[y] # None
  PROVE  \/ ApplyPublish(st, n, x, e).book[y] = st.book[y]
         \/ ApplyPublish(st, n, x, e).book[y] = e /\ Replaced(st.book[y], e)
<1> DEFINE r == PublishOutcome(st, x, e)
           b == ApplyPublish(st, n, x, e).book
           old == st.book[x]
<1>1. /\ st.book \in [Name -> ServiceEntryV2 \cup {None}]
      /\ b = [st.book EXCEPT ![x] = CASE r.result \in {"Inserted", "Updated", "Revived"} -> e
                                      [] r.result = "Conflict" -> r.winner
                                      [] OTHER -> st.book[x]]
  BY StateFields, Zenon DEF ApplyPublish, BookAfter
<1> SUFFICES ASSUME y = x
             PROVE  b[x] = old \/ (b[x] = e /\ Replaced(old, e))
  BY <1>1, Zenon
<1>2. old \in ServiceEntryV2 /\ r = merge_service_v2(x, old, e)
  BY <1>1, Zenon DEF PublishOutcome
<1>3. b[x] = CASE r.result \in {"Inserted", "Updated", "Revived"} -> e
               [] r.result = "Conflict" -> r.winner
               [] OTHER -> old
  BY <1>1, Zenon
<1> HIDE DEF b, r, old
<1>4. CASE x \in Reserved
  BY <1>2, <1>3, <1>4, Zenon DEF merge_service_v2
<1>5. CASE x \notin Reserved /\ old.owner = e.owner
  <2>1. r = [result |-> IF HlcLess(old.updated_at, e.updated_at) THEN "Updated" ELSE "Unchanged"]
    BY <1>2, <1>5, NoRecordAssumption, Zenon DEF merge_service_v2
  <2>2. QED BY <1>3, <1>5, <2>1, Zenon DEF Replaced
<1>6. CASE x \notin Reserved /\ old.owner # e.owner
  <2> DEFINE c == resolve_service_conflict_v2(old, e)
  <2>1. r = [result |-> "Conflict", winner |-> c.winner, loser |-> c.loser]
    BY <1>2, <1>6, NoRecordAssumption, Zenon DEF merge_service_v2
  <2>2. b[x] = c.winner
    BY <1>3, <2>1, Zenon
  <2>3. old.first_claimed_at \in HLC /\ e.first_claimed_at \in HLC
    BY <1>2, Zenon DEF ServiceEntryV2
  <2>4. \/ c.winner = old
        \/ c.winner = e /\ ~HlcLess(old.first_claimed_at, e.first_claimed_at)
    BY Zenon DEF resolve_service_conflict_v2
  <2>5. QED BY <1>6, <2>2, <2>3, <2>4, HlcTotal, Zenon DEF Replaced
<1>7. QED BY <1>4, <1>5, <1>6, Zenon

\* An unpublish by o removes an entry of o's (apply_service_unpublish_v2).
LEMMA UnpublishRemoves ==
  ASSUME NEW st \in ServiceStateV2, NEW x \in Name, NEW o, NEW h,
         NEW y \in Name, st.book[y] # None
  PROVE  \/ ApplyUnpublish(st, x, o, h).book[y] = st.book[y]
         \/ ApplyUnpublish(st, x, o, h).book[y] = None /\ st.book[y].owner = o
<1>1. st.book \in [Name -> ServiceEntryV2 \cup {None}]
  BY StateFields, Zenon
<1>2. QED BY <1>1, Zenon DEF ApplyUnpublish, TakesDown

\* A step takes an entry out of a directory only for one of the reasons given.
LEMMA TakenDownOnly ==
  ASSUME IInv, [Next]_vars
  PROVE  TakenDownStep
<1> SUFFICES ASSUME NEW n \in Node, NEW x \in Name, restarts' = restarts,
                    svc[n].book[x] # None, svc'[n].book[x] # svc[n].book[x]
             PROVE  LET e == svc[n].book[x]
                        f == svc'[n].book[x] IN
                    \/ /\ f = None
                       /\ \/ at[n]["tick"] = "sweep" /\ x \in doomed[n]
                          \/ \E m \in inbox[n] \ inbox'[n] :
                               m.type = "unpublish" /\ m.owner = e.owner
                          \/ e.owner = n /\ asked'[n].unpublish > asked[n].unpublish
                    \/ f # None /\ f.owner = e.owner /\ HlcLess(e.updated_at, f.updated_at)
                    \/ f # None /\ f.owner # e.owner
                       /\ HlcLeq(f.first_claimed_at, e.first_claimed_at)
  BY Zenon DEF TakenDownStep
<1> DEFINE e == svc[n].book[x]
           f == svc'[n].book[x]
<1>1. /\ svc \in [Node -> ServiceStateV2] /\ inbox \in [Node -> SUBSET Msg]
      /\ asked \in [Node -> [publish : Nat, unpublish : Nat]] /\ restarts \in Nat
      /\ svc[n] \in ServiceStateV2 /\ svc[n].book \in [Name -> ServiceEntryV2 \cup {None}]
  BY BoundAssumption, StateFields DEF IInv, SvcInv, InboxInv, RestInv
<1>2. f \in ServiceEntryV2 /\ Replaced(e, f) =>
        \/ f # None /\ f.owner = e.owner /\ HlcLess(e.updated_at, f.updated_at)
        \/ f # None /\ f.owner # e.owner /\ HlcLeq(f.first_claimed_at, e.first_claimed_at)
  BY NoRecordAssumption, Zenon DEF Replaced
<1>3. ASSUME NEW k \in Node, NEW t \in Request, NEW y \in Name, ApiPublish(k, t, y)
      PROVE  f \in ServiceEntryV2 /\ Replaced(e, f)
  <2>1. PICK w \in wall[k]..MaxWall :
          svc' = svc \/ svc' = [svc EXCEPT ![k] = ApplyPublish(svc[k], k, y, NewEntry(k, w))]
    BY <1>3, Zenon DEF ApiPublish
  <2>2. NewEntry(k, w) \in ServiceEntryV2
    BY Stamped, Zenon DEF IInv
  <2> DEFINE g == NewEntry(k, w)
  <2> HIDE DEF g
  <2>3. k = n /\ f = ApplyPublish(svc[n], n, y, g).book[x]
    BY <1>1, <2>1, Zenon DEF g
  <2>4. QED BY <1>1, <2>2, <2>3, PublishReplaces DEF g
<1>4. ASSUME NEW k \in Node, NEW t \in Request, NEW y \in Name, ApiUnpublish(k, t, y)
      PROVE  f = None /\ e.owner = n /\ asked'[n].unpublish > asked[n].unpublish
  <2>1. PICK w \in wall[k]..MaxWall :
          svc' = [svc EXCEPT ![k] = ApplyUnpublish(svc[k], y, k, now_hlc(k, w))]
    BY <1>4, Zenon DEF ApiUnpublish
  <2>2. k = n /\ f = ApplyUnpublish(svc[n], y, n, now_hlc(n, w)).book[x]
    BY <1>1, <2>1, Zenon
  <2>3. f = None /\ e.owner = n
    BY <1>1, <2>2, UnpublishRemoves
  <2>4. asked' = [asked EXCEPT ![k].unpublish = @ + 1]
    BY <1>4, Zenon DEF ApiUnpublish
  <2>5. asked'[n].unpublish > asked[n].unpublish
    BY <1>1, <2>2, <2>4
  <2>6. QED BY <2>3, <2>5, Zenon
<1>5. ASSUME NEW k \in Node, NEW m \in inbox[k], Deliver(k, m)
      PROVE  \/ f \in ServiceEntryV2 /\ Replaced(e, f)
             \/ f = None /\ \E i \in inbox[n] \ inbox'[n] :
                               i.type = "unpublish" /\ i.owner = e.owner
  <2>1. /\ svc' = [svc EXCEPT ![k] = ApplyService(svc[k], k, m)]
        /\ inbox' = [inbox EXCEPT ![k] = @ \ {m}]
    BY <1>5, Zenon DEF Deliver
  <2>2. k = n /\ f = ApplyService(svc[n], n, m).book[x] /\ m \in inbox[n] \ inbox'[n]
    BY <1>1, <2>1, Zenon
  <2>3. m \in Msg
    BY <1>1, Zenon
  <2>4. CASE m.type = "publish"
    <3>1. m.name \in Name /\ m.entry \in ServiceEntryV2
      BY <2>3, <2>4, Zenon DEF Msg, PublishMsg, UnpublishMsg
    <3>2. f = ApplyPublish(svc[n], n, m.name, m.entry).book[x]
      BY <2>2, <2>4, Zenon DEF ApplyService
    <3>3. QED BY <1>1, <3>1, <3>2, PublishReplaces, Zenon
  <2>5. CASE m.type # "publish"
    <3>1. m.name \in Name /\ m.type = "unpublish"
      BY <2>3, <2>5, Zenon DEF Msg, PublishMsg, UnpublishMsg
    <3>2. f = ApplyUnpublish(svc[n], m.name, m.owner, m.hlc).book[x]
      BY <2>2, <2>5, Zenon DEF ApplyService
    <3>3. f = None /\ e.owner = m.owner
      BY <1>1, <3>1, <3>2, UnpublishRemoves
    <3>4. QED BY <2>2, <3>1, <3>3, Zenon
  <2>6. QED BY <2>4, <2>5, Zenon
<1>6. ASSUME NEW k \in Node, SweepDrop(k)
      PROVE  f = None /\ at[n]["tick"] = "sweep" /\ x \in doomed[n]
  <2>1. svc' = [svc EXCEPT ![k].book = Without(@, doomed[k])] /\ at[k]["tick"] = "sweep"
    BY <1>6, Zenon DEF SweepDrop
  <2>2. k = n /\ f = Without(svc[n].book, doomed[n])[x]
    <3>1. svc[k] \in ServiceStateV2
      BY <1>1, Zenon
    <3>2. QED BY <1>1, <2>1, <3>1, Zenon DEF ServiceStateV2
  <2>3. QED BY <2>1, <2>2, Zenon DEF Without
<1>7. ASSUME NEW k \in Node, SweepGc(k)
      PROVE  FALSE
  <2>1. PICK gc : svc' = [svc EXCEPT ![k].tombstones = Without(@, gc)]
    BY <1>7, Zenon DEF SweepGc
  <2>2. svc'[n].book = svc[n].book
    BY <1>1, <2>1, Zenon DEF ServiceStateV2
  <2>3. QED BY <2>2, Zenon
<1>8. ASSUME NEW k \in Node, Restart(k)
      PROVE  FALSE
  <2>1. restarts' = restarts + 1
    BY <1>8, Zenon DEF Restart
  <2>2. QED BY <1>1, <2>1
<1>9. svc' # svc
  BY Zenon
<1> HIDE DEF e, f
<1>10. CASE Next
  <2>1. PICK k \in Node :
          \/ \E t \in Request, y \in Name : ApiPublish(k, t, y) \/ ApiUnpublish(k, t, y)
          \/ \E m \in inbox[k] : Deliver(k, m)
          \/ \E t \in Task : Step(k, t)
          \/ Tick(k)
          \/ Restart(k)
    BY <1>10, Zenon DEF Next
  <2>2. \A t \in Task : ~Step(k, t)
    BY <1>9, Zenon DEF Step, CloneBook, CloneRest, Persist
  <2>3. Tick(k) => SweepDrop(k) \/ SweepGc(k)
    BY <1>9, Zenon DEF Tick, SweepCollect, Announce
  <2>4. QED BY <1>2, <1>3, <1>4, <1>5, <1>6, <1>7, <1>8, <2>1, <2>2, <2>3, Zenon DEF e, f
<1>11. QED BY <1>9, <1>10, Zenon DEF vars

\* Nobody takes a service down but its owner: an entry leaves a directory only
\* by its owner's request or message, for a claim that wins over it, or in the
\* sweep of a silent owner's names (apply_service_unpublish_v2, merge_service_v2,
\* sweep_stale_lanes).
THEOREM OwnersTakeDown == Spec => OnlyOwnerTakesDown
<1>1. IInv /\ [Next]_vars => TakenDownStep
  BY TakenDownOnly, Zenon
<1>2. QED BY <1>1, Invariant, PTL DEF Spec, OnlyOwnerTakesDown
=============================================================================
