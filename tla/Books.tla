------------------------------- MODULE Books -------------------------------
(***************************************************************************)
(* The four last-write-wins books of a daemon: peer addresses, node names, *)
(* the user directory and the first version of the service directory.      *)
(* They share no state, so a behaviour follows one of them, its lane.      *)
(*                                                                         *)
(* Two tasks of a daemon work on a book: the anti-entropy tick, which      *)
(* refreshes the records the node itself is the source of, broadcasts the  *)
(* whole book and then saves it, and the gossip dispatch loop, which       *)
(* merges one record and saves the book when it learned something.  Each   *)
(* saves a snapshot taken earlier, so either may overwrite the other's     *)
(* newer file with an older one.  A file matters to nobody but a later run *)
(* of the same daemon: it is followed at the nodes in Fragile.             *)
(***************************************************************************)
EXTENDS Hlc, FiniteSets

CONSTANTS User,         \* user names: public keys and the handles of seed files
          Service,      \* service names
          Moving,       \* nodes whose addresses change
          Named,        \* nodes whose operator gave them a name
          Seed,         \* Seed[n]: the users in the seed file of n
          Value,        \* what a record may say; "stub": a key's bare hex
          None,         \* no record, no snapshot
          Flaky,        \* nodes where a file write can fail
          Jumpy,        \* nodes whose system clock may be set back
          Fragile,      \* nodes whose daemon may restart, and whose file matters
          MaxWall,      \* bound: wall-clock readings are 1..MaxWall
          MaxRestarts,  \* bound: daemon restarts in a behaviour
          MaxInFlight   \* bound: messages on their way to one node

ASSUME BooksAssumption ==
  /\ "stub" \in Value
  /\ Seed \in [Node -> SUBSET User]
  /\ MaxWall \in Nat \ {0} /\ MaxRestarts \in Nat

Lane == {"addr", "name", "user", "service"}
Task == {"tick", "dispatch"}

VARIABLES
  lane,       \* the book this behaviour follows
  book,       \* book[n][k]: the record of k in the book of n
  file,       \* the book as last saved
  snap,       \* snap[n][t]: the snapshot task t of n is about to save
  inbox,      \* records broadcast to a node and not yet received
  wall,       \* the last wall-clock reading of each node
  restarts,   \* restarts so far
  written     \* every <<key, entry>> a node originated

vars == <<lane, book, file, snap, inbox, wall, restarts, written>>

Keys == Node \cup User \cup Service

Said == Value \cup {"seed"}
Entry == [val : Said, at : HLC]

ASSUME NoRecordAssumption == None \notin Entry

Record(v, n, w) == [val |-> v, at |-> now_hlc(n, w)]
Empty == [k \in Keys |-> None]

\* A v1 service record originates outside the daemon, which only relays it:
\* the one a first daemon starts out with, from an earlier version.
Legacy(n) ==
  [k \in Keys |-> IF k \in Service /\ \A m \in Node : n <= m
                    THEN Record("stub", n, 1) ELSE None]

Init ==
  /\ lane \in Lane
  /\ file = [n \in Node |-> IF lane = "service" THEN Legacy(n) ELSE Empty]
  /\ book = file
  /\ snap = [n \in Node |-> [t \in Task |-> None]]
  /\ inbox = [n \in Node |-> {}]
  /\ wall = [n \in Node |-> 1]
  /\ restarts = 0
  /\ written = {<<k, book[n][k]>> : n \in Node, k \in Keys} \ (Keys \X {None})

-----------------------------------------------------------------------------
(* The merge.                                                              *)

\* Mutants: an equal or an older stamp wins as well; the first record stays.
AnyIncoming(r, e) == TRUE
FirstStays(r, e) == r = None

\* merge_peer_addr, merge_node_name, merge_user and merge_service: a record is
\* inserted where there is none and replaces one with a smaller stamp.
Wins(r, e) == r = None \/ HlcLess(r.at, e.at)

MergeRecord(b, k, e) == IF Wins(b[k], e) THEN [b EXCEPT ![k] = e] ELSE b

-----------------------------------------------------------------------------
(* The tick.                                                               *)

\* Gossip is best effort: of the records of a book, each other node gets some.
Broadcast(n, b) ==
  LET ms == {[key |-> k, entry |-> b[k]] : k \in {j \in Keys : b[j] # None}}
  IN \E got \in [Node \ {n} -> SUBSET ms] :
       /\ inbox' = [m \in Node |-> IF m = n THEN inbox[m] ELSE inbox[m] \cup got[m]]
       /\ \A m \in Node \ {n} : Cardinality(inbox'[m]) <= MaxInFlight

\* Task t of n is left with a snapshot of the book b to save.
Snapshot(n, t, b) == snap' = [snap EXCEPT ![n][t] = IF n \in Fragile THEN b ELSE None]

\* The tick of n leaves the book b, broadcasts it and will save it; the
\* records in new are its own.
Announce(n, b, new) ==
  /\ snap[n]["tick"] = None
  /\ book' = [book EXCEPT ![n] = b]
  /\ Broadcast(n, b)
  /\ Snapshot(n, "tick", b)
  /\ written' = written \cup new
  /\ UNCHANGED <<lane, file, restarts>>

\* A node reads the system clock, which goes on through a restart and at some
\* nodes may be set back.
Readings(n) == IF n \in Jumpy THEN 1..MaxWall ELSE wall[n]..MaxWall
Reads(n, w) == w \in Readings(n) /\ wall' = [wall EXCEPT ![n] = w]

\* Two ticks are seconds apart: what a node says of itself changes with the
\* reading, and without one it stays.
Steady(n, e) == book[n][n] # None /\ book[n][n].at = e.at => book[n][n] = e

\* announce_addr_book: the node's own entry is rebuilt from the endpoint's
\* addresses and put into the book whatever is there.
announce_addr_book(n) ==
  /\ lane = "addr"
  /\ \E w \in Readings(n), v \in Value :
       LET e == Record(v, n, w) IN
       /\ Reads(n, w) /\ Steady(n, e)
       /\ n \in Moving \/ v = "stub"
       /\ Announce(n, [book[n] EXCEPT ![n] = e], {<<n, e>>})

\* announce_node_name: the same, for the name the operator chose, a new one
\* coming with a restart.  A node without a name returns at once: it does not
\* relay the names it knows.
announce_node_name(n) ==
  /\ lane = "name"
  /\ n \in Named
  /\ \E w \in Readings(n), v \in Value :
       LET e == Record(v, n, w) IN
       /\ Reads(n, w) /\ Steady(n, e)
       /\ book[n][n] # None /\ restarts = 0 => book[n][n].val = v
       /\ Announce(n, [book[n] EXCEPT ![n] = e], {<<n, e>>})

\* load_user_seed: one record per line of the seed file, stamped afresh.
load_user_seed(n, w) == [u \in Seed[n] |-> Record("seed", n, w)]

\* announce_user_book: the seeds are merged like any other record.
announce_user_book(n) ==
  /\ lane = "user"
  /\ \E w \in Readings(n) :
       /\ Reads(n, w)
       /\ LET seeded == load_user_seed(n, w)
              won == {u \in Seed[n] : Wins(book[n][u], seeded[u])}
          IN Announce(n, [k \in Keys |-> IF k \in won THEN seeded[k] ELSE book[n][k]],
                      {<<u, seeded[u]>> : u \in won})

\* announce_service_book: nothing is refreshed.
announce_service_book(n) ==
  /\ lane = "service"
  /\ Announce(n, book[n], {})
  /\ UNCHANGED wall

\* Mutant: no guard for a name chosen before.
LabelOrStub(b, u, label) == label

\* spool_submission_to_user_entry: the label of the submission, or the name
\* the book has for this key, or the bare key.
DisplayName(b, u, label) ==
  IF label # "stub" THEN label ELSE IF b[u] # None THEN b[u].val ELSE "stub"

\* ingest_identity_spool, for one submission of user u; the tick does this
\* just before it announces the users.
IngestIdentity(n, u, label) ==
  /\ lane = "user"
  /\ snap[n]["tick"] = None
  /\ \E w \in Readings(n) :
       LET e == Record(DisplayName(book[n], u, label), n, w) IN
       /\ Reads(n, w)
       /\ book' = [book EXCEPT ![n] = MergeRecord(@, u, e)]
       /\ written' = IF Wins(book[n][u], e) THEN written \cup {<<u, e>>} ELSE written
  /\ UNCHANGED <<lane, file, snap, inbox, restarts>>

-----------------------------------------------------------------------------
(* The dispatch loop.                                                      *)

\* A node is the authority on its own address and its own name: it drops what
\* the mesh says of it.
apply_peer_addr_message(b, n, m) == IF m.key = n THEN b ELSE MergeRecord(b, m.key, m.entry)
apply_node_name_message(b, n, m) == IF m.key = n THEN b ELSE MergeRecord(b, m.key, m.entry)
apply_user_message(b, m) == MergeRecord(b, m.key, m.entry)
apply_service_message(b, m) == MergeRecord(b, m.key, m.entry)

Apply(b, n, m) ==
  CASE lane = "addr" -> apply_peer_addr_message(b, n, m)
    [] lane = "name" -> apply_node_name_message(b, n, m)
    [] lane = "user" -> apply_user_message(b, m)
    [] lane = "service" -> apply_service_message(b, m)

\* The book is cloned to be saved only when the message taught n something.
Deliver(n, m) ==
  /\ m \in inbox[n]
  /\ snap[n]["dispatch"] = None
  /\ inbox' = [inbox EXCEPT ![n] = @ \ {m}]
  /\ book' = [book EXCEPT ![n] = Apply(@, n, m)]
  /\ Snapshot(n, "dispatch", IF book'[n] = book[n] THEN None ELSE book'[n])
  /\ UNCHANGED <<lane, file, wall, restarts, written>>

-----------------------------------------------------------------------------
(* The files.                                                              *)

\* The snapshot replaces the file in one rename; a failure is only logged.
Save(n, t) ==
  /\ snap[n][t] # None
  /\ \/ file' = [file EXCEPT ![n] = snap[n][t]]
     \/ n \in Flaky /\ UNCHANGED file
  /\ snap' = [snap EXCEPT ![n][t] = None]
  /\ UNCHANGED <<lane, book, inbox, wall, restarts, written>>

\* A daemon starts with the book its file holds, or an empty one if the file
\* cannot be read or decoded: such a file counts as lost, since the next tick
\* replaces it.  What its tasks were doing, and what was on its way to it, is
\* gone.
Load(n) ==
  /\ n \in Fragile /\ restarts < MaxRestarts
  /\ \E b \in {file[n], Empty} : /\ book' = [book EXCEPT ![n] = b]
                                /\ file' = [file EXCEPT ![n] = b]
  /\ snap' = [snap EXCEPT ![n] = [t \in Task |-> None]]
  /\ inbox' = [inbox EXCEPT ![n] = {}]
  /\ restarts' = restarts + 1
  /\ UNCHANGED <<lane, wall, written>>

persist_addr_book(n, t) == lane = "addr" /\ Save(n, t)
persist_node_name_book(n, t) == lane = "name" /\ Save(n, t)
persist_user_book(n, t) == lane = "user" /\ Save(n, t)
persist_service_book(n, t) == lane = "service" /\ Save(n, t)

load_addr_book(n) == lane = "addr" /\ Load(n)
load_node_name_book(n) == lane = "name" /\ Load(n)
load_user_book(n) == lane = "user" /\ Load(n)
load_service_book(n) == lane = "service" /\ Load(n)

Persist(n, t) == \/ persist_addr_book(n, t) \/ persist_node_name_book(n, t)
                 \/ persist_user_book(n, t) \/ persist_service_book(n, t)

Restart(n) == \/ load_addr_book(n) \/ load_node_name_book(n)
              \/ load_user_book(n) \/ load_service_book(n)

Tick(n) == \/ announce_addr_book(n) \/ announce_node_name(n)
           \/ announce_user_book(n) \/ announce_service_book(n)

Next ==
  \E n \in Node :
    \/ Tick(n)
    \/ \E u \in User, v \in Value : IngestIdentity(n, u, v)
    \/ \E m \in inbox[n] : Deliver(n, m)
    \/ \E t \in Task : Persist(n, t)
    \/ Restart(n)

Spec == Init /\ [][Next]_vars

-----------------------------------------------------------------------------
(* Fairness: the tick's timer fires again and again and its write follows, *)
(* a message that can be received is, and a link loses messages but not    *)
(* for ever: the book a node announces at every tick gets through to each  *)
(* other node now and then.                                                *)

Heard(n, m) ==
  /\ Tick(n)
  /\ \A k \in Keys : book'[n][k] # None =>
                      [key |-> k, entry |-> book'[n][k]] \in inbox'[m]

Stamps == {now_hlc(n, w) : n \in Node, w \in 1..MaxWall}

Fairness ==
  \A n \in Node :
    /\ \A t \in Task : WF_vars(Persist(n, t))
    /\ \A k \in Keys, h \in Stamps :
         WF_vars(\E m \in inbox[n] : m.key = k /\ m.entry.at = h /\ Deliver(n, m))
    /\ \A m \in Node \ {n} : SF_vars(Heard(n, m))

FairSpec == Spec /\ Fairness

-----------------------------------------------------------------------------
(* Properties.                                                             *)

\* The values the variables take.
BookType == [Keys -> Entry \cup {None}]
TypeOK ==
  /\ lane \in Lane
  /\ book \in [Node -> BookType] /\ file \in [Node -> BookType]
  /\ snap \in [Node -> [Task -> BookType \cup {None}]]
  /\ inbox \in [Node -> SUBSET [key : Keys, entry : Entry]]
  /\ wall \in [Node -> 1..MaxWall]
  /\ restarts \in 0..MaxRestarts
  /\ written \subseteq Keys \X Entry

Promise == INSTANCE NewestWins WITH Key <- Keys, Value <- Said, copy <- book,
                                    lives <- restarts

\* The book implements its promise: whatever the order of messages, ticks,
\* late snapshots and restarts, a node only ever moves on to newer records
\* some node wrote, and a restart only takes it back to ones it had.  Only what
\* a node says of itself may go back with its clock.
KeepsPromise == Promise!Spec

\* A name a user chose is never set back to the bare key by a submission
\* without a label or by a late message, as long as one node takes the user's
\* submissions and does not restart.
OneDesk(u) == \A v, w \in written' : v[1] = u /\ w[1] = u => v[2].at.node_id = w[2].at.node_id
Labelled(r) == r # None /\ r.val # "stub"
LabelSticks ==
  [][lane = "user" /\ restarts' = 0 =>
       \A u \in User, n \in Node :
         OneDesk(u) /\ Labelled(book[n][u]) => Labelled(book'[n][u])]_vars

\* Every announced record reaches everybody: in the end all nodes hold the
\* newest record of every key some node keeps announcing.
Newest(k) == CHOOSE r \in {book[n][k] : n \in Node} :
               r # None /\ \A n \in Node : book[n][k] # None => HlcLeq(book[n][k].at, r.at)
Announced(k) == \E n \in Node : /\ book[n][k] # None
                                /\ lane = "name" => n \in Named
                                /\ book[n][k] = Newest(k)
AllHold == \A k \in Keys : Announced(k) => \A n \in Node : book[n][k] = Newest(k)
BooksAgree == <>[]AllHold
=============================================================================
