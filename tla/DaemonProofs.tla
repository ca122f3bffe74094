---------------------------- MODULE DaemonProofs ----------------------------
(***************************************************************************)
(* Proofs about the daemon's stores, its allocator and its start.          *)
(*                                                                         *)
(* The four last-write-wins books, for any mesh, any users and services and*)
(* any bounds: the book of a daemon with its two tasks, their late         *)
(* snapshots and its restarts implements NewestWins, also where the system *)
(* clock is set back.                                                      *)
(*                                                                         *)
(* The subnet allocator, for every address space; the start and the end of *)
(* the daemon, for any number of faults; and whether its router is an uplink*)
(* for others.                                                             *)
(***************************************************************************)
EXTENDS Books, Allocator, Sequences, TLAPS

\* Every record of the book b is in W.
Known(b, W) == \A k \in Keys : b[k] # None => <<k, b[k]>> \in W

\* What n says of itself goes back when its clock does.
Unordered(l, n, k) == l \in {"addr", "name"} /\ n \in Jumpy /\ k = n

\* The book f of n holds no record that its book b has not, but for older ones.
Behind(l, n, f, b) ==
  \A k \in Keys : \/ f[k] = None
                  \/ f[k] = b[k]
                  \/ b[k] # None /\ HlcLess(f[k].at, b[k].at)
                  \/ Unordered(l, n, k)

\* The inductive invariant, by what it is about.
BookInv == book \in [Node -> BookType] /\ \A n \in Node : Known(book[n], written)
FileInv ==
  /\ file \in [Node -> BookType]
  /\ \A n \in Node : Known(file[n], written) /\ Behind(lane, n, file[n], book[n])
SnapInv ==
  /\ snap \in [Node -> [Task -> BookType \cup {None}]]
  /\ \A n \in Node, t \in Task :
       snap[n][t] # None => Known(snap[n][t], written) /\ Behind(lane, n, snap[n][t], book[n])
InboxInv ==
  /\ inbox \in [Node -> SUBSET [key : Keys, entry : Entry]]
  /\ \A n \in Node : \A m \in inbox[n] : <<m.key, m.entry>> \in written
RestInv ==
  /\ lane \in Lane /\ wall \in [Node -> 1..MaxWall] /\ restarts \in 0..MaxRestarts
  /\ written \subseteq Keys \X Entry
OwnInv ==
  lane \in {"addr", "name"} =>
    \A x \in written :
      x[1] \in Node /\ (x[1] \notin Jumpy => HlcLeq(x[2].at, now_hlc(x[1], wall[x[1]])))

IInv == BookInv /\ FileInv /\ SnapInv /\ InboxInv /\ RestInv /\ OwnInv

-----------------------------------------------------------------------------
(* Stamps, records and books.                                              *)

\* Stamps are ordered (Ord for HLC).
LEMMA HlcOrder ==
  ASSUME NEW a \in HLC, NEW b \in HLC, NEW c \in HLC
  PROVE  /\ HlcLess(a, b) /\ HlcLess(b, c) => HlcLess(a, c)
         /\ HlcLeq(a, b) /\ HlcLeq(b, c) => HlcLeq(a, c)
<1>1. /\ {a.wall_clock, b.wall_clock, c.wall_clock} \subseteq Nat
      /\ {a.counter, b.counter, c.counter} \subseteq Nat
      /\ {a.node_id, b.node_id, c.node_id} \subseteq Nat
  BY NodeAssumption, Zenon DEF HLC
<1>2. HlcLess(a, b) /\ HlcLess(b, c) => HlcLess(a, c)
  BY <1>1, SMT DEF HlcLess
<1>3. QED BY <1>2, Zenon DEF HlcLeq

\* A later reading of one node's clock makes no smaller stamp (now_hlc).
LEMMA LaterStamp ==
  ASSUME NEW n \in Node, NEW v \in Nat, NEW w \in Nat, v <= w
  PROVE  /\ now_hlc(n, v) \in HLC /\ now_hlc(n, w) \in HLC
         /\ HlcLeq(now_hlc(n, v), now_hlc(n, w))
BY NodeAssumption, SMT DEF HLC, HlcLess, HlcLeq, now_hlc

\* What a node writes is a record with its stamp.
LEMMA RecordIs ==
  ASSUME NEW v \in Said, NEW n \in Node, NEW w \in 1..MaxWall
  PROVE  /\ Record(v, n, w) \in Entry
         /\ Record(v, n, w).at = now_hlc(n, w)
         /\ Record(v, n, w).at.node_id = n
BY BooksAssumption, SMT DEF Record, Entry, HLC, now_hlc

\* A book that has moved on to newer records is ahead of what it was ahead of.
LEMMA StaysBehind ==
  ASSUME NEW l, NEW n, NEW f \in BookType, NEW b \in BookType, NEW c \in BookType,
         Behind(l, n, f, b),
         \A k \in Keys : \/ c[k] = b[k]
                         \/ c[k] # None /\ (Wins(b[k], c[k]) \/ Unordered(l, n, k))
  PROVE  Behind(l, n, f, c)
<1> SUFFICES ASSUME NEW k \in Keys, f[k] # None, f[k] # c[k], ~Unordered(l, n, k)
             PROVE  c[k] # None /\ HlcLess(f[k].at, c[k].at)
  BY Zenon DEF Behind
<1>1. /\ f[k] \in Entry
      /\ b[k] \in Entry \cup {None} /\ c[k] \in Entry \cup {None}
  BY Zenon DEF BookType
<1>2. f[k] = b[k] \/ (b[k] # None /\ HlcLess(f[k].at, b[k].at))
  BY Zenon DEF Behind
<1>3. c[k] = b[k] \/ (c[k] # None /\ Wins(b[k], c[k]))
  BY Zenon
<1>4. CASE c[k] = b[k]
  BY <1>2, <1>4, Zenon
<1>5. CASE c[k] # b[k]
  <2>1. c[k] # None /\ b[k] # None /\ HlcLess(b[k].at, c[k].at)
    BY <1>2, <1>3, <1>5, Zenon DEF Wins
  <2>2. f[k].at \in HLC /\ b[k].at \in HLC /\ c[k].at \in HLC
    BY <1>1, <2>1, Zenon DEF Entry
  <2>3. QED BY <1>2, <2>1, <2>2, HlcOrder, Zenon
<1>6. QED BY <1>4, <1>5, Zenon

\* A book is not ahead of itself.
LEMMA BehindItself == \A l, n, b : Behind(l, n, b, b)
BY Zenon DEF Behind

\* A merge takes the incoming record or leaves the book as it is.
LEMMA MergeIs ==
  ASSUME NEW b \in BookType, NEW k \in Keys, NEW e \in Entry
  PROVE  /\ MergeRecord(b, k, e) \in BookType
         /\ \A j \in Keys : \/ MergeRecord(b, k, e)[j] = b[j]
                            \/ /\ j = k /\ Wins(b[k], e)
                               /\ MergeRecord(b, k, e)[j] = e
<1>1. CASE Wins(b[k], e)
  <2> DEFINE c == MergeRecord(b, k, e)
  <2>1. c = [b EXCEPT ![k] = e]
    BY <1>1, Zenon DEF MergeRecord
  <2> HIDE DEF c
  <2>2. c \in BookType /\ c[k] = e /\ \A j \in Keys : j # k => c[j] = b[j]
    BY <2>1, Zenon DEF BookType
  <2>3. QED BY <1>1, <2>2, Zenon DEF c
<1>2. CASE ~Wins(b[k], e)
  BY <1>2, Zenon DEF MergeRecord
<1>3. QED BY <1>1, <1>2, Zenon

-----------------------------------------------------------------------------
(* A step that moves the book of n on.                                     *)

Moves(n) ==
  /\ book' \in [Node -> BookType]
  /\ \A m \in Node \ {n} : book'[m] = book[m]
  /\ \A k \in Keys : \/ book'[n][k] = book[n][k]
                     \/ /\ <<k, book'[n][k]>> \in written' /\ book'[n][k] # None
                        /\ Wins(book[n][k], book'[n][k]) \/ Unordered(lane, n, k)
  /\ lane' = lane /\ restarts' = restarts
  /\ written \subseteq written'
  /\ \A x \in written' \ written : x[2].at.node_id = n

\* More records are known, and still are the same.
LEMMA KnownMore ==
  ASSUME NEW b, NEW V, NEW W, Known(b, V), V \subseteq W
  PROVE  Known(b, W)
BY Zenon DEF Known

\* Such a step keeps the book in order, and what is behind it behind it.
LEMMA MovesKeeps ==
  ASSUME BookInv, NEW n \in Node, Moves(n)
  PROVE  /\ BookInv'
         /\ \A m \in Node : \A f \in BookType : Behind(lane, m, f, book[m]) => Behind(lane, m, f, book[m])'
<1>1. book \in [Node -> BookType] /\ book' \in [Node -> BookType]
  BY Zenon DEF BookInv, Moves
<1>2. ASSUME NEW m \in Node
      PROVE  /\ Known(book'[m], written')
             /\ \A f \in BookType : Behind(lane, m, f, book[m]) => Behind(lane, m, f, book[m])'
  <2>1. CASE m # n
    BY <2>1, KnownMore, Zenon DEF BookInv, Moves
  <2>2. CASE m = n
    <3>1. Known(book'[n], written')
      BY Zenon DEF BookInv, Moves, Known
    <3>2. book[n] \in BookType /\ book'[n] \in BookType
      BY <1>1, Zenon
    <3>3. \A f \in BookType : Behind(lane, n, f, book[n]) => Behind(lane, n, f, book'[n])
      BY <3>2, StaysBehind, Zenon DEF Moves
    <3>4. QED BY <2>2, <3>1, <3>3, Zenon DEF Moves
  <2>3. QED BY <2>1, <2>2, Zenon
<1>3. QED BY <1>1, <1>2, Zenon DEF BookInv

\* With it the file stays behind, if it is left alone.
LEMMA MovesFile ==
  ASSUME BookInv, FileInv, NEW n \in Node, Moves(n), file' = file
  PROVE  FileInv'
<1>1. \A m \in Node : file[m] \in BookType
  BY Zenon DEF FileInv
<1>2. \A m \in Node : Known(file[m], written')
  BY KnownMore, Zenon DEF FileInv, Moves
<1>3. \A m \in Node : Behind(lane, m, file[m], book[m])'
  BY <1>1, MovesKeeps, Zenon DEF FileInv
<1>4. QED BY <1>2, <1>3, Zenon DEF FileInv

\* A snapshot of the book as the step leaves it is in order, and so are those
\* taken before.
LEMMA MovesSnap ==
  ASSUME BookInv, SnapInv, NEW n \in Node, Moves(n), NEW t \in Task,
         NEW b \in {None, book'[n]}, snap' = [snap EXCEPT ![n][t] = b]
  PROVE  SnapInv'
<1>1. snap \in [Node -> [Task -> BookType \cup {None}]] /\ book'[n] \in BookType
  BY Zenon DEF SnapInv, Moves
<1>2. b \in BookType \cup {None}
  BY <1>1, Zenon
<1>3. /\ snap' \in [Node -> [Task -> BookType \cup {None}]]
      /\ \A m \in Node, u \in Task : snap'[m][u] \in {snap[m][u], b}
      /\ \A m \in Node, u \in Task : m # n => snap'[m][u] = snap[m][u]
  BY <1>1, <1>2, Zenon
<1>4. ASSUME NEW m \in Node, NEW u \in Task, snap'[m][u] # None
      PROVE  Known(snap'[m][u], written') /\ Behind(lane, m, snap[m][u], book[m])'
  <2>1. CASE snap'[m][u] = snap[m][u]
    <3>1. Known(snap[m][u], written) /\ Behind(lane, m, snap[m][u], book[m])
      BY <1>4, <2>1, Zenon DEF SnapInv
    <3>2. snap[m][u] \in BookType
      BY <1>1, <1>4, <2>1, Zenon
    <3>3. QED BY <2>1, <3>1, <3>2, KnownMore, MovesKeeps, Zenon DEF Moves
  <2>2. CASE snap'[m][u] # snap[m][u]
    <3>1. m = n /\ snap'[m][u] = book'[m]
      BY <1>3, <1>4, <2>2, Zenon
    <3>2. Known(book'[m], written')
      BY MovesKeeps, Zenon DEF BookInv
    <3>3. QED BY <3>1, <3>2, BehindItself, Zenon
  <2>3. QED BY <2>1, <2>2, Zenon
<1>5. QED BY <1>3, <1>4, Zenon DEF SnapInv

\* A broadcast sends records of the book, which are known (Broadcast).
LEMMA BroadcastKeeps ==
  ASSUME InboxInv, NEW n \in Node, NEW b \in BookType, Broadcast(n, b),
         Known(b, written'), written \subseteq written'
  PROVE  InboxInv'
<1> DEFINE ms == {[key |-> k, entry |-> b[k]] : k \in {j \in Keys : b[j] # None}}
<1>1. PICK got \in [Node \ {n} -> SUBSET ms] :
        inbox' = [m \in Node |-> IF m = n THEN inbox[m] ELSE inbox[m] \cup got[m]]
  BY Zenon DEF Broadcast
<1>2. ASSUME NEW x \in ms
      PROVE  x \in [key : Keys, entry : Entry] /\ <<x.key, x.entry>> \in written'
  <2>1. PICK k \in Keys : b[k] # None /\ x = [key |-> k, entry |-> b[k]]
    BY <1>2, Zenon
  <2>2. b[k] \in Entry /\ <<k, b[k]>> \in written'
    BY <2>1, Zenon DEF BookType, Known
  <2>3. QED BY <2>1, <2>2, Zenon
<1> HIDE DEF ms
<1>3. ASSUME NEW m \in Node, NEW x \in inbox'[m]
      PROVE  x \in inbox[m] \/ x \in ms
  BY <1>1, <1>3, Zenon
<1>4. inbox' \in [Node -> SUBSET [key : Keys, entry : Entry]]
  <2>1. \A m \in Node : inbox'[m] \subseteq [key : Keys, entry : Entry]
    BY <1>2, <1>3, Zenon DEF InboxInv
  <2>2. inbox' = [m \in Node |-> inbox'[m]]
    BY <1>1, Zenon
  <2>3. QED BY <2>1, <2>2, Zenon
<1>5. \A m \in Node : \A x \in inbox'[m] : <<x.key, x.entry>> \in written'
  BY <1>2, <1>3, Zenon DEF InboxInv
<1>6. QED BY <1>4, <1>5, Zenon DEF InboxInv

\* A reading of the clock is one, and no earlier one where it is not set back.
LEMMA ReadingIs ==
  ASSUME wall \in [Node -> 1..MaxWall], NEW n \in Node, NEW w \in Readings(n)
  PROVE  /\ w \in 1..MaxWall /\ w \in Nat /\ wall[n] \in Nat /\ wall[n] \in Readings(n)
         /\ n \notin Jumpy => wall[n] <= w
<1>1. MaxWall \in Nat /\ wall[n] \in 1..MaxWall
  BY BooksAssumption, Zenon
<1>2. CASE n \in Jumpy
  BY <1>1, <1>2 DEF Readings
<1>3. CASE n \notin Jumpy
  BY <1>1, <1>3 DEF Readings
<1>4. QED BY <1>2, <1>3, Zenon

\* The records a node writes of itself carry its clock (Reads).
LEMMA OwnKeeps ==
  ASSUME OwnInv, RestInv, NEW n \in Node, NEW w \in Readings(n), Reads(n, w),
         lane' = lane, restarts' = restarts, written' \subseteq Keys \X Entry,
         lane \in {"addr", "name"} =>
           \A x \in written' \ written : x[1] = n /\ x[2].at = now_hlc(n, w)
  PROVE  OwnInv' /\ RestInv'
<1>1. /\ wall \in [Node -> 1..MaxWall] /\ MaxWall \in Nat
      /\ wall' = [wall EXCEPT ![n] = w]
  BY BooksAssumption, Zenon DEF RestInv, Reads
<1>2. /\ w \in 1..MaxWall /\ wall[n] \in Nat /\ w \in Nat
      /\ n \notin Jumpy => wall[n] <= w
  BY <1>1, ReadingIs, Zenon
<1>3. /\ wall' \in [Node -> 1..MaxWall] /\ wall'[n] = w
      /\ \A m \in Node : m # n => wall'[m] = wall[m]
  BY <1>1, <1>2, Zenon
<1>4. RestInv'
  BY <1>3, Zenon DEF RestInv
<1>5. ASSUME lane \in {"addr", "name"}, NEW x \in written'
      PROVE  /\ x[1] \in Node
             /\ x[1] \notin Jumpy => HlcLeq(x[2].at, now_hlc(x[1], wall'[x[1]]))
  <2>1. CASE x \notin written
    BY <1>3, <1>5, <2>1, Zenon DEF HlcLeq
  <2>2. CASE x \in written
    <3>1. /\ x[1] \in Node
          /\ x[1] \notin Jumpy => HlcLeq(x[2].at, now_hlc(x[1], wall[x[1]]))
      BY <1>5, <2>2, Zenon DEF OwnInv
    <3>2. CASE x[1] # n
      BY <1>3, <3>1, <3>2, Zenon
    <3>5. CASE x[1] = n /\ n \in Jumpy
      BY <3>1, <3>5, Zenon
    <3>3. CASE x[1] = n /\ n \notin Jumpy
      <4>1. x[2].at \in HLC
        BY Zenon DEF Entry
      <4>2. /\ now_hlc(n, wall[n]) \in HLC /\ now_hlc(n, w) \in HLC
            /\ HlcLeq(now_hlc(n, wall[n]), now_hlc(n, w))
        BY <1>2, <3>3, LaterStamp, Zenon
      <4>3. HlcLeq(x[2].at, now_hlc(n, w))
        BY <3>1, <3>3, <4>1, <4>2, HlcOrder, Zenon
      <4>4. QED BY <1>3, <3>1, <3>3, <4>3, Zenon
    <3>4. QED BY <3>2, <3>3, <3>5, Zenon
  <2>3. QED BY <2>1, <2>2, Zenon
<1>6. QED BY <1>4, <1>5, Zenon DEF OwnInv

-----------------------------------------------------------------------------
(* The tick.                                                               *)

\* A tick that puts newer records of its own into the book, or none, keeps
\* everything in order (Announce).
LEMMA AnnounceKeeps ==
  ASSUME IInv, NEW n \in Node, NEW w \in Readings(n), Reads(n, w),
         NEW b \in BookType, NEW new \in SUBSET (Keys \X Entry), Announce(n, b, new),
         \A k \in Keys : \/ b[k] = book[n][k]
                         \/ <<k, b[k]>> \in new /\ (Wins(book[n][k], b[k]) \/ Unordered(lane, n, k)),
         \A x \in new : x[2].at = now_hlc(n, w),
         lane \in {"addr", "name"} => \A x \in new : x[1] = n
  PROVE  IInv' /\ Moves(n)
<1>1. /\ book' = [book EXCEPT ![n] = b] /\ written' = written \cup new
      /\ lane' = lane /\ file' = file /\ restarts' = restarts
      /\ Broadcast(n, b) /\ Snapshot(n, "tick", b)
  BY Zenon DEF Announce
<1>2. /\ book \in [Node -> BookType]
      /\ book' \in [Node -> BookType] /\ book'[n] = b
      /\ \A m \in Node \ {n} : book'[m] = book[m]
  BY <1>1, Zenon DEF IInv, BookInv
<1>3. \A k \in Keys : <<k, b[k]>> \in new => b[k] # None
  BY NoRecordAssumption, Zenon
<1>4. Moves(n)
  <2>1. \A x \in written' \ written : x[2].at.node_id = n
    BY <1>1 DEF now_hlc
  <2>2. written \subseteq written' /\ new \subseteq written'
    BY <1>1, Zenon
  <2>3. \A k \in Keys : \/ book'[n][k] = book[n][k]
                        \/ /\ <<k, book'[n][k]>> \in written' /\ book'[n][k] # None
                           /\ Wins(book[n][k], book'[n][k]) \/ Unordered(lane, n, k)
    BY <1>2, <1>3, <2>2, Zenon
  <2>4. QED BY <1>1, <1>2, <2>1, <2>2, <2>3, Zenon DEF Moves
<1>5. BookInv' /\ FileInv'
  BY <1>1, <1>4, MovesKeeps, MovesFile, Zenon DEF IInv
<1>6. SnapInv'
  <2>1. PICK c \in {None, book'[n]} : snap' = [snap EXCEPT ![n]["tick"] = c]
    BY <1>1, <1>2, Zenon DEF Snapshot
  <2>2. QED BY <1>4, <2>1, MovesSnap, Zenon DEF IInv, Task
<1>7. InboxInv'
  <2>1. Known(b, written') /\ written \subseteq written'
    BY <1>2, <1>4, <1>5, Zenon DEF BookInv, Moves
  <2>2. QED BY <1>1, <2>1, BroadcastKeeps, Zenon DEF IInv
<1>8. OwnInv' /\ RestInv'
  <2>1. written' \subseteq Keys \X Entry
    BY <1>1, Zenon DEF IInv, RestInv
  <2>2. lane \in {"addr", "name"} =>
          \A x \in written' \ written : x[1] = n /\ x[2].at = now_hlc(n, w)
    BY <1>1, Zenon
  <2>3. QED BY <1>1, <2>1, <2>2, OwnKeeps, Zenon DEF IInv
<1>9. QED BY <1>4, <1>5, <1>6, <1>7, <1>8, Zenon DEF IInv

\* What a node says of itself is newer than what its book has, or the same,
\* unless its clock is set back (Steady, announce_addr_book, announce_node_name).
LEMMA SelfWins ==
  ASSUME IInv, lane \in {"addr", "name"}, NEW n \in Node, NEW w \in Readings(n),
         NEW v \in Value, Steady(n, Record(v, n, w))
  PROVE  /\ Record(v, n, w) \in Entry /\ Record(v, n, w).at = now_hlc(n, w)
         /\ \/ Record(v, n, w) = book[n][n]
            \/ Wins(book[n][n], Record(v, n, w)) \/ Unordered(lane, n, n)
<1> DEFINE e == Record(v, n, w)
<1>1. /\ w \in 1..MaxWall /\ wall[n] \in Nat /\ w \in Nat
      /\ n \notin Jumpy => wall[n] <= w
  BY ReadingIs, Zenon DEF IInv, RestInv
<1>2. e \in Entry /\ e.at = now_hlc(n, w)
  <2>1. v \in Said
    BY Zenon DEF Said
  <2>2. QED BY <1>1, <2>1, RecordIs, Zenon
<1> HIDE DEF e
<1>3. CASE book[n][n] = None
  BY <1>2, <1>3, Zenon DEF Wins, e
<1>6. CASE n \in Jumpy
  BY <1>2, <1>6, Zenon DEF Unordered, e
<1>4. CASE book[n][n] # None /\ n \notin Jumpy
  <2>1. n \in Keys /\ book[n][n] \in Entry
    BY <1>4, Zenon DEF Keys, IInv, BookInv, BookType
  <2>2. <<n, book[n][n]>> \in written
    BY <1>4, <2>1, Zenon DEF IInv, BookInv, Known
  <2>3. HlcLeq(book[n][n].at, now_hlc(n, wall[n]))
    BY <1>4, <2>2, Zenon DEF IInv, OwnInv
  <2>4. /\ now_hlc(n, wall[n]) \in HLC /\ now_hlc(n, w) \in HLC
        /\ HlcLeq(now_hlc(n, wall[n]), now_hlc(n, w))
    BY <1>1, <1>4, LaterStamp, Zenon
  <2>5. book[n][n].at \in HLC
    BY <2>1, Zenon DEF Entry
  <2>6. HlcLeq(book[n][n].at, e.at)
    BY <1>2, <2>3, <2>4, <2>5, HlcOrder, Zenon
  <2>7. QED BY <1>2, <1>4, <2>6, Zenon DEF HlcLeq, Wins, Steady, e
<1>5. QED BY <1>3, <1>4, <1>6, Zenon

\* A step in which node n announces itself.
LEMMA AnnounceSelf ==
  ASSUME IInv, lane \in {"addr", "name"}, NEW n \in Node, NEW w \in Readings(n),
         NEW v \in Value, Steady(n, Record(v, n, w)), Reads(n, w),
         Announce(n, [book[n] EXCEPT ![n] = Record(v, n, w)], {<<n, Record(v, n, w)>>})
  PROVE  IInv' /\ Moves(n)
<1> DEFINE e == Record(v, n, w)
           b == [book[n] EXCEPT ![n] = e]
           new == {<<n, e>>}
<1>1. /\ e \in Entry /\ e.at = now_hlc(n, w)
      /\ e = book[n][n] \/ Wins(book[n][n], e) \/ Unordered(lane, n, n)
  BY SelfWins, Zenon
<1>2. n \in Keys /\ book[n] \in BookType
  BY Zenon DEF Keys, IInv, BookInv
<1> HIDE DEF e
<1>3. b \in BookType /\ b[n] = e /\ \A j \in Keys : j # n => b[j] = book[n][j]
  BY <1>1, <1>2, Zenon DEF BookType
<1>4. /\ new \in SUBSET (Keys \X Entry) /\ <<n, e>> \in new
      /\ \A x \in new : x[1] = n /\ x[2].at = now_hlc(n, w)
  BY <1>1, <1>2
<1>5. Announce(n, b, new)
  BY Zenon DEF e
<1> HIDE DEF b, new
<1>6. \A k \in Keys : \/ b[k] = book[n][k]
                      \/ <<k, b[k]>> \in new /\ (Wins(book[n][k], b[k]) \/ Unordered(lane, n, k))
  BY <1>1, <1>3, <1>4, Zenon
<1>7. QED BY <1>3, <1>4, <1>5, <1>6, AnnounceKeeps

\* The tick of any lane.
LEMMA TickKeeps ==
  ASSUME IInv, NEW n \in Node, Tick(n)
  PROVE  IInv' /\ Moves(n)
<1>1. CASE announce_addr_book(n)
  <2>1. lane = "addr"
    BY <1>1, Zenon DEF announce_addr_book
  <2>2. PICK w \in Readings(n), v \in Value :
          /\ Reads(n, w) /\ Steady(n, Record(v, n, w))
          /\ Announce(n, [book[n] EXCEPT ![n] = Record(v, n, w)], {<<n, Record(v, n, w)>>})
    BY <1>1, Zenon DEF announce_addr_book
  <2>3. QED BY <2>1, <2>2, AnnounceSelf, Zenon
<1>2. CASE announce_node_name(n)
  <2>1. lane = "name"
    BY <1>2, Zenon DEF announce_node_name
  <2>2. PICK w \in Readings(n), v \in Value :
          /\ Reads(n, w) /\ Steady(n, Record(v, n, w))
          /\ Announce(n, [book[n] EXCEPT ![n] = Record(v, n, w)], {<<n, Record(v, n, w)>>})
    BY <1>2, Zenon DEF announce_node_name
  <2>3. QED BY <2>1, <2>2, AnnounceSelf, Zenon
<1>3. CASE announce_user_book(n)
  <2> DEFINE seeded(w) == load_user_seed(n, w)
             won(w) == {u \in Seed[n] : Wins(book[n][u], seeded(w)[u])}
             b(w) == [k \in Keys |-> IF k \in won(w) THEN seeded(w)[k] ELSE book[n][k]]
             new(w) == {<<u, seeded(w)[u]>> : u \in won(w)}
  <2>1. PICK w \in Readings(n) : Reads(n, w) /\ Announce(n, b(w), new(w))
    BY <1>3, Zenon DEF announce_user_book
  <2>2. lane = "user" /\ w \in 1..MaxWall /\ book[n] \in BookType /\ Seed[n] \subseteq Keys
    <3>1. w \in 1..MaxWall
      BY ReadingIs, Zenon DEF IInv, RestInv
    <3>2. QED BY <1>3, <3>1, BooksAssumption, Zenon
              DEF announce_user_book, IInv, BookInv, Keys
  <2>3. \A u \in Seed[n] : seeded(w)[u] \in Entry /\ seeded(w)[u].at = now_hlc(n, w)
    <3>1. "seed" \in Said
      BY Zenon DEF Said
    <3>2. Record("seed", n, w) \in Entry /\ Record("seed", n, w).at = now_hlc(n, w)
      BY <2>2, <3>1, RecordIs, Zenon
    <3>3. \A u \in Seed[n] : seeded(w)[u] = Record("seed", n, w)
      BY Zenon DEF load_user_seed
    <3>4. QED BY <3>2, <3>3, Zenon
  <2> HIDE DEF seeded
  <2>4. b(w) \in BookType
    BY <2>2, <2>3, Zenon DEF BookType
  <2>5. new(w) \in SUBSET (Keys \X Entry) /\ \A x \in new(w) : x[2].at = now_hlc(n, w)
    BY <2>2, <2>3
  <2>6. \A k \in Keys : \/ b(w)[k] = book[n][k]
                        \/ <<k, b(w)[k]>> \in new(w) /\ Wins(book[n][k], b(w)[k])
    BY Zenon
  <2> HIDE DEF b, new
  <2>7. QED BY <2>1, <2>2, <2>4, <2>5, <2>6, AnnounceKeeps, Zenon
<1>4. CASE announce_service_book(n)
  <2>1. lane = "service" /\ Announce(n, book[n], {}) /\ wall' = wall
    BY <1>4, Zenon DEF announce_service_book
  <2>2. /\ wall[n] \in Readings(n) /\ book[n] \in BookType
        /\ wall' = [wall EXCEPT ![n] = wall[n]]
    BY <2>1, BooksAssumption DEF IInv, RestInv, BookInv, Readings
  <2>3. Reads(n, wall[n])
    BY <2>2, Zenon DEF Reads
  <2>4. QED BY <2>1, <2>2, <2>3, AnnounceKeeps
<1>5. QED BY <1>1, <1>2, <1>3, <1>4, Zenon DEF Tick

\* A submission to the user directory (ingest_identity_spool).
LEMMA IngestKeeps ==
  ASSUME IInv, NEW n \in Node, NEW u \in User, NEW label \in Value,
         IngestIdentity(n, u, label)
  PROVE  IInv' /\ Moves(n)
<1> DEFINE e(w) == Record(DisplayName(book[n], u, label), n, w)
<1>1. /\ lane = "user" /\ lane' = lane /\ file' = file /\ snap' = snap
      /\ inbox' = inbox /\ restarts' = restarts
  BY Zenon DEF IngestIdentity
<1>2. PICK w \in Readings(n) :
        /\ Reads(n, w)
        /\ book' = [book EXCEPT ![n] = MergeRecord(@, u, e(w))]
        /\ written' = IF Wins(book[n][u], e(w)) THEN written \cup {<<u, e(w)>>} ELSE written
  BY Zenon DEF IngestIdentity
<1>3. u \in Keys /\ book[n] \in BookType /\ w \in 1..MaxWall
  BY ReadingIs, Zenon DEF Keys, IInv, RestInv, BookInv
<1>4. e(w) \in Entry /\ e(w).at.node_id = n
  <2>1. book[n][u] # None => book[n][u].val \in Said
    BY <1>3, Zenon DEF BookType, Entry
  <2>2. DisplayName(book[n], u, label) \in Said
    BY <2>1, BooksAssumption, Zenon DEF DisplayName, Said
  <2>3. QED BY <1>3, <2>2, RecordIs, Zenon
<1> HIDE DEF e
<1> DEFINE b == MergeRecord(book[n], u, e(w))
<1>5. /\ b \in BookType
      /\ \A j \in Keys : b[j] = book[n][j] \/ (j = u /\ Wins(book[n][u], e(w)) /\ b[j] = e(w))
  BY <1>3, <1>4, MergeIs, Zenon
<1>6. book' = [book EXCEPT ![n] = b]
  BY <1>2, Zenon
<1> HIDE DEF b
<1>7. /\ book' \in [Node -> BookType] /\ book'[n] = b
      /\ \A m \in Node \ {n} : book'[m] = book[m]
  BY <1>5, <1>6, Zenon DEF IInv, BookInv
<1>8. /\ written \subseteq written' /\ written' \subseteq written \cup {<<u, e(w)>>}
      /\ Wins(book[n][u], e(w)) => <<u, e(w)>> \in written'
  BY <1>2, Zenon
<1>9. Moves(n)
  <2>1. e(w) # None
    BY <1>4, NoRecordAssumption, Zenon
  <2>2. \A x \in written' \ written : x[2].at.node_id = n
    BY <1>4, <1>8
  <2>3. QED BY <1>1, <1>5, <1>7, <1>8, <2>1, <2>2, Zenon DEF Moves
<1>10. BookInv' /\ FileInv'
  BY <1>1, <1>9, MovesKeeps, MovesFile, Zenon DEF IInv
<1>11. SnapInv'
  <2>1. ASSUME NEW m \in Node, NEW t \in Task, snap[m][t] # None
        PROVE  Known(snap[m][t], written') /\ Behind(lane, m, snap[m][t], book[m])'
    <3>1. snap[m][t] \in BookType /\ Known(snap[m][t], written) /\ Behind(lane, m, snap[m][t], book[m])
      BY <2>1, Zenon DEF IInv, SnapInv
    <3>2. QED BY <1>1, <1>8, <1>9, <3>1, KnownMore, MovesKeeps, Zenon DEF IInv
  <2>2. QED BY <1>1, <2>1, Zenon DEF IInv, SnapInv
<1>12. InboxInv'
  BY <1>1, <1>8, Zenon DEF IInv, InboxInv
<1>13. OwnInv' /\ RestInv'
  <2>1. written' \subseteq Keys \X Entry
    BY <1>3, <1>4, <1>8 DEF IInv, RestInv
  <2>2. lane \notin {"addr", "name"}
    BY <1>1, Zenon
  <2>3. QED BY <1>1, <1>2, <2>1, <2>2, OwnKeeps, Zenon DEF IInv
<1>14. QED BY <1>9, <1>10, <1>11, <1>12, <1>13, Zenon DEF IInv

-----------------------------------------------------------------------------
(* The dispatch loop, the files and a restart.                             *)

\* A received record is merged or dropped (the apply_*_message functions).
LEMMA ApplyIs ==
  ASSUME RestInv, NEW n, NEW b \in BookType, NEW m, m.key \in Keys, m.entry \in Entry
  PROVE  /\ Apply(b, n, m) \in BookType
         /\ \A j \in Keys : \/ Apply(b, n, m)[j] = b[j]
                            \/ /\ j = m.key /\ Wins(b[j], m.entry)
                               /\ Apply(b, n, m)[j] = m.entry
<1>1. Apply(b, n, m) \in {b, MergeRecord(b, m.key, m.entry)}
  BY Zenon DEF RestInv, Lane, Apply, apply_peer_addr_message, apply_node_name_message,
         apply_user_message, apply_service_message
<1>2. CASE Apply(b, n, m) = b
  BY <1>2, Zenon
<1>3. CASE Apply(b, n, m) = MergeRecord(b, m.key, m.entry)
  BY <1>3, MergeIs
<1>4. QED BY <1>1, <1>2, <1>3, Zenon

\* A message is merged into the book of its receiver (the dispatch loop).
LEMMA DeliverKeeps ==
  ASSUME IInv, NEW n \in Node, NEW m \in inbox[n], Deliver(n, m)
  PROVE  IInv' /\ Moves(n)
<1>1. /\ lane' = lane /\ file' = file /\ wall' = wall /\ restarts' = restarts
      /\ written' = written
      /\ inbox' = [inbox EXCEPT ![n] = @ \ {m}]
      /\ Snapshot(n, "dispatch", IF book'[n] = book[n] THEN None ELSE book'[n])
  BY Zenon DEF Deliver
<1>2. book' = [book EXCEPT ![n] = Apply(book[n], n, m)]
  BY Zenon DEF Deliver
<1>3. /\ inbox \in [Node -> SUBSET [key : Keys, entry : Entry]]
      /\ <<m.key, m.entry>> \in written
  BY Zenon DEF IInv, InboxInv
<1>4. m.key \in Keys /\ m.entry \in Entry /\ m.entry # None /\ book[n] \in BookType
  BY <1>3, NoRecordAssumption DEF IInv, BookInv
<1> DEFINE b == Apply(book[n], n, m)
<1>5. /\ b \in BookType
      /\ \A j \in Keys : b[j] = book[n][j] \/ (j = m.key /\ Wins(book[n][j], m.entry)
                                                          /\ b[j] = m.entry)
  BY <1>4, ApplyIs DEF IInv
<1>6. book' = [book EXCEPT ![n] = b]
  BY <1>2, Zenon
<1> HIDE DEF b
<1>7. /\ book' \in [Node -> BookType] /\ book'[n] = b
      /\ \A k \in Node \ {n} : book'[k] = book[k]
  BY <1>5, <1>6, Zenon DEF IInv, BookInv
<1>8. Moves(n)
  BY <1>1, <1>3, <1>4, <1>5, <1>7, Zenon DEF Moves
<1>9. BookInv' /\ FileInv'
  BY <1>1, <1>8, MovesKeeps, MovesFile, Zenon DEF IInv
<1>10. SnapInv'
  <2>1. PICK c \in {None, book'[n]} : snap' = [snap EXCEPT ![n]["dispatch"] = c]
    BY <1>1, Zenon DEF Snapshot
  <2>2. QED BY <1>8, <2>1, MovesSnap, Zenon DEF IInv, Task
<1>11. InboxInv'
  <2>1. /\ inbox' \in [Node -> SUBSET [key : Keys, entry : Entry]]
        /\ \A k \in Node : inbox'[k] \subseteq inbox[k]
    BY <1>1, <1>3, Zenon
  <2>2. QED BY <1>1, <2>1, Zenon DEF IInv, InboxInv
<1>12. OwnInv' /\ RestInv'
  BY <1>1, Zenon DEF IInv, OwnInv, RestInv
<1>13. QED BY <1>8, <1>9, <1>10, <1>11, <1>12, Zenon DEF IInv

\* A snapshot becomes the file, or is lost (the persist_* functions).
LEMMA PersistKeeps ==
  ASSUME IInv, NEW n \in Node, NEW t \in Task, Persist(n, t)
  PROVE  IInv' /\ UNCHANGED <<book, written, restarts>>
<1>1. Save(n, t)
  BY Zenon DEF Persist, persist_addr_book, persist_node_name_book, persist_user_book,
               persist_service_book
<1>2. /\ snap[n][t] # None
      /\ file' = file \/ file' = [file EXCEPT ![n] = snap[n][t]]
      /\ snap' = [snap EXCEPT ![n][t] = None]
      /\ lane' = lane /\ book' = book /\ inbox' = inbox /\ wall' = wall
      /\ restarts' = restarts /\ written' = written
  BY <1>1, Zenon DEF Save
<1>3. /\ snap[n][t] \in BookType /\ Known(snap[n][t], written)
      /\ Behind(lane, n, snap[n][t], book[n])
  BY <1>2 DEF IInv, SnapInv
<1>4. FileInv'
  <2>1. /\ file' \in [Node -> BookType]
        /\ \A m \in Node : file'[m] = file[m] \/ (m = n /\ file'[m] = snap[n][t])
    BY <1>2, <1>3, Zenon DEF IInv, FileInv
  <2>2. QED BY <1>2, <1>3, <2>1, Zenon DEF IInv, FileInv
<1>5. SnapInv'
  <2>1. /\ snap' \in [Node -> [Task -> BookType \cup {None}]]
        /\ \A m \in Node, u \in Task : snap'[m][u] \in {snap[m][u], None}
    BY <1>2, Zenon DEF IInv, SnapInv
  <2>2. QED BY <1>2, <2>1, Zenon DEF IInv, SnapInv
<1>6. BookInv' /\ InboxInv' /\ RestInv' /\ OwnInv'
  BY <1>2, Zenon DEF IInv, BookInv, InboxInv, RestInv, OwnInv
<1>7. QED BY <1>2, <1>4, <1>5, <1>6, Zenon DEF IInv

\* The book of n is back at one that was behind it.
Back(n) ==
  /\ written' = written /\ restarts' = restarts + 1
  /\ \E b \in BookType : book'[n] = b /\ Known(b, written) /\ Behind(lane, n, b, book[n])
  /\ \A m \in Node \ {n} : book'[m] = book[m]

\* A restarted node is back at its file (the load_* functions), which was
\* behind its book, or at nothing.
LEMMA RestartKeeps ==
  ASSUME IInv, NEW n \in Node, Restart(n)
  PROVE  IInv' /\ Back(n)
<1>1. Load(n)
  BY Zenon DEF Restart, load_addr_book, load_node_name_book, load_user_book,
               load_service_book
<1>2. PICK b \in {file[n], Empty} :
        book' = [book EXCEPT ![n] = b] /\ file' = [file EXCEPT ![n] = b]
  BY <1>1, Zenon DEF Load
<1>11. /\ restarts < MaxRestarts /\ restarts' = restarts + 1
       /\ snap' = [snap EXCEPT ![n] = [t \in Task |-> None]]
       /\ inbox' = [inbox EXCEPT ![n] = {}]
       /\ lane' = lane /\ wall' = wall /\ written' = written
  BY <1>1, Zenon DEF Load
<1>12. b \in BookType /\ Known(b, written) /\ Behind(lane, n, b, book[n])
  <2>1. Empty \in BookType /\ \A k \in Keys : Empty[k] = None
    BY Zenon DEF Empty, BookType
  <2>2. QED BY <2>1, Zenon DEF IInv, FileInv, Known, Behind
<1>3. /\ book' \in [Node -> BookType] /\ book'[n] = b
      /\ \A m \in Node \ {n} : book'[m] = book[m]
      /\ file' \in [Node -> BookType] /\ file'[n] = b
      /\ \A m \in Node \ {n} : file'[m] = file[m]
  BY <1>2, <1>12, Zenon DEF IInv, BookInv, FileInv
<1>4. BookInv'
  BY <1>3, <1>11, <1>12, Zenon DEF IInv, BookInv
<1>5. FileInv'
  BY <1>3, <1>11, <1>12, BehindItself, Zenon DEF IInv, FileInv
<1>6. SnapInv'
  <2>1. /\ snap' \in [Node -> [Task -> BookType \cup {None}]]
        /\ \A m \in Node, u \in Task :
             snap'[m][u] # None => m # n /\ snap'[m][u] = snap[m][u]
    BY <1>11, Zenon DEF IInv, SnapInv
  <2>2. QED BY <1>3, <1>11, <2>1, Zenon DEF IInv, SnapInv
<1>7. InboxInv'
  <2>1. /\ inbox' \in [Node -> SUBSET [key : Keys, entry : Entry]]
        /\ \A m \in Node : inbox'[m] \subseteq inbox[m]
    BY <1>11, Zenon DEF IInv, InboxInv
  <2>2. QED BY <1>11, <2>1, Zenon DEF IInv, InboxInv
<1>8. RestInv'
  BY <1>11, BooksAssumption DEF IInv, RestInv
<1>9. OwnInv'
  BY <1>11, Zenon DEF IInv, OwnInv
<1>13. Back(n)
  BY <1>3, <1>11, <1>12, Zenon DEF Back
<1>10. QED BY <1>4, <1>5, <1>6, <1>7, <1>8, <1>9, <1>13, Zenon DEF IInv

-----------------------------------------------------------------------------
(* The theorems.                                                           *)

\* The books a mesh starts with are in order.
LEMMA InitKeeps == Init => IInv
<1> SUFFICES ASSUME Init PROVE IInv
  BY Zenon
<1>1. /\ lane \in Lane /\ book = file /\ restarts = 0
      /\ file = [n \in Node |-> IF lane = "service" THEN Legacy(n) ELSE Empty]
      /\ snap = [n \in Node |-> [t \in Task |-> None]]
      /\ inbox = [n \in Node |-> {}] /\ wall = [n \in Node |-> 1]
      /\ written = {<<k, book[n][k]>> : n \in Node, k \in Keys} \ (Keys \X {None})
  BY DEF Init
<1>2. \A n \in Node : Legacy(n) \in BookType /\ Empty \in BookType
  <2>1. 1 \in 1..MaxWall /\ "stub" \in Said
    BY BooksAssumption DEF Said
  <2>2. \A n \in Node : Record("stub", n, 1) \in Entry
    BY <2>1, RecordIs, Zenon
  <2>3. QED BY <2>2, Zenon DEF Legacy, Empty, BookType
<1>3. book \in [Node -> BookType] /\ file \in [Node -> BookType]
  BY <1>1, <1>2, Zenon
<1>4. \A n \in Node : Known(book[n], written)
  BY <1>1 DEF Known
<1>5. BookInv /\ FileInv
  BY <1>1, <1>3, <1>4, BehindItself, Zenon DEF BookInv, FileInv
<1>6. SnapInv /\ InboxInv
  BY <1>1, Zenon DEF SnapInv, InboxInv
<1>7. written \subseteq Keys \X Entry
  <2>1. ASSUME NEW x \in written
        PROVE  x \in Keys \X Entry
    <3>1. PICK n \in Node, k \in Keys : x = <<k, book[n][k]>> /\ x \notin Keys \X {None}
      BY <1>1, <2>1
    <3>2. book[n][k] \in Entry
      BY <1>3, <3>1, Zenon DEF BookType
    <3>3. QED BY <3>1, <3>2, Zenon
  <2>2. QED BY <2>1, Zenon
<1>8. RestInv
  BY <1>1, <1>7, BooksAssumption DEF RestInv
<1>9. OwnInv
  <2>1. lane \in {"addr", "name"} => written = {}
    BY <1>1 DEF Empty
  <2>2. QED BY <2>1, Zenon DEF OwnInv
<1>10. QED BY <1>5, <1>6, <1>8, <1>9, Zenon DEF IInv

\* A step of the daemons, as seen from the books: one moves on, one is back at
\* its file, or none changes.
Seen == \/ \E n \in Node : Moves(n)
        \/ \E n \in Node : Back(n)
        \/ UNCHANGED <<written, book, restarts>>

\* The invariant is kept by every step.
LEMMA StepKeeps == IInv /\ [Next]_vars => IInv' /\ Seen
<1> SUFFICES ASSUME IInv, [Next]_vars PROVE IInv' /\ Seen
  BY Zenon
<1>1. CASE UNCHANGED vars
  BY <1>1, Zenon DEF vars, IInv, BookInv, FileInv, SnapInv, InboxInv, RestInv, OwnInv, Seen
<1>2. CASE Next
  <2>1. PICK n \in Node : \/ Tick(n)
                          \/ \E u \in User, v \in Value : IngestIdentity(n, u, v)
                          \/ \E m \in inbox[n] : Deliver(n, m)
                          \/ \E t \in Task : Persist(n, t)
                          \/ Restart(n)
    BY <1>2, Zenon DEF Next
  <2>2. CASE Tick(n)
    BY <2>2, TickKeeps, Zenon DEF Seen
  <2>3. CASE \E u \in User, v \in Value : IngestIdentity(n, u, v)
    BY <2>3, IngestKeeps, Zenon DEF Seen
  <2>4. CASE \E m \in inbox[n] : Deliver(n, m)
    BY <2>4, DeliverKeeps, Zenon DEF Seen
  <2>5. CASE \E t \in Task : Persist(n, t)
    BY <2>5, PersistKeeps, Zenon DEF Seen
  <2>6. CASE Restart(n)
    BY <2>6, RestartKeeps, Zenon DEF Seen
  <2>7. QED BY <2>1, <2>2, <2>3, <2>4, <2>5, <2>6, Zenon
<1>3. QED BY <1>1, <1>2, Zenon

\* Types, the order of book, snapshots and file, and the clock of a node's own
\* records, in every reachable state.
THEOREM BooksInvariance == Spec => []IInv
<1>1. IInv /\ [Next]_vars => IInv'
  BY StepKeeps, Zenon
<1>2. QED BY InitKeeps, <1>1, PTL DEF Spec

\* The variables of the books always have their types.
THEOREM BooksTypeCorrect == Spec => []TypeOK
<1>1. IInv => TypeOK
  BY Zenon DEF IInv, BookInv, FileInv, SnapInv, InboxInv, RestInv, TypeOK
<1>2. QED BY BooksInvariance, <1>1, PTL

\* The books implement NewestWins: a merge, a tick or a submission only moves
\* a book on to newer records that some node wrote, and a restart only takes it
\* back to older ones, however late the snapshots were saved; only what a node
\* says of itself may go back with its clock.
THEOREM PromiseKept == Spec => KeepsPromise
<1>1. Init => Promise!Init
  <2>1. IInv /\ restarts = 0 => Promise!Init
    BY Zenon DEF IInv, BookInv, RestInv, Known, BookType, Entry, HLC,
                 Promise!Init, Promise!Entry, Promise!HLC
  <2>2. Init => restarts = 0
    BY DEF Init
  <2>3. QED BY <2>1, <2>2, InitKeeps, Zenon
<1>2. IInv /\ [Next]_vars => [Promise!Next]_<<written, book, restarts>>
  <2> SUFFICES ASSUME IInv, [Next]_vars
               PROVE  Promise!Next \/ UNCHANGED <<written, book, restarts>>
    BY Zenon
  <2>1. CASE \E n \in Node : Moves(n)
    <3>1. PICK n \in Node : Moves(n)
      BY <2>1, Zenon
    <3>2. Promise!Advance(n)
      BY <3>1, Zenon DEF Moves, Unordered, Wins, HlcLess, Promise!Advance, Promise!Others,
                         Promise!Newer, Promise!HlcLess, Promise!Unordered
    <3>3. QED BY <3>2, Zenon DEF Promise!Next
  <2>2. CASE \E n \in Node : Back(n)
    <3>1. PICK n \in Node : Back(n)
      BY <2>2, Zenon
    <3>3. Promise!Reboot(n)
      BY <3>1, Zenon DEF Back, Known, Behind, Unordered, HlcLess, Promise!Reboot, Promise!Others,
                         Promise!HlcLess, Promise!Unordered
    <3>4. QED BY <3>3, Zenon DEF Promise!Next
  <2>3. QED BY <2>1, <2>2, StepKeeps, Zenon DEF Seen
<1>3. QED BY <1>1, <1>2, BooksInvariance, PTL DEF Spec, KeepsPromise, Promise!Spec

-----------------------------------------------------------------------------
(* Labels of users.                                                        *)

\* Of two stamps one at most is less than the other.
LEMMA HlcStrict ==
  ASSUME NEW a \in HLC, NEW b \in HLC, HlcLess(a, b)
  PROVE  ~HlcLess(b, a) /\ ~HlcLeq(b, a)
<1>1. /\ {a.wall_clock, b.wall_clock} \subseteq Nat
      /\ {a.counter, b.counter} \subseteq Nat
      /\ {a.node_id, b.node_id} \subseteq Nat
  BY NodeAssumption, Zenon DEF HLC
<1>2. ~HlcLess(b, a) /\ a # b
  BY <1>1, SMT DEF HlcLess
<1>3. QED BY <1>2, Zenon DEF HlcLeq

\* All records of u in W were written at one node.
AtOneDesk(u, W) == \A v, w \in W : v[1] = u /\ w[1] = u => v[2].at.node_id = w[2].at.node_id

\* Before the first restart a node holds what it has written, or something
\* newer; and of a user with one desk the bare keys were written before the
\* names.
HeldInv ==
  \A x \in written : /\ book[x[2].at.node_id][x[1]] # None
                     /\ HlcLeq(x[2].at, book[x[2].at.node_id][x[1]].at)
NamedLater(u) ==
  \A v, w \in written :
    v[1] = u /\ w[1] = u /\ v[2].val = "stub" /\ w[2].val # "stub" => HlcLess(v[2].at, w[2].at)
LabelInv ==
  lane = "user" /\ restarts = 0 =>
    HeldInv /\ \A u \in User : AtOneDesk(u, written) => NamedLater(u)

\* A step of n in the user lane: what it writes it holds, and it writes no bare
\* key where it holds a name.
Writes(n) ==
  \A x \in written' \ written :
    /\ book'[n][x[1]] = x[2] /\ Wins(book[n][x[1]], x[2])
    /\ x[2].val = "stub" => ~Labelled(book[n][x[1]])

\* The seeds of a tick and a submission are written like that.
LEMMA UserWrites ==
  ASSUME IInv, lane = "user", NEW n \in Node,
         Tick(n) \/ \E u \in User, v \in Value : IngestIdentity(n, u, v)
  PROVE  Writes(n)
<1>1. book \in [Node -> BookType] /\ \A u \in User : u \in Keys
  BY Zenon DEF IInv, BookInv, Keys
<1>2. CASE Tick(n)
  <2>1. announce_user_book(n)
    BY <1>2, Zenon DEF Tick, announce_addr_book, announce_node_name, announce_service_book
  <2> DEFINE seeded(w) == load_user_seed(n, w)
             won(w) == {u \in Seed[n] : Wins(book[n][u], seeded(w)[u])}
             b(w) == [k \in Keys |-> IF k \in won(w) THEN seeded(w)[k] ELSE book[n][k]]
             new(w) == {<<u, seeded(w)[u]>> : u \in won(w)}
  <2>2. PICK w \in Readings(n) : Announce(n, b(w), new(w))
    BY <2>1, Zenon DEF announce_user_book
  <2>3. book' = [book EXCEPT ![n] = b(w)] /\ written' = written \cup new(w)
    BY <2>2, Zenon DEF Announce
  <2>4. Seed[n] \subseteq Keys
    BY BooksAssumption, Zenon DEF Keys
  <2>5. ASSUME NEW x \in written' \ written
        PROVE  book'[n][x[1]] = x[2] /\ Wins(book[n][x[1]], x[2]) /\ x[2].val = "seed"
    <3>1. PICK u \in won(w) : x = <<u, seeded(w)[u]>>
      BY <2>3, Zenon
    <3>2. u \in Seed[n] /\ u \in Keys /\ seeded(w)[u] = Record("seed", n, w)
      BY <2>4, Zenon DEF load_user_seed
    <3>3. book'[n][u] = seeded(w)[u]
      BY <1>1, <2>3, <3>2, Zenon
    <3>4. QED BY <3>1, <3>2, <3>3 DEF Record
  <2>6. QED BY <2>5, Zenon DEF Writes
<1>3. ASSUME NEW u \in User, NEW label \in Value, IngestIdentity(n, u, label)
      PROVE  Writes(n)
  <2> DEFINE e(w) == Record(DisplayName(book[n], u, label), n, w)
  <2>1. PICK w \in Readings(n) :
          /\ book' = [book EXCEPT ![n] = MergeRecord(@, u, e(w))]
          /\ written' = IF Wins(book[n][u], e(w)) THEN written \cup {<<u, e(w)>>} ELSE written
    BY <1>3, Zenon DEF IngestIdentity
  <2>2. ASSUME NEW x \in written' \ written
        PROVE  x = <<u, e(w)>> /\ Wins(book[n][u], e(w))
    BY <2>1, <2>2, Zenon
  <2>3. Wins(book[n][u], e(w)) => book'[n][u] = e(w)
    <3>1. book[n] \in [Keys -> Entry \cup {None}]
      BY <1>1, Zenon DEF BookType
    <3>2. QED BY <1>1, <2>1, <3>1, Zenon DEF MergeRecord
  <2>4. e(w).val = "stub" => ~Labelled(book[n][u])
    BY Zenon DEF Record, DisplayName, Labelled
  <2> HIDE DEF e
  <2>5. QED BY <2>2, <2>3, <2>4 DEF Writes
<1>4. QED BY <1>2, <1>3, Zenon

\* A record a node wrote stays behind what it holds as the node moves on.
LEMMA HeldKeeps ==
  ASSUME IInv, IInv', lane = "user", HeldInv, NEW n \in Node, Moves(n), Writes(n)
  PROVE  HeldInv'
<1> SUFFICES ASSUME NEW x \in written'
             PROVE  /\ book'[x[2].at.node_id][x[1]] # None
                    /\ HlcLeq(x[2].at, book'[x[2].at.node_id][x[1]].at)
  BY Zenon DEF HeldInv
<1> DEFINE m == x[2].at.node_id
           k == x[1]
<1>1. k \in Keys /\ x[2] \in Entry /\ x[2].at \in HLC /\ m \in Node
  BY Zenon DEF IInv, RestInv, Entry, HLC
<1>2. CASE x \notin written
  <2>1. m = n /\ book'[n][k] = x[2]
    BY <1>2, Zenon DEF Moves, Writes
  <2>2. QED BY <1>1, <2>1, NoRecordAssumption, Zenon DEF HlcLeq
<1>3. CASE x \in written
  <2>1. book[m][k] # None /\ HlcLeq(x[2].at, book[m][k].at)
    BY <1>3, Zenon DEF HeldInv
  <2>2. \/ book'[m][k] = book[m][k]
        \/ book'[m][k] # None /\ HlcLess(book[m][k].at, book'[m][k].at)
    BY <1>1, <2>1, Zenon DEF Moves, Unordered, Wins
  <2>3. book[m][k] \in Entry /\ (book'[m][k] = None \/ book'[m][k] \in Entry)
    <3>1. book[m] \in BookType /\ book'[m] \in BookType
      BY <1>1, Zenon DEF IInv, BookInv
    <3>2. QED BY <1>1, <2>1, <3>1, Zenon DEF BookType
  <2>4. book[m][k].at \in HLC /\ (book'[m][k] # None => book'[m][k].at \in HLC)
    BY <2>3, Zenon DEF Entry
  <2> HIDE DEF m, k
  <2>5. QED BY <1>1, <2>1, <2>2, <2>4, HlcOrder, Zenon DEF HlcLeq, m, k
<1>4. QED BY <1>2, <1>3, Zenon

\* Bare keys stay older than names: a name is written over what the desk
\* holds, and a bare key only where the desk holds no name, hence where none
\* of its names was written.
LEMMA NamedLaterKeeps ==
  ASSUME IInv, IInv', HeldInv, NEW n \in Node, Moves(n), Writes(n),
         NEW u \in User, AtOneDesk(u, written'), AtOneDesk(u, written) => NamedLater(u)
  PROVE  NamedLater(u)'
<1>1. AtOneDesk(u, written) /\ NamedLater(u) /\ u \in Keys
  BY Zenon DEF AtOneDesk, Moves, Keys
<1> SUFFICES ASSUME NEW v \in written', NEW w \in written',
                    v[1] = u, w[1] = u, v[2].val = "stub", w[2].val # "stub"
             PROVE  HlcLess(v[2].at, w[2].at)
  BY Zenon DEF NamedLater
<1> DEFINE r == book[n][u]
<1>2. v[2].at \in HLC /\ w[2].at \in HLC
  BY Zenon DEF IInv, RestInv, Entry
<1>3. r # None => <<u, r>> \in written /\ r.at \in HLC
  <2>1. r # None => <<u, r>> \in written
    BY <1>1, Zenon DEF IInv, BookInv, Known
  <2>2. r # None => r \in Entry
    BY <2>1, Zenon DEF IInv, RestInv
  <2>3. QED BY <2>1, <2>2, Zenon DEF Entry
<1>4. CASE v \in written /\ w \in written
  BY <1>1, <1>4, Zenon DEF NamedLater
<1>5. CASE v \notin written /\ w \in written
  <2>1. v[2].at.node_id = n /\ w[2].at.node_id = n /\ ~Labelled(r)
    <3>1. v[2].at.node_id = n
      BY <1>5, Zenon DEF Moves
    <3>2. w[2].at.node_id = v[2].at.node_id
      BY Zenon DEF AtOneDesk
    <3>3. ~Labelled(r)
      BY <1>5, Zenon DEF Writes
    <3>4. QED BY <3>1, <3>2, <3>3, Zenon
  <2>2. r # None /\ HlcLeq(w[2].at, r.at)
    BY <1>5, <2>1, Zenon DEF HeldInv
  <2>3. r.val = "stub" /\ <<u, r>> \in written
    BY <1>3, <2>1, <2>2, Zenon DEF Labelled
  <2>4. HlcLess(r.at, w[2].at)
    <3> DEFINE x == <<u, r>>
    <3>1. x \in written /\ x[1] = u /\ x[2] = r
      BY <2>3, Zenon
    <3> HIDE DEF x, r
    <3>2. QED BY <1>1, <1>5, <2>3, <3>1, Zenon DEF NamedLater
  <2>5. QED BY <1>2, <1>3, <2>2, <2>4, HlcStrict, Zenon
<1>6. CASE v \in written /\ w \notin written
  <2>1. v[2].at.node_id = n /\ Wins(r, w[2])
    <3>1. w[2].at.node_id = n
      BY <1>6, Zenon DEF Moves
    <3>2. w[2].at.node_id = v[2].at.node_id
      BY Zenon DEF AtOneDesk
    <3>3. Wins(r, w[2])
      BY <1>6, Zenon DEF Writes
    <3>4. QED BY <3>1, <3>2, <3>3, Zenon
  <2>2. r # None /\ HlcLeq(v[2].at, r.at)
    BY <1>6, <2>1, Zenon DEF HeldInv
  <2>3. HlcLess(r.at, w[2].at)
    BY <2>1, <2>2, Zenon DEF Wins
  <2>4. r.at \in HLC /\ (v[2].at = r.at \/ HlcLess(v[2].at, r.at))
    BY <1>3, <2>2, Zenon DEF HlcLeq
  <2> HIDE DEF r
  <2>5. QED BY <1>2, <2>3, <2>4, HlcOrder, Zenon
<1>7. CASE v \notin written /\ w \notin written
  BY <1>7, Zenon DEF Writes
<1>8. QED BY <1>4, <1>5, <1>6, <1>7, Zenon

\* The lane is chosen once.
LEMMA LaneKeeps == [Next]_vars => lane' = lane
<1>1. UNCHANGED vars => lane' = lane
  BY Zenon DEF vars
<1>2. \A n \in Node : Tick(n) => lane' = lane
  BY Zenon DEF Tick, announce_addr_book, announce_node_name, announce_user_book,
               announce_service_book, Announce
<1>3. \A n \in Node : \A u \in User, v \in Value : IngestIdentity(n, u, v) => lane' = lane
  BY Zenon DEF IngestIdentity
<1>4. \A n \in Node : \A m \in inbox[n] : Deliver(n, m) => lane' = lane
  BY Zenon DEF Deliver
<1>5. \A n \in Node : \A t \in Task : Persist(n, t) => lane' = lane
  BY Zenon DEF Persist, persist_addr_book, persist_node_name_book, persist_user_book,
               persist_service_book, Save
<1>6. \A n \in Node : Restart(n) => lane' = lane
  BY Zenon DEF Restart, load_addr_book, load_node_name_book, load_user_book,
               load_service_book, Load
<1>7. QED BY <1>1, <1>2, <1>3, <1>4, <1>5, <1>6, Zenon DEF Next

\* What a step of the user lane does before the first restart.
LEMMA UserStep ==
  ASSUME IInv, [Next]_vars, lane = "user", restarts' = 0
  PROVE  /\ lane' = lane /\ restarts = 0
         /\ \/ \E n \in Node : Moves(n) /\ Writes(n)
            \/ UNCHANGED <<book, written>>
<1>1. CASE UNCHANGED vars
  BY <1>1, Zenon DEF vars
<1>2. CASE Next
  <2>1. PICK n \in Node : \/ Tick(n)
                          \/ \E u \in User, v \in Value : IngestIdentity(n, u, v)
                          \/ \E m \in inbox[n] : Deliver(n, m)
                          \/ \E t \in Task : Persist(n, t)
                          \/ Restart(n)
    BY <1>2, Zenon DEF Next
  <2>2. CASE Tick(n)
    <3>1. lane' = lane /\ restarts' = restarts
      BY <2>2, Zenon DEF Tick, announce_addr_book, announce_node_name, announce_user_book,
                         announce_service_book, Announce
    <3>2. QED BY <2>2, <3>1, TickKeeps, UserWrites, Zenon
  <2>3. CASE \E u \in User, v \in Value : IngestIdentity(n, u, v)
    <3>1. lane' = lane /\ restarts' = restarts
      BY <2>3, Zenon DEF IngestIdentity
    <3>2. QED BY <2>3, <3>1, IngestKeeps, UserWrites, Zenon
  <2>4. CASE \E m \in inbox[n] : Deliver(n, m)
    <3>1. lane' = lane /\ restarts' = restarts /\ written' = written
      BY <2>4, Zenon DEF Deliver
    <3>2. Writes(n)
      BY <3>1, Zenon DEF Writes
    <3>3. QED BY <2>4, <3>1, <3>2, DeliverKeeps, Zenon
  <2>5. CASE \E t \in Task : Persist(n, t)
    <3>1. lane' = lane /\ restarts' = restarts
      BY <2>5, Zenon DEF Persist, persist_addr_book, persist_node_name_book,
                         persist_user_book, persist_service_book, Save
    <3>2. QED BY <2>5, <3>1, PersistKeeps, Zenon
  <2>6. CASE Restart(n)
    <3>1. restarts' = restarts + 1 /\ restarts \in Nat
      <4>1. restarts' = restarts + 1
        BY <2>6, Zenon DEF Restart, load_addr_book, load_node_name_book, load_user_book,
                           load_service_book, Load
      <4>2. QED BY <4>1, BooksAssumption DEF IInv, RestInv
    <3>2. QED BY <3>1
  <2>7. QED BY <2>1, <2>2, <2>3, <2>4, <2>5, <2>6, Zenon
<1>3. QED BY <1>1, <1>2, Zenon

\* The order of bare keys and names is kept.
LEMMA LabelInvKeeps == IInv /\ LabelInv /\ [Next]_vars => LabelInv'
<1> SUFFICES ASSUME IInv, LabelInv, [Next]_vars, lane' = "user", restarts' = 0
             PROVE  /\ HeldInv'
                    /\ \A u \in User : AtOneDesk(u, written') => NamedLater(u)'
  BY Zenon DEF LabelInv, AtOneDesk
<1>1. IInv'
  BY StepKeeps, Zenon
<1>2. lane' = lane
  BY LaneKeeps, Zenon
<1>3. /\ restarts = 0
      /\ \/ \E n \in Node : Moves(n) /\ Writes(n)
         \/ UNCHANGED <<book, written>>
  BY <1>2, UserStep, Zenon
<1>4. HeldInv /\ \A u \in User : AtOneDesk(u, written) => NamedLater(u)
  BY <1>2, <1>3, Zenon DEF LabelInv
<1>5. CASE \E n \in Node : Moves(n) /\ Writes(n)
  BY <1>1, <1>2, <1>4, <1>5, HeldKeeps, NamedLaterKeeps, Zenon
<1>6. CASE UNCHANGED <<book, written>>
  BY <1>4, <1>6, Zenon DEF HeldInv, NamedLater, AtOneDesk
<1>7. QED BY <1>3, <1>5, <1>6, Zenon

\* A person's name survives every tick, submission and delivery as long as
\* their desk neither moves nor restarts: no bare key of theirs is newer than a
\* name (announce_user_book, the IngestIdentity arm, merge_user_record).
THEOREM LabelsStick == Spec => LabelSticks
<1>1. Init => LabelInv
  <2> SUFFICES ASSUME Init, lane = "user" PROVE written = {}
    BY Zenon DEF LabelInv, HeldInv, NamedLater
  <2>1. \A n \in Node, k \in Keys : book[n][k] = None
    BY Zenon DEF Init, Empty
  <2>2. written = {<<k, book[n][k]>> : n \in Node, k \in Keys} \ (Keys \X {None})
    BY DEF Init
  <2>3. QED BY <2>1, <2>2
<1>2. ASSUME IInv, LabelInv, [Next]_vars, lane = "user", restarts' = 0,
             NEW u \in User, NEW n \in Node, OneDesk(u), Labelled(book[n][u])
      PROVE  Labelled(book'[n][u])
  <2> DEFINE old == book[n][u]
             new == book'[n][u]
  <2>1. HeldInv /\ (AtOneDesk(u, written) => NamedLater(u)) /\ u \in Keys
    BY <1>2, UserStep, Zenon DEF LabelInv, Keys
  <2>2. CASE UNCHANGED <<book, written>>
    BY <1>2, <2>2, Zenon
  <2>3. ASSUME NEW m \in Node, Moves(m), Writes(m), new # old
        PROVE  Labelled(new)
    <3>1. m = n /\ <<u, new>> \in written' /\ new # None /\ Wins(old, new)
      BY <1>2, <2>1, <2>3, Zenon DEF Moves, Unordered
    <3>2. HlcLess(old.at, new.at) /\ <<u, old>> \in written
      BY <1>2, <2>1, <3>1, Zenon DEF Labelled, Wins, IInv, BookInv, Known
    <3>3. old.at \in HLC /\ new.at \in HLC
      <4>1. IInv'
        BY <1>2, StepKeeps, Zenon
      <4>2. old \in Entry /\ new \in Entry
        BY <1>2, <3>1, <3>2, <4>1, Zenon DEF IInv, RestInv
      <4>3. QED BY <4>2, Zenon DEF Entry
    <3>4. NamedLater(u)
      BY <1>2, <2>1, <2>3, Zenon DEF OneDesk, AtOneDesk, Moves
    <3>5. SUFFICES ASSUME new.val = "stub" PROVE FALSE
      BY <3>1, Zenon DEF Labelled
    <3> DEFINE x == <<u, new>>
               y == <<u, old>>
    <3>6. x[1] = u /\ x[2] = new /\ y[1] = u /\ y[2] = old /\ x \in written' /\ y \in written
      BY <3>1, <3>2, Zenon
    <3> HIDE DEF x, y, old, new
    <3>7. x \in written
      BY <1>2, <2>3, <3>1, <3>5, <3>6, Zenon DEF Writes, old
    <3>8. HlcLess(new.at, old.at)
      BY <1>2, <3>4, <3>5, <3>6, <3>7, Zenon DEF NamedLater, Labelled, old
    <3>9. QED BY <3>2, <3>3, <3>8, HlcStrict, Zenon
  <2>4. QED BY <1>2, <2>2, <2>3, UserStep, Zenon
<1>3. IInv /\ LabelInv /\ [Next]_vars =>
        [lane = "user" /\ restarts' = 0 =>
           \A u \in User, n \in Node :
             OneDesk(u) /\ Labelled(book[n][u]) => Labelled(book'[n][u])]_vars
  BY <1>2, Zenon
<1>4. QED BY <1>1, <1>3, LabelInvKeeps, BooksInvariance, PTL DEF Spec, LabelSticks

-----------------------------------------------------------------------------
(* The subnet allocator.                                                   *)

WF == INSTANCE WellFoundedInduction

\* A set of numbers that is not empty has a least element.
LEMMA Least ==
  ASSUME NEW T \in SUBSET Nat, T # {}
  PROVE  \E x \in T : \A y \in T : x <= y
<1>1. \E x \in T : \A y \in T : <<y, x>> \notin WF!OpToRel(<, Nat)
  BY WF!NatLessThanWellFounded, WF!WFMin, Zenon
<1>2. PICK x \in T : \A y \in T : <<y, x>> \notin WF!OpToRel(<, Nat)
  BY <1>1, Zenon
<1>3. \A y \in T : ~(y < x)
  BY <1>2, Zenon DEF WF!OpToRel
<1>4. QED BY <1>3

\* The powers of two up to the n-th.
Powers(n) == {g \in [0..n -> Nat] : g[0] = 1 /\ \A i \in 1..n : g[i] = 2 * g[i - 1]}

\* The powers of two up to any one exist; a least n without them would be 0 or
\* follow one that has them.
LEMMA PowersExist ==
  ASSUME NEW n \in Nat
  PROVE  Powers(n) # {}
<1> DEFINE T == {k \in Nat : Powers(k) = {}}
<1>1. SUFFICES ASSUME T # {} PROVE FALSE
  BY Zenon
<1>2. PICK m \in T : \A k \in T : m <= k
  BY <1>1, Least, Zenon
<1>3. m # 0
  <2>1. [i \in 0..0 |-> 1] \in Powers(0)
    BY DEF Powers
  <2>2. QED BY <2>1, Zenon
<1>4. m - 1 \in Nat /\ m - 1 \notin T
  BY <1>2, <1>3
<1>5. PICK g \in Powers(m - 1) : TRUE
  BY <1>4, Zenon
<1> DEFINE h == [i \in 0..m |-> IF i = m THEN 2 * g[m - 1] ELSE g[i]]
<1>6. /\ g \in [0..m - 1 -> Nat] /\ g[0] = 1
      /\ \A i \in 1..m - 1 : g[i] = 2 * g[i - 1]
  BY Zenon DEF Powers
<1>7. h \in [0..m -> Nat]
  BY <1>3, <1>6
<1>8. h[0] = 1
  BY <1>3, <1>6
<1>9. ASSUME NEW i \in 1..m PROVE h[i] = 2 * h[i - 1]
  BY <1>3, <1>6
<1>10. QED BY <1>2, <1>7, <1>8, <1>9, Zenon DEF Powers

\* Two lists of powers agree where both are defined.
LEMMA PowersUnique ==
  ASSUME NEW n \in Nat, NEW k \in Nat, NEW g \in Powers(n), NEW h \in Powers(k),
         NEW i \in 0..n, i \in 0..k
  PROVE  g[i] = h[i]
<1> DEFINE T == {j \in 0..n : j \in 0..k /\ g[j] # h[j]}
<1>1. SUFFICES ASSUME T # {} PROVE FALSE
  BY Zenon
<1>2. T \in SUBSET Nat
  OBVIOUS
<1>3. PICK m \in T : \A j \in T : m <= j
  BY <1>1, <1>2, Least, Zenon
<1>4. m # 0
  BY Zenon DEF Powers
<1>5. m - 1 \in 0..n /\ m - 1 \in 0..k /\ m - 1 \notin T
  BY <1>3, <1>4
<1>6. g[m - 1] = h[m - 1]
  BY <1>5, Zenon
<1>7. QED BY <1>4, <1>6 DEF Powers

\* shl is what its definition says: 1 << n by doubling.
LEMMA ShlDef ==
  shl = [n \in Nat |-> IF n = 0 THEN 1 ELSE 2 * shl[n - 1]]
<1> DEFINE P(n) == CHOOSE g \in Powers(n) : TRUE
           f == [n \in Nat |-> P(n)[n]]
<1>1. \A n \in Nat : P(n) \in Powers(n)
  BY PowersExist, Zenon
<1>2. f[0] = 1
  BY <1>1, Zenon DEF Powers
<1>3. ASSUME NEW n \in Nat, n # 0 PROVE f[n] = 2 * f[n - 1]
  <2>1. n - 1 \in Nat /\ n \in 1..n /\ n - 1 \in 0..n /\ n - 1 \in 0..n - 1
    BY <1>3
  <2>2. P(n) \in Powers(n) /\ P(n - 1) \in Powers(n - 1)
    BY <1>1, <2>1, Zenon
  <2>3. P(n)[n] = 2 * P(n)[n - 1]
    BY <2>1, <2>2, Zenon DEF Powers
  <2>4. P(n)[n - 1] = P(n - 1)[n - 1]
    BY <2>1, <2>2, PowersUnique, Zenon
  <2>5. f[n] = P(n)[n] /\ f[n - 1] = P(n - 1)[n - 1]
    BY <2>1, Zenon
  <2>6. QED BY <2>3, <2>4, <2>5, Zenon
<1> HIDE DEF P
<1>4. f = [n \in Nat |-> IF n = 0 THEN 1 ELSE 2 * f[n - 1]]
  <2>1. ASSUME NEW n \in Nat PROVE P(n)[n] = IF n = 0 THEN 1 ELSE 2 * f[n - 1]
    <3>1. P(n)[n] = f[n]
      BY Zenon
    <3> HIDE DEF f
    <3>2. QED BY <1>2, <1>3, <3>1, Zenon
  <2>2. QED BY <2>1, Zenon
<1> HIDE DEF f
<1>5. \E g : g = [n \in Nat |-> IF n = 0 THEN 1 ELSE 2 * g[n - 1]]
  BY <1>4, Zenon
<1>6. QED BY <1>5, Zenon DEF shl

\* A power of two is not 0.
LEMMA ShlPositive == \A n \in Nat : shl[n] \in Nat \ {0}
<1> DEFINE T == {n \in Nat : shl[n] \notin Nat \ {0}}
<1>1. SUFFICES ASSUME T # {} PROVE FALSE
  BY Zenon
<1>2. PICK m \in T : \A n \in T : m <= n
  BY <1>1, Least, Zenon
<1>3. shl[m] = IF m = 0 THEN 1 ELSE 2 * shl[m - 1]
  BY ShlDef, Zenon
<1>4. m # 0
  BY <1>3
<1>5. m - 1 \in Nat /\ m - 1 \notin T
  BY <1>2, <1>4
<1>6. QED BY <1>3, <1>4, <1>5

\* The power of a sum is the product of the powers.
LEMMA ShlSum ==
  ASSUME NEW a \in Nat, NEW b \in Nat
  PROVE  shl[a + b] = shl[a] * shl[b]
<1> DEFINE T == {n \in Nat : shl[a + n] # shl[a] * shl[n]}
<1>1. SUFFICES ASSUME T # {} PROVE FALSE
  BY Zenon
<1>2. PICK m \in T : \A n \in T : m <= n
  BY <1>1, Least, Zenon
<1>3. \A n \in Nat : shl[n] \in Nat /\ shl[n] = IF n = 0 THEN 1 ELSE 2 * shl[n - 1]
  BY ShlDef, ShlPositive, Zenon
<1>4. m # 0
  BY <1>3
<1>5. m - 1 \in Nat /\ m - 1 \notin T /\ a + m \in Nat /\ a + m # 0 /\ (a + m) - 1 = a + (m - 1)
  BY <1>2, <1>4
<1>6. shl[a + (m - 1)] = shl[a] * shl[m - 1]
  BY <1>5, Zenon
<1>7. shl[a + m] = 2 * shl[a + (m - 1)] /\ shl[m] = 2 * shl[m - 1]
  BY <1>3, <1>4, <1>5, Zenon
<1>8. shl[a] \in Nat /\ shl[m - 1] \in Nat
  BY <1>3, <1>5, Zenon
<1>9. QED BY <1>6, <1>7, <1>8

\* Points of a grid are at least a step apart.
LEMMA GridStep ==
  ASSUME NEW a \in Nat, NEW b \in Nat, NEW s \in Nat, a < b
  PROVE  a * s + s <= b * s
OBVIOUS

\* A small block in a grid of s beside a large one in a grid of m * s: it is
\* inside, or it ends before the large one begins, or it begins after its end.
LEMMA Nested ==
  ASSUME NEW s \in Nat \ {0}, NEW m \in Nat \ {0}, NEW K \in Nat, NEW k \in Nat,
         NEW S, S = m * s
  PROVE  \/ /\ (k * s) \div S = K
            /\ K * S <= k * s /\ k * s + s <= K * S + S
         \/ /\ (k * s) \div S # K
            /\ k * s + s <= K * S \/ K * S + S <= k * s
<1>1. S \in Nat \ {0} /\ K * S = (K * m) * s /\ K * S + S = (K * m + m) * s
  OBVIOUS
<1>2. K * m \in Nat /\ K * m + m \in Nat /\ K * S \in Nat /\ k * s \in Nat
  BY <1>1
<1>3. CASE k < K * m
  <2>1. k * s + s <= K * S
    BY <1>1, <1>2, <1>3, GridStep, Zenon
  <2>2. k * s < K * S
    BY <1>2, <2>1
  <2>3. (k * s) \div S # K
    BY <1>1, <1>2, <2>2
  <2>4. QED BY <2>1, <2>3, Zenon
<1>4. CASE k >= K * m + m
  <2>1. K * S + S <= k * s
    BY <1>1, <1>2, <1>4
  <2>2. (k * s) \div S # K
    BY <1>1, <1>2, <2>1
  <2>3. QED BY <2>1, <2>2, Zenon
<1>5. CASE K * m <= k /\ k < K * m + m
  <2>1. K * S <= k * s
    BY <1>1, <1>2, <1>5
  <2>2. k * s + s <= K * S + S
    BY <1>1, <1>2, <1>5, GridStep, Zenon
  <2>3. (k * s) \div S = K
    BY <1>1, <1>2, <2>1, <2>2
  <2>4. QED BY <2>1, <2>2, <2>3, Zenon
<1>6. QED BY <1>2, <1>3, <1>4, <1>5

\* The blocks of the space: whole slots of their length.
Blocks ==
  {b \in [addr : Nat, len : BaseLen..Bits] :
     \E i \in 0..num_slots(b.len) - 1 : b.addr = BaseAddr + i * total_addresses(b.len)}

\* The blocks of a length fill the space.
LEMMA Sizes ==
  ASSUME NEW p \in BaseLen..Bits
  PROVE  /\ total_addresses(p) \in Nat \ {0} /\ num_slots(p) \in Nat \ {0}
         /\ total_addresses(BaseLen) = num_slots(p) * total_addresses(p)
<1>1. /\ Bits - p \in Nat /\ p - BaseLen \in Nat
      /\ Bits - BaseLen = (p - BaseLen) + (Bits - p)
  BY SpaceAssumption
<1>2. shl[Bits - BaseLen] = shl[p - BaseLen] * shl[Bits - p]
  BY <1>1, ShlSum, Zenon
<1>3. QED BY <1>1, <1>2, ShlPositive, Zenon DEF total_addresses, num_slots

\* The first address of the space is a multiple of every size.
LEMMA BaseAligned ==
  ASSUME NEW p \in BaseLen..Bits
  PROVE  \E q \in Nat : BaseAddr = (q * num_slots(p)) * total_addresses(p)
<1> DEFINE S == total_addresses(BaseLen)
           q == BaseAddr \div S
<1>1. S \in Nat \ {0} /\ BaseAddr \in Nat /\ BaseAddr % S = 0
  BY Sizes, SpaceAssumption
<1>2. S = num_slots(p) * total_addresses(p) /\ num_slots(p) \in Nat /\ total_addresses(p) \in Nat
  BY Sizes, Zenon
<1> HIDE DEF S
<1>3. q \in Nat /\ BaseAddr = q * S
  BY <1>1
<1> HIDE DEF q
<1>4. q * S = (q * num_slots(p)) * total_addresses(p)
  BY <1>2, <1>3
<1>5. QED BY <1>3, <1>4, Zenon

\* A block of the space begins at a multiple of its size.
LEMMA BlockAligned ==
  ASSUME NEW b \in Blocks
  PROVE  \E k \in Nat : b.addr = k * total_addresses(b.len)
<1>1. b.len \in BaseLen..Bits
  BY Zenon DEF Blocks
<1>2. PICK i \in 0..num_slots(b.len) - 1 : b.addr = BaseAddr + i * total_addresses(b.len)
  BY Zenon DEF Blocks
<1>3. PICK q \in Nat : BaseAddr = (q * num_slots(b.len)) * total_addresses(b.len)
  BY <1>1, BaseAligned, Zenon
<1>4. total_addresses(b.len) \in Nat /\ num_slots(b.len) \in Nat /\ i \in Nat
  BY <1>1, Sizes
<1>5. q * num_slots(b.len) + i \in Nat
  BY <1>4
<1>6. b.addr = (q * num_slots(b.len) + i) * total_addresses(b.len)
  BY <1>2, <1>3, <1>4
<1>7. QED BY <1>5, <1>6, Zenon

\* For two blocks `contains' in one of the directions is having an address in
\* common.
LEMMA ContainsOrDisjoint ==
  ASSUME NEW b \in Blocks, NEW c \in Blocks, b.len <= c.len
  PROVE  contains(b, c) <=> Addresses(b) \cap Addresses(c) # {}
<1> DEFINE S == total_addresses(b.len)
           s == total_addresses(c.len)
           m == shl[c.len - b.len]
<1>1. b.len \in BaseLen..Bits /\ c.len \in BaseLen..Bits
  BY Zenon DEF Blocks
<1>2. S = m * s
  <2>1. c.len - b.len \in Nat /\ Bits - c.len \in Nat
        /\ Bits - b.len = (c.len - b.len) + (Bits - c.len)
    BY <1>1, SpaceAssumption
  <2>2. QED BY <2>1, ShlSum, Zenon DEF total_addresses
<1>3. s \in Nat \ {0} /\ S \in Nat \ {0}
  BY <1>1, Sizes, Zenon
<1>4. m \in Nat \ {0}
  BY <1>1, SpaceAssumption, ShlPositive
<1>5. PICK K \in Nat : b.addr = K * S
  BY BlockAligned, Zenon
<1>6. PICK k \in Nat : c.addr = k * s
  BY BlockAligned, Zenon
<1>7. contains(b, c) <=> c.addr \div S = b.addr \div S
  BY Zenon DEF contains
<1>8. Addresses(b) = b.addr .. b.addr + S - 1 /\ Addresses(c) = c.addr .. c.addr + s - 1
  BY Zenon DEF Addresses
<1> HIDE DEF S, s, m
<1>9. b.addr \div S = K
  BY <1>3, <1>5
<1>10. \/ /\ c.addr \div S = K
          /\ b.addr <= c.addr /\ c.addr + s <= b.addr + S
       \/ /\ c.addr \div S # K
          /\ c.addr + s <= b.addr \/ b.addr + S <= c.addr
  BY <1>2, <1>3, <1>4, <1>5, <1>6, Nested
<1>11. b.addr \in Nat /\ c.addr \in Nat
  BY Zenon DEF Blocks
<1>12. CASE b.addr <= c.addr /\ c.addr + s <= b.addr + S /\ c.addr \div S = K
  <2>1. c.addr \in Addresses(b) \cap Addresses(c)
    BY <1>3, <1>8, <1>11, <1>12
  <2>2. QED BY <1>7, <1>9, <1>12, <2>1, Zenon
<1>13. CASE (c.addr + s <= b.addr \/ b.addr + S <= c.addr) /\ c.addr \div S # K
  <2>1. ASSUME NEW x \in Addresses(b) \cap Addresses(c) PROVE FALSE
    <3>1. x \in b.addr .. b.addr + S - 1 /\ x \in c.addr .. c.addr + s - 1
      BY <1>8, <2>1, Zenon
    <3>2. QED BY <1>3, <1>11, <1>13, <3>1
  <2>2. QED BY <1>7, <1>9, <1>13, <2>1, Zenon
<1>14. QED BY <1>10, <1>12, <1>13, Zenon

\* overlaps_any is having an address in common with one of the blocks.
LEMMA OverlapIsShared ==
  ASSUME NEW b \in Blocks, NEW blocks \in SUBSET Blocks
  PROVE  overlaps_any(b, blocks) <=> \E c \in blocks : Addresses(b) \cap Addresses(c) # {}
<1>1. ASSUME NEW c \in blocks
      PROVE  contains(c, b) \/ contains(b, c) <=> Addresses(b) \cap Addresses(c) # {}
  <2>1. c \in Blocks /\ b.len \in Nat /\ c.len \in Nat
    BY SpaceAssumption DEF Blocks
  <2>2. CASE b.len < c.len
    <3>1. ~contains(c, b)
      BY <2>1, <2>2 DEF contains
    <3>2. b.len <= c.len
      BY <2>1, <2>2
    <3>3. QED BY <2>1, <3>1, <3>2, ContainsOrDisjoint, Zenon
  <2>3. CASE c.len < b.len
    <3>1. ~contains(b, c)
      BY <2>1, <2>3 DEF contains
    <3>2. c.len <= b.len
      BY <2>1, <2>3
    <3>3. contains(c, b) <=> Addresses(c) \cap Addresses(b) # {}
      BY <2>1, <3>2, ContainsOrDisjoint, Zenon
    <3>4. QED BY <3>1, <3>3, Zenon
  <2>4. CASE b.len = c.len
    <3>1. contains(c, b) <=> contains(b, c)
      BY <2>4, Zenon DEF contains
    <3>2. b.len <= c.len
      BY <2>1, <2>4
    <3>3. QED BY <2>1, <3>1, <3>2, ContainsOrDisjoint, Zenon
  <2>5. QED BY <2>1, <2>2, <2>3, <2>4
<1>2. QED BY <1>1, Zenon DEF overlaps_any

-----------------------------------------------------------------------------
\* The walk of pick_subnet goes through the slots of the space, and through
\* all of them.
LEMMA SlotIsBlock ==
  ASSUME NEW h \in Nat, NEW p \in BaseLen..Bits, NEW k \in Nat
  PROVE  SlotBlock(h, p, k) \in Blocks /\ SlotBlock(h, p, k).len = p
<1> DEFINE n == num_slots(p)
           i == ((h % n) + k) % n
<1>1. n \in Nat \ {0} /\ total_addresses(p) \in Nat /\ BaseAddr \in Nat
  BY Sizes, SpaceAssumption, Zenon
<1>2. SlotBlock(h, p, k) = [addr |-> BaseAddr + i * total_addresses(p), len |-> p]
  BY Zenon DEF SlotBlock, Block
<1> HIDE DEF n
<1>3. h % n \in Nat
  BY <1>1
<1>4. i \in 0..n - 1
  BY <1>1, <1>3
<1> HIDE DEF i
<1>5. BaseAddr + i * total_addresses(p) \in Nat
  BY <1>1, <1>4
<1> USE DEF n
<1>6. QED BY <1>2, <1>4, <1>5 DEF Blocks

\* From any start, adding 0..n-1 modulo n reaches every slot.
LEMMA WalkCovers ==
  ASSUME NEW n \in Nat \ {0}, NEW h \in Nat, NEW i \in 0..n - 1
  PROVE  \E k \in 0..n - 1 : ((h % n) + k) % n = i
<1> DEFINE r == h % n
           k == IF r <= i THEN i - r ELSE i + n - r
<1>1. r \in 0..n - 1
  OBVIOUS
<1> HIDE DEF r
<1>2. k \in 0..n - 1 /\ (r + k = i \/ r + k = i + n)
  BY <1>1
<1> HIDE DEF k
<1>3. (r + k) % n = i
  BY <1>1, <1>2
<1>4. QED BY <1>2, <1>3, Zenon DEF r

\* A block of the space is the slot the walk reaches with its index.
LEMMA EveryBlockASlot ==
  ASSUME NEW h \in Nat, NEW b \in Blocks
  PROVE  \E k \in 0..num_slots(b.len) - 1 : SlotBlock(h, b.len, k) = b
<1>1. b.len \in BaseLen..Bits /\ b = [addr |-> b.addr, len |-> b.len]
  BY Zenon DEF Blocks
<1>2. PICK i \in 0..num_slots(b.len) - 1 : b.addr = BaseAddr + i * total_addresses(b.len)
  BY Zenon DEF Blocks
<1>3. num_slots(b.len) \in Nat \ {0}
  BY <1>1, Sizes, Zenon
<1>4. PICK k \in 0..num_slots(b.len) - 1 : ((h % num_slots(b.len)) + k) % num_slots(b.len) = i
  BY <1>3, WalkCovers, Zenon
<1>5. SlotBlock(h, b.len, k) = b
  BY <1>1, <1>2, <1>4, Zenon DEF SlotBlock, Block
<1>6. QED BY <1>5, Zenon

\* An address is free for a length when the block there is one of the space
\* that overlaps none.
LEMMA FreeIsBlock ==
  ASSUME NEW p \in BaseLen..Bits, NEW blocks \in SUBSET Blocks, NEW a
  PROVE  a \in FreeAt(p, blocks) <=> Block(a, p) \in Blocks /\ ~overlaps_any(Block(a, p), blocks)
<1> DEFINE s == total_addresses(p)
           n == num_slots(p)
           S == total_addresses(BaseLen)
<1>1. s \in Nat \ {0} /\ n \in Nat \ {0} /\ S = n * s /\ BaseAddr \in Nat
  BY Sizes, SpaceAssumption, Zenon
<1>2. PICK q \in Nat : BaseAddr = (q * n) * s
  BY BaseAligned, Zenon
<1>3. Block(a, p).addr = a /\ Block(a, p).len = p
  BY Zenon DEF Block
<1>4. Block(a, p) \in Blocks <=> a \in Nat /\ \E i \in 0..n - 1 : a = BaseAddr + i * s
  BY Zenon DEF Block, Blocks
<1>5. a \in FreeAt(p, blocks) <=>
        /\ a \in BaseAddr .. BaseAddr + S - 1 /\ a % s = 0
        /\ \A c \in blocks : Addresses(Block(a, p)) \cap Addresses(c) = {}
  BY Zenon DEF FreeAt
<1> HIDE DEF s, n, S
<1>6. q * n \in Nat
  BY <1>1
<1>7. ASSUME a \in BaseAddr .. BaseAddr + S - 1, a % s = 0
      PROVE  a \in Nat /\ \E i \in 0..n - 1 : a = BaseAddr + i * s
  <2> DEFINE j == a \div s
  <2>1. a \in Nat
    BY <1>1, <1>7
  <2>2. j \in Nat /\ a = j * s
    BY <1>1, <1>7, <2>1
  <2> HIDE DEF j
  <2>3. j >= q * n
    <3>1. ASSUME j < q * n PROVE FALSE
      <4>1. j * s + s <= (q * n) * s
        BY <1>1, <1>6, <2>2, <3>1, GridStep, Zenon
      <4>2. a >= BaseAddr
        BY <1>1, <1>7
      <4>3. QED BY <1>1, <1>2, <2>1, <2>2, <4>1, <4>2
    <3>2. QED BY <1>6, <2>2, <3>1
  <2>4. j < q * n + n
    <3>1. ASSUME j >= q * n + n PROVE FALSE
      <4>1. (q * n + n) * s <= j * s
        BY <1>1, <1>6, <2>2, <3>1
      <4>2. (q * n + n) * s = BaseAddr + S
        BY <1>1, <1>2, <1>6
      <4>3. a < BaseAddr + S
        BY <1>1, <1>7
      <4>4. QED BY <1>1, <2>1, <2>2, <4>1, <4>2, <4>3
    <3>2. QED BY <1>1, <1>6, <2>2, <3>1
  <2>5. j - q * n \in 0..n - 1
    BY <1>1, <1>6, <2>2, <2>3, <2>4
  <2>6. a = BaseAddr + (j - q * n) * s
    BY <1>1, <1>2, <1>6, <2>2
  <2>7. QED BY <2>1, <2>5, <2>6, Zenon
<1>8. ASSUME NEW i \in 0..n - 1, a = BaseAddr + i * s
      PROVE  a \in BaseAddr .. BaseAddr + S - 1 /\ a % s = 0
  <2>1. i \in Nat /\ i < n
    BY <1>1
  <2>2. i * s \in Nat /\ i * s + s <= n * s
    BY <1>1, <2>1, GridStep
  <2>3. a \in BaseAddr .. BaseAddr + S - 1
    BY <1>1, <1>8, <2>2
  <2>4. a = (q * n + i) * s /\ q * n + i \in Nat
    BY <1>1, <1>2, <1>6, <1>8, <2>1
  <2>5. a % s = 0
    BY <1>1, <2>4
  <2>6. QED BY <2>3, <2>5, Zenon
<1>9. ASSUME Block(a, p) \in Blocks
      PROVE  ~overlaps_any(Block(a, p), blocks) <=>
               \A c \in blocks : Addresses(Block(a, p)) \cap Addresses(c) = {}
  BY <1>9, OverlapIsShared, Zenon
<1>10. QED BY <1>4, <1>5, <1>7, <1>8, <1>9, Zenon

\* pick_subnet answers with one free block of the length if there is one.
LEMMA PickSound ==
  ASSUME NEW h \in Nat, NEW p \in BaseLen..Bits, NEW blocks \in SUBSET Blocks
  PROVE  /\ pick_subnet(h, blocks, p) = {} <=> FreeAt(p, blocks) = {}
         /\ \A b \in pick_subnet(h, blocks, p) :
              /\ b \in Blocks /\ b.len = p /\ b.addr \in FreeAt(p, blocks)
              /\ pick_subnet(h, blocks, p) = {b}
<1> DEFINE W == 0..num_slots(p) - 1
           F == {k \in W : ~overlaps_any(SlotBlock(h, p, k), blocks)}
           First == {k \in F : \A j \in 0..k - 1 : overlaps_any(SlotBlock(h, p, j), blocks)}
<1>1. num_slots(p) \in Nat \ {0}
  BY Sizes, Zenon
<1>2. W \subseteq Nat /\ F \subseteq W /\ First \subseteq F
      /\ \A k \in W : \A j \in Nat : j < k => j \in W
  BY <1>1
<1>3. pick_subnet(h, blocks, p) = {SlotBlock(h, p, k) : k \in First}
  BY Zenon DEF pick_subnet
<1>4. \A k \in W : SlotBlock(h, p, k) \in Blocks /\ SlotBlock(h, p, k).len = p
                   /\ SlotBlock(h, p, k) = Block(SlotBlock(h, p, k).addr, p)
  <2>1. ASSUME NEW b \in Blocks PROVE b = Block(b.addr, b.len)
    BY Zenon DEF Blocks, Block
  <2>2. QED BY <1>2, <2>1, SlotIsBlock
<1>5. ASSUME NEW a \in FreeAt(p, blocks) PROVE F # {}
  <2>1. Block(a, p) \in Blocks /\ ~overlaps_any(Block(a, p), blocks)
    BY <1>5, FreeIsBlock, Zenon
  <2>2. Block(a, p).len = p
    BY Zenon DEF Block
  <2>3. QED BY <2>1, <2>2, EveryBlockASlot, Zenon
<1>6. ASSUME F # {} PROVE First # {}
  <2>1. F \in SUBSET Nat
    BY <1>2, Zenon
  <2> HIDE DEF F
  <2>2. PICK k \in F : \A j \in F : k <= j
    BY <1>6, <2>1, Least, Zenon
  <2>3. ASSUME NEW j \in 0..k - 1 PROVE overlaps_any(SlotBlock(h, p, j), blocks)
    <3>1. j \in Nat /\ j < k /\ k \in W
      BY <1>2, <2>1
    <3>2. j \in W /\ j \notin F
      BY <1>2, <2>1, <2>2, <3>1
    <3>3. QED BY <3>2, Zenon DEF F
  <2>4. QED BY <2>2, <2>3, Zenon
<1>7. ASSUME NEW k \in First
      PROVE  SlotBlock(h, p, k).addr \in FreeAt(p, blocks)
  <2>1. k \in W /\ ~overlaps_any(SlotBlock(h, p, k), blocks)
    BY <1>2, <1>7, Zenon
  <2>2. QED BY <1>4, <2>1, FreeIsBlock, Zenon
<1>8. ASSUME NEW k \in First, NEW j \in First PROVE k = j
  <2>1. k \in Nat /\ j \in Nat
    BY <1>2, Zenon
  <2>2. ASSUME NEW x \in First, NEW y \in First, x < y, x \in Nat, y \in Nat PROVE FALSE
    <3>1. x \in 0..y - 1
      BY <2>2
    <3>2. QED BY <2>2, <3>1, Zenon
  <2>3. k < j \/ j < k \/ k = j
    BY <2>1
  <2>4. QED BY <2>1, <2>2, <2>3, Zenon
<1> HIDE DEF F, First, W
<1>9. pick_subnet(h, blocks, p) = {} <=> FreeAt(p, blocks) = {}
  <2>1. pick_subnet(h, blocks, p) = {} <=> First = {}
    BY <1>3, Zenon
  <2>2. QED BY <2>1, <1>5, <1>6, <1>7, Zenon
<1>10. ASSUME NEW b \in pick_subnet(h, blocks, p)
       PROVE  /\ b \in Blocks /\ b.len = p /\ b.addr \in FreeAt(p, blocks)
              /\ pick_subnet(h, blocks, p) = {b}
  <2>1. PICK k \in First : b = SlotBlock(h, p, k)
    BY <1>3, Zenon
  <2>2. First = {k}
    BY <1>8, Zenon
  <2>3. QED BY <1>2, <1>3, <1>4, <1>7, <2>1, <2>2, Zenon
<1>11. QED BY <1>9, <1>10, Zenon

\* The answer to a request for length p that saw these blocks.
Answer(p, blocks, answer) ==
  \/ Fitting(p, blocks) = {} /\ answer = {}
  \/ \E b \in answer : /\ answer = {b} /\ b.addr \in FreeAt(b.len, blocks)
                       /\ b.len \in Fitting(p, blocks)
                       /\ \A q \in Fitting(p, blocks) : b.len <= q

\* What pick_subnet_or_smaller answers is Answer.
LEMMA AnswerRight ==
  ASSUME NEW h \in Nat, NEW p \in BaseLen..Bits, NEW blocks \in SUBSET Blocks,
         NEW answer, answer = pick_subnet_or_smaller(h, blocks, p)
  PROVE  Answer(p, blocks, answer) /\ answer \subseteq Blocks
<1> DEFINE Q == {p} \cup p..Floor
           Fit == Fitting(p, blocks)
           pick(q) == pick_subnet(h, blocks, q)
<1>1. Q \subseteq BaseLen..Bits /\ BaseLen..Bits \subseteq Nat /\ \A q \in Q : p <= q
  BY SpaceAssumption
<1>2. Fit = {q \in Q : pick(q) # {}}
  BY <1>1, PickSound, Zenon DEF Fitting
<1>3. answer = {b \in UNION {pick(q) : q \in Q} : \A q \in p..b.len - 1 : pick(q) = {}}
  BY Zenon DEF pick_subnet_or_smaller
<1>4. \A q \in Q : \A b \in pick(q) : /\ b \in Blocks /\ b.len = q
                                      /\ b.addr \in FreeAt(q, blocks) /\ pick(q) = {b}
  BY <1>1, PickSound, Zenon
<1>5. \A q \in Q : \A r \in p..q - 1 : r \in Q
  BY <1>1, SpaceAssumption
<1> HIDE DEF Q, Fit, pick
<1>6. ASSUME NEW b \in answer
      PROVE  /\ b.len \in Fit /\ b \in pick(b.len) /\ b \in Blocks
             /\ \A q \in Fit : b.len <= q
  <2>1. PICK q \in Q : b \in pick(q)
    BY <1>3, Zenon
  <2>2. b.len = q /\ b \in Blocks
    BY <1>4, <2>1, Zenon
  <2>3. ASSUME NEW r \in Fit, ~(b.len <= r) PROVE FALSE
    <3>1. r \in Q /\ pick(r) # {} /\ r \in Nat /\ p <= r /\ q \in Nat /\ p \in Nat
      BY <1>1, <1>2, Zenon
    <3>2. r \in p..b.len - 1
      BY <2>2, <2>3, <3>1
    <3>3. QED BY <1>3, <3>1, <3>2, Zenon
  <2>4. QED BY <1>2, <2>1, <2>2, <2>3, Zenon
<1>7. ASSUME NEW b \in answer, NEW c \in answer PROVE b = c
  <2>1. b.len \in Nat /\ c.len \in Nat /\ b.len <= c.len /\ c.len <= b.len
    BY <1>1, <1>2, <1>6, Zenon
  <2>2. b.len = c.len
    BY <2>1
  <2>3. b \in pick(b.len) /\ c \in pick(b.len) /\ b.len \in Q
    BY <1>2, <1>6, <2>2, Zenon
  <2>4. QED BY <1>4, <2>3, Zenon
<1>8. ASSUME Fit # {} PROVE answer # {}
  <2>1. Fit \in SUBSET Nat
    BY <1>1, <1>2, Zenon
  <2>2. PICK q \in Fit : \A r \in Fit : q <= r
    BY <1>8, <2>1, Least, Zenon
  <2>3. q \in Q /\ pick(q) # {}
    BY <1>2, Zenon
  <2>4. PICK b \in pick(q) : b.len = q
    BY <1>4, <2>3, Zenon
  <2>5. ASSUME NEW r \in p..q - 1 PROVE pick(r) = {}
    <3>1. r \in Q
      BY <1>5, <2>3, Zenon
    <3>2. ~(q <= r)
      BY <1>1, <2>3
    <3>3. QED BY <1>2, <2>2, <3>1, <3>2, Zenon
  <2>6. b \in UNION {pick(x) : x \in Q}
    BY <2>3, Zenon
  <2>7. b \in answer
    BY <1>3, <2>4, <2>5, <2>6, Zenon
  <2>8. QED BY <2>7, Zenon
<1>9. ASSUME NEW b \in answer
      PROVE  answer = {b} /\ b.addr \in FreeAt(b.len, blocks)
  <2>1. b.len \in Q
    BY <1>2, <1>6, Zenon
  <2>2. QED BY <1>4, <1>6, <1>7, <2>1
<1>10. CASE answer = {}
  BY <1>8, <1>10, Zenon DEF Answer, Fit
<1>11. CASE answer # {}
  <2>1. PICK b \in answer : TRUE
    BY <1>11, Zenon
  <2>2. /\ b.len \in Fit /\ answer = {b} /\ b.addr \in FreeAt(b.len, blocks)
        /\ \A q \in Fit : b.len <= q
    BY <1>6, <1>9, <2>1, Zenon
  <2>3. QED BY <1>6, <2>1, <2>2, Zenon DEF Answer, Fit
<1>12. QED BY <1>10, <1>11, Zenon

\* The claimed blocks are blocks of the space, and the last request was answered
\* from the claims it saw.
AllocInv ==
  /\ claimed \subseteq Blocks
  /\ \A r \in asked : Answer(r.len, r.seen, granted)

\* The allocator hands out the largest free block not larger than asked for,
\* and none only when nothing fits down to the floor, however claims and
\* releases have fragmented the space; for any width of addresses
\* (pick_subnet_or_smaller, pick_subnet, overlaps_any).
THEOREM LargestFits == AllocSpec => []LargestThatFits
<1>1. AllocInit => AllocInv
  BY Zenon DEF AllocInit, AllocInv
<1>2. AllocInv /\ [AllocNext]_allocVars => AllocInv'
  <2> SUFFICES ASSUME AllocInv, [AllocNext]_allocVars PROVE AllocInv'
    BY Zenon
  <2>1. ASSUME NEW h \in Hash, NEW p \in BaseLen..Bits, Ask(h, p) PROVE AllocInv'
    <3>1. /\ asked' = {[len |-> p, seen |-> claimed]}
          /\ granted' = pick_subnet_or_smaller(h, claimed, p)
          /\ claimed' = claimed \cup granted'
      BY <2>1, Zenon DEF Ask
    <3>2. h \in Nat /\ claimed \in SUBSET Blocks
      BY SpaceAssumption, Zenon DEF AllocInv
    <3>3. Answer(p, claimed, granted') /\ granted' \subseteq Blocks
      BY <3>1, <3>2, AnswerRight, Zenon
    <3>4. claimed' \subseteq Blocks
      BY <3>1, <3>2, <3>3, Zenon
    <3>5. \A r \in asked' : r.len = p /\ r.seen = claimed
      BY <3>1
    <3>6. \A r \in asked' : Answer(r.len, r.seen, granted')
      BY <3>3, <3>5, Zenon
    <3>7. QED BY <3>4, <3>6, Zenon DEF AllocInv, Answer
  <2>2. ASSUME NEW b \in claimed, GiveBack(b) PROVE AllocInv'
    <3>1. claimed' \subseteq claimed /\ asked' = asked /\ granted' = granted
      BY <2>2, Zenon DEF GiveBack
    <3>2. QED BY <3>1, Zenon DEF AllocInv, Answer
  <2>3. CASE UNCHANGED allocVars
    BY <2>3, Zenon DEF allocVars, AllocInv, Answer
  <2>4. QED BY <2>1, <2>2, <2>3, Zenon DEF AllocNext
<1>3. AllocInv => LargestThatFits
  BY Zenon DEF AllocInv, Answer, LargestThatFits
<1>4. QED BY <1>1, <1>2, <1>3, PTL DEF AllocSpec

-----------------------------------------------------------------------------
(* The start and the end of the daemon.                                    *)

CONSTANTS MaxFaults, MaxTroubles
VARIABLES faults, lan, overlay, lanTunnels, trouble, pc, l2, pinned, hints, loaded, tasks, disk,
          forward, stopped

Life == INSTANCE Daemon

\* The steps of a start, in order.
Early == {"secret"}
Claimed == {"backhaul", "endpoint", "directory"}
Restored == {"responder", "dnsmasq", "roster", "overlay", "lanes"}
Read == {"router", "lookup", "subscribe"}
Joined == {"control", "babel", "dial", "holding"}
Routed == {"dial", "holding"}

\* The tasks that write lanes to disk.
Savers == Life!Gossiping \cup {"control"}

\* What has been read when, and what runs when.
LifeInv ==
  /\ pc \in {"down"} \cup Early \cup Claimed \cup Restored \cup Read \cup Joined
  /\ loaded \subseteq Life!Lane /\ disk = Life!Lane
  /\ pc \in Claimed => "claims" \in loaded
  /\ pc \in Restored => {"claims", "services2", "leased"} \subseteq loaded
  /\ pc \in Read \cup Joined => loaded = Life!Lane
  /\ pc \in {"down", "secret"} => tasks = {}
  /\ pc \notin Joined => tasks \cap Savers = {}

\* Which data plane has been brought up.
PlaneInv ==
  /\ lan \in BOOLEAN /\ overlay \in BOOLEAN /\ lanTunnels \in BOOLEAN /\ l2 \in BOOLEAN
  /\ "reader" \in tasks <=> overlay /\ pc \in {"lanes"} \cup Read \cup Joined
  /\ "babel overlay" \in tasks <=> overlay /\ pc \in Routed
  /\ "dialers" \in tasks <=> Life!want_tunnels /\ pc = "holding"
  /\ pc = "endpoint" => (l2 <=> ~overlay /\ "no interface" \notin trouble)
  /\ pc \in {"directory"} \cup Restored \cup Read \cup Joined
       => (l2 <=> lan /\ ~overlay /\ "no interface" \notin trouble)

\* The values the other variables take.
LifeTypes ==
  /\ {pinned, hints, forward, stopped} \subseteq BOOLEAN
  /\ trouble \subseteq Life!Trouble
  /\ tasks \subseteq Life!Gossiping \cup
       {"dns", "writer", "fib", "reader", "router", "control", "babel",
        "babel overlay", "probe", "dialers"}
  /\ faults \in 0..MaxFaults

\* No lane is saved before it was read from disk, so nothing a router ever knew is
\* forgotten over a restart; and the data plane that is brought up is the one the
\* command line selects, for any number of faults (main, run_mesh).
THEOREM DaemonSafe ==
  ASSUME MaxFaults \in Nat
  PROVE  Life!Spec => [](Life!NothingForgotten /\ Life!OneDataPlane /\ Life!TypeOK)
<1> USE DEF Early, Claimed, Restored, Read, Joined, Routed, Savers, Life!Gossiping
<1>1. Life!Init => LifeInv /\ PlaneInv /\ LifeTypes
  <2> SUFFICES ASSUME Life!Init PROVE LifeInv /\ PlaneInv /\ LifeTypes
    BY Zenon
  <2>1. LifeInv
    BY Zenon DEF Life!Init, LifeInv, Life!Lane
  <2>2. PlaneInv
    BY Zenon DEF Life!Init, PlaneInv
  <2>3. LifeTypes
    <3>1. {pinned, hints, forward, stopped} \subseteq BOOLEAN /\ trouble \subseteq Life!Trouble
      BY Zenon DEF Life!Init
    <3>2. tasks = {} /\ faults \in 0..MaxFaults
      BY DEF Life!Init
    <3>3. QED BY <3>1, <3>2, Zenon DEF LifeTypes
  <2>4. QED BY <2>1, <2>2, <2>3, Zenon
<1>2. LifeInv /\ [Life!Next]_Life!vars => LifeInv'
  <2> SUFFICES ASSUME LifeInv, [Life!Next]_Life!vars PROVE LifeInv'
    BY Zenon
  <2> USE DEF LifeInv, Life!At, Life!Returns, Life!Exits, Life!Lane
  <2>1. CASE Life!load_or_create_secret BY <2>1, Zenon DEF Life!load_or_create_secret, Life!outside
  <2>2. CASE Life!assign_backhaul_addr BY <2>2, Zenon DEF Life!assign_backhaul_addr, Life!outside
  <2>3. CASE Life!build_endpoint BY <2>3, Zenon DEF Life!build_endpoint, Life!outside
  <2>4. CASE Life!restore_directory BY <2>4, Zenon DEF Life!restore_directory, Life!outside
  <2>5. CASE Life!start_responder BY <2>5, Zenon DEF Life!start_responder, Life!outside
  <2>6. CASE Life!reconcile_dnsmasq_uci BY <2>6, Zenon DEF Life!reconcile_dnsmasq_uci, Life!outside
  <2>7. CASE Life!load_roster BY <2>7, Zenon DEF Life!load_roster, Life!outside
  <2>8. CASE Life!spawn_overlay BY <2>8, Zenon DEF Life!spawn_overlay, Life!outside
  <2>9. CASE Life!restore_lanes BY <2>9, Zenon DEF Life!restore_lanes, Life!outside
  <2>10. CASE Life!spawn_router BY <2>10, Zenon DEF Life!spawn_router, Life!outside
  <2>11. CASE Life!seed_lookup BY <2>11, Zenon DEF Life!seed_lookup, Life!outside
  <2>12. CASE Life!subscribe BY <2>12, Zenon DEF Life!subscribe, Life!outside
  <2>13. CASE Life!control_api_start BY <2>13, Zenon DEF Life!control_api_start, Life!outside
  <2>14. CASE Life!spawn_babel BY <2>14, Zenon DEF Life!spawn_babel, Life!outside
  <2>15. CASE Life!spawn_dialers BY <2>15, Zenon DEF Life!spawn_dialers, Life!outside
  <2>16. CASE Life!CtrlC BY <2>16, Zenon DEF Life!CtrlC
  <2>17. ASSUME NEW ln \in Life!Lane, Life!Save(ln) PROVE LifeInv'
    BY <2>17, Zenon DEF Life!Save, Life!Saves
  <2>18. CASE Life!DispatchEnds BY <2>18, Zenon DEF Life!DispatchEnds, Life!outside
  <2>19. CASE Life!Dies BY <2>19, Zenon DEF Life!Dies, Life!outside
  <2>20. CASE Life!Respawn BY <2>20, Zenon DEF Life!Respawn, Life!outside
  <2>21. CASE UNCHANGED Life!vars BY <2>21, Zenon DEF Life!vars, Life!outside
  <2>22. QED
    BY <2>1, <2>2, <2>3, <2>4, <2>5, <2>6, <2>7, <2>8, <2>9, <2>10, <2>11, <2>12, <2>13,
       <2>14, <2>15, <2>16, <2>17, <2>18, <2>19, <2>20, <2>21, Zenon
       DEF Life!Next, Life!Start
<1>3. PlaneInv /\ LifeInv /\ [Life!Next]_Life!vars => PlaneInv'
  <2> SUFFICES ASSUME PlaneInv, LifeInv, [Life!Next]_Life!vars PROVE PlaneInv'
    BY Zenon
  <2> USE DEF PlaneInv, Life!At, Life!config, Life!net, Life!want_tunnels
  <2>23. Life!Exits /\ UNCHANGED Life!config => PlaneInv'
    BY Zenon DEF Life!Exits
  <2>24. ASSUME NEW h, NEW e, Life!Returns(h, e) PROVE PlaneInv'
    BY <2>23, <2>24, Zenon DEF Life!Returns
  <2>1. CASE Life!load_or_create_secret BY <2>1, <2>24, Zenon DEF Life!load_or_create_secret
  <2>2. CASE Life!assign_backhaul_addr BY <2>2, Zenon DEF Life!assign_backhaul_addr
  <2>3. CASE Life!build_endpoint
    <3>1. CASE Life!Returns("endpoint", "bad options")
      BY <2>24, <3>1, Zenon
    <3>2. CASE Life!At("endpoint", "directory") /\ l2' = (lan /\ l2)
               /\ UNCHANGED <<Life!config, tasks>>
      BY <3>2, Zenon
    <3>3. QED BY <2>3, <3>1, <3>2, Zenon DEF Life!build_endpoint
  <2>4. CASE Life!restore_directory BY <2>4, Zenon DEF Life!restore_directory
  <2>5. CASE Life!start_responder
    <3>1. CASE Life!Returns("responder", "dns port taken")
      BY <2>24, <3>1, Zenon
    <3>2. CASE Life!At("responder", "dnsmasq") /\ tasks' = tasks \cup {"dns"}
               /\ UNCHANGED <<Life!config, l2>>
      BY <3>2, Zenon
    <3>3. QED BY <2>5, <3>1, <3>2, Zenon DEF Life!start_responder
  <2>6. CASE Life!reconcile_dnsmasq_uci BY <2>6, Zenon DEF Life!reconcile_dnsmasq_uci
  <2>7. CASE Life!load_roster
    <3>1. CASE Life!Returns("roster", "bad roster")
      BY <2>24, <3>1, Zenon
    <3>2. CASE Life!At("roster", "overlay") /\ UNCHANGED <<Life!config, l2, tasks>>
      BY <3>2, Zenon
    <3>3. QED BY <2>7, <3>1, <3>2, Zenon DEF Life!load_roster
  <2>8. CASE Life!spawn_overlay
    <3>1. CASE Life!Returns("overlay", "no tun")
      BY <2>24, <3>1, Zenon
    <3>2. CASE /\ Life!At("overlay", "lanes") /\ UNCHANGED <<Life!config, l2>>
               /\ tasks' = tasks \cup (IF overlay THEN {"writer", "fib", "reader"} ELSE {})
      BY <3>2, Zenon
    <3>3. QED BY <2>8, <3>1, <3>2, Zenon DEF Life!spawn_overlay
  <2>9. CASE Life!restore_lanes BY <2>9, Zenon DEF Life!restore_lanes
  <2>10. CASE Life!spawn_router BY <2>10, Zenon DEF Life!spawn_router
  <2>11. CASE Life!seed_lookup BY <2>11, Zenon DEF Life!seed_lookup
  <2>12. CASE Life!subscribe
    <3>1. CASE "no topic" \in trouble BY <2>12, <3>1, Zenon DEF Life!subscribe
    <3>2. CASE "no topic" \notin trouble
      <4>1. pc = "subscribe" /\ pc' = "control" /\ tasks' = tasks \cup Life!Gossiping
            /\ UNCHANGED <<Life!config, Life!net>>
        BY <2>12, <3>2, Zenon DEF Life!subscribe
      <4>2. \A t \in {"reader", "babel overlay", "dialers"} : t \in tasks' <=> t \in tasks
        BY <4>1, Zenon
      <4>3. QED BY <4>1, <4>2, Zenon
    <3>3. QED BY <3>1, <3>2, Zenon
  <2>13. CASE Life!control_api_start BY <2>13, Zenon DEF Life!control_api_start
  <2>14. CASE Life!spawn_babel BY <2>14, Zenon DEF Life!spawn_babel
  <2>15. CASE Life!spawn_dialers BY <2>15, Zenon DEF Life!spawn_dialers
  <2>16. CASE Life!CtrlC BY <2>16, <2>23, Zenon DEF Life!CtrlC
  <2>17. ASSUME NEW ln \in Life!Lane, Life!Save(ln) PROVE PlaneInv'
    BY <2>17, Zenon DEF Life!Save
  <2>18. CASE Life!DispatchEnds BY <2>18, Zenon DEF Life!DispatchEnds
  <2>19. CASE Life!Dies BY <2>19, <2>23, Zenon DEF Life!Dies
  <2>20. CASE Life!Respawn BY <2>20, Zenon DEF Life!Respawn, LifeInv
  <2>21. CASE UNCHANGED Life!vars BY <2>21, Zenon DEF Life!vars
  <2>22. QED
    BY <2>1, <2>2, <2>3, <2>4, <2>5, <2>6, <2>7, <2>8, <2>9, <2>10, <2>11, <2>12, <2>13,
       <2>14, <2>15, <2>16, <2>17, <2>18, <2>19, <2>20, <2>21, Zenon
       DEF Life!Next, Life!Start
<1>4. LifeTypes /\ [Life!Next]_Life!vars => LifeTypes'
  <2> SUFFICES ASSUME LifeTypes, [Life!Next]_Life!vars PROVE LifeTypes'
    BY Zenon
  <2>1. {pinned, hints, forward, stopped}' \subseteq BOOLEAN /\ trouble' = trouble
    BY Zenon DEF LifeTypes, Life!Next, Life!Start, Life!vars, Life!At, Life!Returns,
         Life!Exits, Life!config, Life!net, Life!outside, Life!load_or_create_secret, Life!assign_backhaul_addr,
         Life!build_endpoint, Life!restore_directory, Life!start_responder,
         Life!reconcile_dnsmasq_uci, Life!load_roster, Life!spawn_overlay, Life!restore_lanes,
         Life!spawn_router, Life!seed_lookup, Life!subscribe, Life!control_api_start,
         Life!spawn_babel, Life!spawn_dialers, Life!CtrlC, Life!Save, Life!DispatchEnds,
         Life!Dies, Life!Respawn
  <2>2. \/ tasks' \subseteq tasks
        \/ \E S \in SUBSET (Life!Gossiping \cup
             {"dns", "writer", "fib", "reader", "router", "control", "babel",
              "babel overlay", "probe", "dialers"}) : tasks' = tasks \cup S
    BY Zenon DEF Life!Next, Life!Start, Life!vars, Life!Returns, Life!Exits,
         Life!load_or_create_secret,
         Life!assign_backhaul_addr, Life!build_endpoint, Life!restore_directory,
         Life!start_responder, Life!reconcile_dnsmasq_uci, Life!load_roster, Life!spawn_overlay,
         Life!restore_lanes, Life!spawn_router, Life!seed_lookup, Life!subscribe,
         Life!control_api_start, Life!spawn_babel, Life!spawn_dialers, Life!CtrlC, Life!Save,
         Life!DispatchEnds, Life!Dies, Life!Respawn
  <2>3. faults' = faults \/ (faults < MaxFaults /\ faults' = faults + 1)
    <3>1. Life!Start => faults' = faults
      BY Zenon DEF Life!Start, Life!Returns, Life!load_or_create_secret, Life!assign_backhaul_addr,
           Life!build_endpoint, Life!restore_directory, Life!start_responder,
           Life!reconcile_dnsmasq_uci, Life!load_roster, Life!spawn_overlay, Life!restore_lanes,
           Life!spawn_router, Life!seed_lookup, Life!subscribe, Life!control_api_start,
           Life!spawn_babel, Life!spawn_dialers
    <3>2. QED BY <3>1, Zenon DEF Life!Next, Life!vars, Life!CtrlC, Life!Save, Life!DispatchEnds,
         Life!Dies, Life!Respawn
  <2>4. faults' \in 0..MaxFaults
    <3>1. faults \in 0..MaxFaults
      BY Zenon DEF LifeTypes
    <3>2. QED BY <2>3, <3>1
  <2>5. tasks' \subseteq Life!Gossiping \cup
       {"dns", "writer", "fib", "reader", "router", "control", "babel",
        "babel overlay", "probe", "dialers"}
    BY <2>2, Zenon DEF LifeTypes
  <2>6. QED BY <2>1, <2>4, <2>5, Zenon DEF LifeTypes
<1>5. LifeInv /\ PlaneInv /\ LifeTypes => Life!NothingForgotten /\ Life!OneDataPlane /\ Life!TypeOK
  BY Zenon DEF LifeInv, PlaneInv, LifeTypes, Life!NothingForgotten, Life!OneDataPlane,
       Life!TypeOK, Life!want_tunnels
<1>6. QED BY <1>1, <1>2, <1>3, <1>4, <1>5, PTL DEF Life!Spec

-----------------------------------------------------------------------------
(* The uplink.                                                             *)

CONSTANTS DEMOTE_AFTER, Urls, HasWget, Bypass
VARIABLES routes, internet, hyst, verdict, probing, failures

Uplinks == INSTANCE Egress

\* What the proof assumes of the constants.
EgressParams == DEMOTE_AFTER \in Nat \ {0} /\ Urls \in Nat /\ HasWget \in BOOLEAN

\* The inductive invariant: the published verdict is the probe task's, and its
\* count is the history's.
ProbeInv ==
  /\ hyst \in [healthy : BOOLEAN, consecutive_fail : 0..DEMOTE_AFTER]
  /\ verdict = hyst.healthy /\ failures = hyst.consecutive_fail
  /\ ~hyst.healthy => hyst.consecutive_fail = DEMOTE_AFTER /\ HasWget

\* What a round of fetches comes to: "yes" if and only if one page answered
\* cleanly, and "no" only with the tool installed.
LEMMA ProbeRight ==
  ASSUME EgressParams, NEW fetches \in [1..Urls -> Uplinks!Fetch]
  PROVE  /\ Uplinks!probe_internet(fetches) \in {"yes", "unknown", "no"}
         /\ Uplinks!probe_internet(fetches) = "yes" <=> "clean" \in Uplinks!Range(fetches)
         /\ Uplinks!probe_internet(fetches) = "no" => HasWget
<1> DEFINE ends == {i \in DOMAIN fetches : fetches[i] \in {"clean", "missing"}}
           least == CHOOSE i \in ends : \A j \in ends : i <= j
           last == IF ends = {} THEN Len(fetches) ELSE least
           tried == {fetches[i] : i \in 1..last}
<1>1. DOMAIN fetches = 1..Urls /\ Urls \in Nat /\ \A i \in 1..Urls : fetches[i] \in Uplinks!Fetch
  BY Zenon DEF EgressParams
<1>2. Len(fetches) = Urls
  BY <1>1
<1>3. Uplinks!probe_internet(fetches) =
        IF "clean" \in tried THEN "yes"
        ELSE IF "missing" \in tried \/ tried \subseteq {"spawn"} THEN "unknown" ELSE "no"
  BY Zenon DEF Uplinks!probe_internet
<1>4. ends # {} => least \in ends
  <2>1. ends \in SUBSET Nat
    BY <1>1
  <2>2. ends # {} => \E i \in ends : \A j \in ends : i <= j
    BY <2>1, Least, Zenon
  <2>3. QED BY <2>2, Zenon
<1>5. 1..last \subseteq 1..Urls
  <2>1. CASE ends = {}
    BY <1>2, <2>1, Zenon
  <2>2. CASE ends # {}
    <3>1. least \in 1..Urls
      BY <1>1, <1>4, <2>2, Zenon
    <3> HIDE DEF least, ends
    <3>2. last = least
      BY <2>2, Zenon
    <3> HIDE DEF last
    <3>3. QED BY <1>1, <3>1, <3>2
  <2>3. QED BY <2>1, <2>2, Zenon
<1>6. ends # {} => fetches[least] \in tried
  <2>1. ASSUME ends # {} PROVE least \in 1..last
    <3>1. least \in 1..Urls
      BY <1>1, <1>4, <2>1, Zenon
    <3> HIDE DEF least, ends
    <3>2. last = least
      BY <2>1, Zenon
    <3> HIDE DEF last
    <3>3. QED BY <1>1, <3>1, <3>2
  <2>2. QED BY <2>1, Zenon
<1>7. Uplinks!Range(fetches) = {fetches[i] : i \in 1..Urls}
  BY <1>1, Zenon DEF Uplinks!Range
<1>8. tried \subseteq Uplinks!Range(fetches) /\ tried \subseteq Uplinks!Fetch
  BY <1>1, <1>5, <1>7, Zenon
<1> HIDE DEF last, least
<1>9. "clean" \in Uplinks!Range(fetches) => "clean" \in tried
  <2> SUFFICES ASSUME "clean" \in Uplinks!Range(fetches) PROVE "clean" \in tried
    BY Zenon
  <2>1. PICK i \in 1..Urls : fetches[i] = "clean"
    BY <1>7, Zenon
  <2>2. i \in ends
    BY <1>1, <2>1, Zenon
  <2>3. "missing" \notin Uplinks!Fetch
    BY <1>1, <2>1, Zenon DEF Uplinks!Fetch
  <2>4. fetches[least] = "clean"
    BY <1>1, <1>4, <2>2, <2>3, Zenon
  <2>5. QED BY <1>6, <2>2, <2>4, Zenon
<1>10. ASSUME ~HasWget, tried # {} PROVE "missing" \in tried
  BY <1>8, <1>10, Zenon DEF Uplinks!Fetch
<1> HIDE DEF tried
<1>11. tried = {} => tried \subseteq {"spawn"}
  BY Zenon
<1>12. QED BY <1>3, <1>8, <1>9, <1>10, <1>11, Zenon DEF EgressParams

\* Every step keeps the invariant.
LEMMA ProbeStep ==
  ASSUME EgressParams, ProbeInv, [Uplinks!Next]_Uplinks!vars
  PROVE  ProbeInv'
<1>1. Uplinks!Fresh \in [healthy : BOOLEAN, consecutive_fail : 0..DEMOTE_AFTER]
      /\ Uplinks!Fresh.healthy = TRUE /\ Uplinks!Fresh.consecutive_fail = 0
  BY DEF Uplinks!Fresh, EgressParams
<1>2. CASE Uplinks!ProbeLook
  BY <1>1, <1>2, Zenon DEF Uplinks!ProbeLook, ProbeInv
<1>3. CASE Uplinks!ProbeVerdict
  <2>1. PICK fetches \in [1..Urls -> Uplinks!Fetch] :
          /\ hyst' = Uplinks!observe(hyst, Uplinks!probe_internet(fetches))
          /\ failures' = CASE "clean" \in Uplinks!Range(fetches) -> 0
                           [] Uplinks!probe_internet(fetches) = "no" /\ failures < DEMOTE_AFTER
                                -> failures + 1
                           [] OTHER -> failures
    BY <1>3, Zenon DEF Uplinks!ProbeVerdict
  <2>2. verdict' = hyst'.healthy
    BY <1>3, Zenon DEF Uplinks!ProbeVerdict
  <2> DEFINE outcome == Uplinks!probe_internet(fetches)
             clean == "clean" \in Uplinks!Range(fetches)
             fails == IF hyst.consecutive_fail < DEMOTE_AFTER
                        THEN hyst.consecutive_fail + 1 ELSE DEMOTE_AFTER
  <2>3. /\ outcome \in {"yes", "unknown", "no"} /\ (outcome = "yes" <=> clean)
        /\ outcome = "no" => HasWget
    BY ProbeRight, Zenon
  <2>4. /\ hyst.healthy \in BOOLEAN /\ hyst.consecutive_fail \in 0..DEMOTE_AFTER
        /\ hyst \in [healthy : BOOLEAN, consecutive_fail : 0..DEMOTE_AFTER]
        /\ failures = hyst.consecutive_fail /\ DEMOTE_AFTER \in Nat \ {0}
        /\ ~hyst.healthy => hyst.consecutive_fail = DEMOTE_AFTER /\ HasWget
    BY Zenon DEF ProbeInv, EgressParams
  <2>5. CASE outcome = "yes"
    <3>1. hyst' = Uplinks!Fresh
      BY <2>1, <2>5, Zenon DEF Uplinks!observe
    <3>2. failures' = 0
      <4>1. clean /\ ~(outcome = "no" /\ failures < DEMOTE_AFTER)
        BY <2>3, <2>5, Zenon
      <4>2. QED BY <2>1, <4>1, Zenon
    <3>3. QED BY <1>1, <2>2, <3>1, <3>2, Zenon DEF ProbeInv
  <2>6. CASE outcome = "unknown"
    <3>1. hyst' = hyst
      BY <2>1, <2>6, Zenon DEF Uplinks!observe
    <3>2. failures' = failures
      <4>1. ~clean /\ ~(outcome = "no" /\ failures < DEMOTE_AFTER)
        BY <2>3, <2>6, Zenon
      <4>2. QED BY <2>1, <4>1, Zenon
    <3>3. QED BY <2>2, <2>4, <3>1, <3>2, Zenon DEF ProbeInv
  <2>7. CASE outcome = "no"
    <3>1. hyst' = [healthy |-> hyst.healthy /\ fails < DEMOTE_AFTER, consecutive_fail |-> fails]
      BY <2>1, <2>7, Zenon DEF Uplinks!observe
    <3>2. fails \in 0..DEMOTE_AFTER /\ (~(fails < DEMOTE_AFTER) => fails = DEMOTE_AFTER)
      BY <2>4
    <3>3. hyst.consecutive_fail = DEMOTE_AFTER => fails = DEMOTE_AFTER
      BY <2>4
    <3>4. failures' = fails
      <4>1. ~clean
        BY <2>3, <2>7, Zenon
      <4>2. CASE failures < DEMOTE_AFTER
        BY <2>1, <2>4, <2>7, <4>1, <4>2, Zenon
      <4>3. CASE ~(failures < DEMOTE_AFTER)
        <5>1. failures' = failures
          BY <2>1, <4>1, <4>3, Zenon
        <5>2. QED BY <2>4, <4>3, <5>1
      <4>4. QED BY <4>2, <4>3, Zenon
    <3> HIDE DEF fails
    <3>5. /\ hyst'.healthy = (hyst.healthy /\ fails < DEMOTE_AFTER)
          /\ hyst'.consecutive_fail = fails
          /\ hyst' \in [healthy : BOOLEAN, consecutive_fail : 0..DEMOTE_AFTER]
      BY <3>1, <3>2, Zenon
    <3>6. ~hyst'.healthy => fails = DEMOTE_AFTER /\ HasWget
      BY <2>3, <2>4, <2>7, <3>2, <3>3, <3>5, Zenon
    <3>7. QED BY <2>2, <3>4, <3>5, <3>6, Zenon DEF ProbeInv
  <2>8. QED BY <2>3, <2>5, <2>6, <2>7, Zenon
<1>4. CASE Uplinks!Replug \/ Uplinks!Upstream \/ UNCHANGED Uplinks!vars
  BY <1>4, Zenon DEF Uplinks!Replug, Uplinks!Upstream, Uplinks!vars, ProbeInv
<1>5. QED BY <1>2, <1>3, <1>4, Zenon DEF Uplinks!Next

\* A gateway is taken off the air only by DEMOTE_AFTER probes in a row that ran
\* and failed: never by a missing tool, by fetches that did not start, or by
\* failures with a success between them; for any number of pages and any limit
\* (ProbeHysteresis::observe, probe_internet, gateway_probe_task).
THEOREM GatewayFailsOpen ==
  ASSUME EgressParams
  PROVE  Uplinks!Spec => []Uplinks!FailOpen
<1>1. Uplinks!Init => ProbeInv
  <2> SUFFICES ASSUME Uplinks!Init PROVE ProbeInv
    BY Zenon
  <2>1. Uplinks!Fresh \in [healthy : BOOLEAN, consecutive_fail : 0..DEMOTE_AFTER]
        /\ Uplinks!Fresh.healthy = TRUE /\ Uplinks!Fresh.consecutive_fail = 0
    BY DEF Uplinks!Fresh, EgressParams
  <2>2. QED BY <2>1, Zenon DEF Uplinks!Init, ProbeInv
<1>2. ProbeInv /\ [Uplinks!Next]_Uplinks!vars => ProbeInv'
  BY ProbeStep, Zenon
<1>3. ProbeInv => Uplinks!FailOpen
  <2>1. DEMOTE_AFTER >= DEMOTE_AFTER
    BY DEF EgressParams
  <2>2. QED BY <2>1, Zenon DEF ProbeInv, Uplinks!FailOpen
<1>4. QED BY <1>1, <1>2, <1>3, PTL DEF Uplinks!Spec

=============================================================================
