--------------------------- MODULE BrowserProofs ----------------------------
(***************************************************************************)
(* Proofs about what browsers are served: the rooms of the signalling      *)
(* server, for any number of peers and rooms, and the state of the mesh    *)
(* that hello shows them, for any number of requests and stores.           *)
(***************************************************************************)
EXTENDS BrowserParts, FiniteSetTheorems, TLAPS

-----------------------------------------------------------------------------
(* The rooms: s1 = rooms, s2 = peerRooms, s3 = topics, s4 = socket,        *)
(* s5 = queue, s6 = told, s7 = slipped, s8 = moves.                        *)

Message == [type : {"signal", "peer-joined", "peer-left"}, peer : Browser]
             \cup [type : {"room-joined"}, room : RoomId, peers : SUBSET Browser]
View == [room : RoomId \cup {Nil}, peers : SUBSET Browser]

\* What a message says of q, and what a reader makes of it.
Names(m, q) ==
  \/ m.type = "room-joined" /\ q \in m.peers
  \/ m.type = "peer-joined" /\ m.peer = q
About(m, q) ==
  \/ m.type = "room-joined"
  \/ m.type \in {"peer-joined", "peer-left"} /\ m.peer = q

\* A peer that was told v knows q when it has read the first n messages of w: the
\* last of them about q names it.
Knows(w, v, n, q) ==
  \/ \E i \in 1..n : Names(w[i], q) /\ \A j \in i + 1..n : ~About(w[j], q)
  \/ q \in v.peers /\ \A j \in 1..n : ~About(w[j], q)

\* Likewise for the room it is in.
Enters(w, v, n, r) ==
  \/ \E i \in 1..n : /\ w[i].type = "room-joined" /\ w[i].room = r
                     /\ \A j \in i + 1..n : w[j].type # "room-joined"
  \/ v.room = r /\ \A j \in 1..n : w[j].type # "room-joined"

RoomsTypes ==
  /\ s1 \in [RoomId -> (SUBSET Browser) \cup {Nil}]
  /\ s2 \in [Browser -> RoomId \cup {Nil}]
  /\ s3 \in [Browser -> SUBSET RoomId]
  /\ s4 \in [Browser -> {"new", "open", "closed"}]
  /\ s5 \in [Browser -> Seq(Message)]
  /\ s6 \in [Browser -> View]
  /\ s7 \subseteq Browser \X RoomId /\ s8 \in 0..MaxMoves

\* A peer is subscribed to its room, and only while its socket is open.
Subscribed(p) ==
  /\ \A r \in RoomId : r \in s3[p] <=> s2[p] = r
  /\ s2[p] # Nil => s4[p] = "open"
  /\ \A r \in RoomId : <<p, r>> \in s7 => s2[p] # r

\* Having read all that is on its way, a peer knows its room and room-mates.
UpToDate(p) ==
  s2[p] # Nil =>
    /\ Enters(s5[p], s6[p], Len(s5[p]), s2[p])
    /\ \A q \in Browser : <<q, s2[p]>> \notin s7 =>
         (Knows(s5[p], s6[p], Len(s5[p]), q) <=> q # p /\ s2[q] = s2[p])

\* A signal comes after what makes its sender known.
SignalsKnown(p) ==
  \A i \in DOMAIN s5[p] :
    s5[p][i].type = "signal" => Knows(s5[p], s6[p], i - 1, s5[p][i].peer)

RoomsInv ==
  /\ RoomsTypes /\ Meeting!RoomsAgree
  /\ \A p \in Browser : Subscribed(p) /\ UpToDate(p) /\ SignalsKnown(p)

\* Knowing is about what was read.
LEMMA KnowsSame ==
  ASSUME NEW n \in Nat, NEW w, NEW u, \A i \in 1..n : u[i] = w[i], NEW v, NEW q
  PROVE  Knows(u, v, n, q) <=> Knows(w, v, n, q)
<1>1. \A i \in 1..n : \A j \in i + 1..n : u[j] = w[j]
  OBVIOUS
<1>2. QED BY <1>1, Zenon DEF Knows

LEMMA EntersSame ==
  ASSUME NEW n \in Nat, NEW w, NEW u, \A i \in 1..n : u[i] = w[i], NEW v, NEW r
  PROVE  Enters(u, v, n, r) <=> Enters(w, v, n, r)
<1>1. \A i \in 1..n : \A j \in i + 1..n : u[j] = w[j]
  OBVIOUS
<1>2. QED BY <1>1, Zenon DEF Enters

\* Another message read.
LEMMA KnowsNext ==
  ASSUME NEW n \in Nat, NEW w, NEW v, NEW q
  PROVE  Knows(w, v, n + 1, q) <=>
           Names(w[n + 1], q) \/ (Knows(w, v, n, q) /\ ~About(w[n + 1], q))
<1>1. /\ 1..n + 1 = 1..n \cup {n + 1} /\ n + 1 \in 1..n + 1 /\ n + 1 + 1..n + 1 = {}
      /\ \A i \in 1..n : i + 1..n + 1 = (i + 1..n) \cup {n + 1}
  OBVIOUS
<1>2. ASSUME Knows(w, v, n + 1, q)
      PROVE  Names(w[n + 1], q) \/ (Knows(w, v, n, q) /\ ~About(w[n + 1], q))
  <2>1. ASSUME NEW i \in 1..n + 1, Names(w[i], q), \A j \in i + 1..n + 1 : ~About(w[j], q)
        PROVE  Names(w[n + 1], q) \/ (Knows(w, v, n, q) /\ ~About(w[n + 1], q))
    BY <1>1, <2>1, Zenon DEF Knows
  <2>2. ASSUME q \in v.peers, \A j \in 1..n + 1 : ~About(w[j], q)
        PROVE  Knows(w, v, n, q) /\ ~About(w[n + 1], q)
    BY <1>1, <2>2, Zenon DEF Knows
  <2>3. QED BY <1>2, <2>1, <2>2, Zenon DEF Knows
<1>3. ASSUME Names(w[n + 1], q)
      PROVE  Knows(w, v, n + 1, q)
  BY <1>1, <1>3, Zenon DEF Knows
<1>4. ASSUME Knows(w, v, n, q), ~About(w[n + 1], q)
      PROVE  Knows(w, v, n + 1, q)
  <2>1. ASSUME NEW i \in 1..n, Names(w[i], q), \A j \in i + 1..n : ~About(w[j], q)
        PROVE  Knows(w, v, n + 1, q)
    BY <1>1, <1>4, <2>1, Zenon DEF Knows
  <2>2. ASSUME q \in v.peers, \A j \in 1..n : ~About(w[j], q)
        PROVE  Knows(w, v, n + 1, q)
    BY <1>1, <1>4, <2>2, Zenon DEF Knows
  <2>3. QED BY <1>4, <2>1, <2>2, Zenon DEF Knows
<1>5. QED BY <1>2, <1>3, <1>4, Zenon

LEMMA EntersNext ==
  ASSUME NEW n \in Nat, NEW w, NEW v, NEW r
  PROVE  /\ w[n + 1].type = "room-joined" /\ w[n + 1].room = r => Enters(w, v, n + 1, r)
         /\ w[n + 1].type # "room-joined" /\ Enters(w, v, n, r) => Enters(w, v, n + 1, r)
<1>1. /\ 1..n + 1 = 1..n \cup {n + 1} /\ n + 1 \in 1..n + 1 /\ n + 1 + 1..n + 1 = {}
      /\ \A i \in 1..n : i + 1..n + 1 = (i + 1..n) \cup {n + 1}
  OBVIOUS
<1>2. ASSUME w[n + 1].type = "room-joined", w[n + 1].room = r
      PROVE  Enters(w, v, n + 1, r)
  BY <1>1, <1>2, Zenon DEF Enters
<1>3. ASSUME w[n + 1].type # "room-joined", Enters(w, v, n, r)
      PROVE  Enters(w, v, n + 1, r)
  <2>1. ASSUME NEW i \in 1..n, w[i].type = "room-joined", w[i].room = r,
               \A j \in i + 1..n : w[j].type # "room-joined"
        PROVE  Enters(w, v, n + 1, r)
    BY <1>1, <1>3, <2>1, Zenon DEF Enters
  <2>2. ASSUME v.room = r, \A j \in 1..n : w[j].type # "room-joined"
        PROVE  Enters(w, v, n + 1, r)
    BY <1>1, <1>3, <2>2, Zenon DEF Enters
  <2>3. QED BY <1>3, <2>1, <2>2, Zenon DEF Enters
<1>4. QED BY <1>2, <1>3, Zenon

\* What was the first message is now part of what the reader was told.
LEMMA KnowsRest ==
  ASSUME NEW n \in Nat, NEW w, NEW u, \A i \in 1..n : u[i] = w[i + 1], NEW v, NEW x, NEW q,
         q \in x.peers <=> Names(w[1], q) \/ (q \in v.peers /\ ~About(w[1], q))
  PROVE  Knows(w, v, n + 1, q) <=> Knows(u, x, n, q)
<1>1. /\ \A i \in 1..n : i + 1 \in 1..n + 1 /\ i + 1 # 1
      /\ \A i \in 1..n + 1 : i # 1 => i - 1 \in 1..n /\ w[i] = u[i - 1]
      /\ 1 \in 1..n + 1 /\ 1 + 1 \in Nat
      /\ \A j \in 1..n : j + 1 \in 1 + 1..n + 1
  OBVIOUS
<1>2. \A i \in 1..n + 1 : i # 1 => \A j \in i - 1 + 1..n : j \in 1..n /\ j + 1 \in i + 1..n + 1
  OBVIOUS
<1>3. ASSUME NEW i \in 1..n + 1, Names(w[i], q), \A j \in i + 1..n + 1 : ~About(w[j], q)
      PROVE  Knows(u, x, n, q)
  <2>1. CASE i = 1
    <3>1. q \in x.peers
      BY <1>3, <2>1, Zenon
    <3>2. \A j \in 1..n : ~About(u[j], q)
      BY <1>1, <1>3, <2>1, Zenon
    <3>3. QED BY <3>1, <3>2, Zenon DEF Knows
  <2>2. CASE i # 1
    <3>1. i - 1 \in 1..n /\ Names(u[i - 1], q)
      BY <1>1, <1>3, <2>2, Zenon
    <3>2. \A j \in i - 1 + 1..n : ~About(u[j], q)
      BY <1>2, <1>3, <2>2, Zenon
    <3>3. QED BY <3>1, <3>2, Zenon DEF Knows
  <2>3. QED BY <2>1, <2>2, Zenon
<1>4. ASSUME q \in v.peers, \A j \in 1..n + 1 : ~About(w[j], q)
      PROVE  Knows(u, x, n, q)
  <2>1. q \in x.peers
    BY <1>1, <1>4, Zenon
  <2>2. \A j \in 1..n : ~About(u[j], q)
    BY <1>1, <1>4, Zenon
  <2>3. QED BY <2>1, <2>2, Zenon DEF Knows
<1>5. ASSUME NEW i \in 1..n, Names(u[i], q), \A j \in i + 1..n : ~About(u[j], q)
      PROVE  Knows(w, v, n + 1, q)
  <2>1. i + 1 \in 1..n + 1 /\ Names(w[i + 1], q)
    BY <1>1, <1>5, Zenon
  <2>2. ASSUME NEW j \in i + 1 + 1..n + 1
        PROVE  ~About(w[j], q)
    <3>1. j - 1 \in i + 1..n /\ j \in 1..n + 1 /\ j # 1
      BY <1>5, <2>2
    <3>2. QED BY <1>1, <1>5, <3>1, Zenon
  <2>3. QED BY <2>1, <2>2, Zenon DEF Knows
<1>6. ASSUME q \in x.peers, \A j \in 1..n : ~About(u[j], q)
      PROVE  Knows(w, v, n + 1, q)
  <2>1. ASSUME NEW j \in 1..n + 1, j # 1
        PROVE  ~About(w[j], q)
    BY <1>1, <1>6, <2>1, Zenon
  <2>2. \A j \in 1 + 1..n + 1 : j \in 1..n + 1 /\ j # 1
    OBVIOUS
  <2>3. CASE Names(w[1], q)
    BY <1>1, <2>1, <2>2, <2>3, Zenon DEF Knows
  <2>4. CASE q \in v.peers /\ ~About(w[1], q)
    BY <2>1, <2>4, Zenon DEF Knows
  <2>5. QED BY <1>6, <2>3, <2>4, Zenon
<1>7. QED BY <1>3, <1>4, <1>5, <1>6, Zenon DEF Knows

LEMMA EntersRest ==
  ASSUME NEW n \in Nat, NEW w, NEW u, \A i \in 1..n : u[i] = w[i + 1], NEW v, NEW x, NEW r,
         w[1].type = "room-joined" => x.room = w[1].room,
         w[1].type # "room-joined" => x.room = v.room,
         Enters(w, v, n + 1, r)
  PROVE  Enters(u, x, n, r)
<1>1. /\ \A i \in 1..n + 1 : i # 1 => i - 1 \in 1..n /\ w[i] = u[i - 1]
      /\ \A j \in 1..n : j + 1 \in 1 + 1..n + 1 /\ j + 1 \in 1..n + 1 /\ 1 \in 1..n + 1
      /\ 1 \in 1..n + 1
  OBVIOUS
<1>2. \A i \in 1..n + 1 : i # 1 => \A j \in i - 1 + 1..n : j \in 1..n /\ j + 1 \in i + 1..n + 1
  OBVIOUS
<1>3. ASSUME NEW i \in 1..n + 1, w[i].type = "room-joined", w[i].room = r,
             \A j \in i + 1..n + 1 : w[j].type # "room-joined"
      PROVE  Enters(u, x, n, r)
  <2>1. CASE i = 1
    <3>1. x.room = r
      BY <1>3, <2>1, Zenon
    <3>2. \A j \in 1..n : u[j].type # "room-joined"
      BY <1>1, <1>3, <2>1, Zenon
    <3>3. QED BY <3>1, <3>2, Zenon DEF Enters
  <2>2. CASE i # 1
    <3>1. i - 1 \in 1..n /\ u[i - 1].type = "room-joined" /\ u[i - 1].room = r
      BY <1>1, <1>3, <2>2, Zenon
    <3>2. \A j \in i - 1 + 1..n : u[j].type # "room-joined"
      BY <1>2, <1>3, <2>2, Zenon
    <3>3. QED BY <3>1, <3>2, Zenon DEF Enters
  <2>3. QED BY <2>1, <2>2, Zenon
<1>4. ASSUME v.room = r, \A j \in 1..n + 1 : w[j].type # "room-joined"
      PROVE  Enters(u, x, n, r)
  <2>1. x.room = r
    BY <1>1, <1>4, Zenon
  <2>2. \A j \in 1..n : u[j].type # "room-joined"
    BY <1>1, <1>4, Zenon
  <2>3. QED BY <2>1, <2>2, Zenon DEF Enters
<1>5. QED BY <1>3, <1>4, Zenon DEF Enters

\* A message sent is the last to be read.
LEMMA Longer ==
  ASSUME NEW w \in Seq(Message), NEW m \in Message, NEW u, u = Append(w, m)
  PROVE  /\ u \in Seq(Message) /\ Len(u) = Len(w) + 1 /\ u[Len(w) + 1] = m
         /\ \A i \in DOMAIN u : i = Len(w) + 1 \/ (i \in DOMAIN w /\ u[i] = w[i])
<1>1. /\ u \in Seq(Message) /\ Len(u) = Len(w) + 1 /\ u[Len(w) + 1] = m /\ Len(w) \in Nat
      /\ DOMAIN w = 1..Len(w) /\ DOMAIN u = 1..Len(u)
      /\ \A i \in 1..Len(w) : u[i] = w[i]
  OBVIOUS
<1>2. QED BY <1>1

LEMMA Sent ==
  ASSUME NEW w \in Seq(Message), NEW m \in Message, NEW u, u = Append(w, m), NEW v
  PROVE  /\ \A q : Knows(u, v, Len(u), q) <=>
                     Names(m, q) \/ (Knows(w, v, Len(w), q) /\ ~About(m, q))
         /\ \A i \in DOMAIN u : \A q : Knows(u, v, i - 1, q) <=> Knows(w, v, i - 1, q)
         /\ \A r : m.type = "room-joined" /\ m.room = r => Enters(u, v, Len(u), r)
         /\ \A r : m.type # "room-joined" /\ Enters(w, v, Len(w), r) => Enters(u, v, Len(u), r)
<1>1. /\ u \in Seq(Message) /\ Len(u) = Len(w) + 1 /\ u[Len(w) + 1] = m /\ Len(w) \in Nat
      /\ DOMAIN w = 1..Len(w) /\ DOMAIN u = 1..Len(u)
      /\ \A i \in 1..Len(w) : u[i] = w[i]
  OBVIOUS
<1>2. PICK n \in Nat : n = Len(w)
  BY <1>1, Zenon
<1>3. /\ Len(u) = n + 1 /\ u[n + 1] = m /\ \A i \in 1..n : u[i] = w[i]
  BY <1>1, <1>2, Zenon
<1>4. ASSUME NEW q
      PROVE  Knows(u, v, n + 1, q) <=> Names(m, q) \/ (Knows(w, v, n, q) /\ ~About(m, q))
  <2>1. Knows(u, v, n, q) <=> Knows(w, v, n, q)
    BY <1>3, KnowsSame, Zenon
  <2>2. Knows(u, v, n + 1, q) <=>
          Names(u[n + 1], q) \/ (Knows(u, v, n, q) /\ ~About(u[n + 1], q))
    BY KnowsNext, Zenon
  <2>3. QED BY <1>3, <2>1, <2>2, Zenon
<1>5. ASSUME NEW i \in DOMAIN u, NEW q
      PROVE  Knows(u, v, i - 1, q) <=> Knows(w, v, i - 1, q)
  <2>1. i - 1 \in Nat /\ \A j \in 1..(i - 1) : u[j] = w[j]
    BY <1>1
  <2>2. QED BY <2>1, KnowsSame, Zenon
<1>6. ASSUME NEW r
      PROVE  /\ m.type = "room-joined" /\ m.room = r => Enters(u, v, n + 1, r)
             /\ m.type # "room-joined" /\ Enters(w, v, n, r) => Enters(u, v, n + 1, r)
  <2>1. Enters(u, v, n, r) <=> Enters(w, v, n, r)
    BY <1>3, EntersSame, Zenon
  <2>2. /\ u[n + 1].type = "room-joined" /\ u[n + 1].room = r => Enters(u, v, n + 1, r)
        /\ u[n + 1].type # "room-joined" /\ Enters(u, v, n, r) => Enters(u, v, n + 1, r)
    BY EntersNext, Zenon
  <2>3. QED BY <1>3, <2>1, <2>2, Zenon
<1>7. QED BY <1>2, <1>3, <1>4, <1>5, <1>6, Zenon

\* The four messages.
LEMMA Says ==
  ASSUME NEW p \in Browser
  PROVE  /\ Meeting!Left(p) \in Message /\ Meeting!Left(p).type = "peer-left"
         /\ \A q : ~Names(Meeting!Left(p), q) /\ (About(Meeting!Left(p), q) <=> q = p)
         /\ Meeting!Joined(p) \in Message /\ Meeting!Joined(p).type = "peer-joined"
         /\ \A q : /\ Names(Meeting!Joined(p), q) <=> q = p
                   /\ About(Meeting!Joined(p), q) <=> q = p
<1>1. /\ Meeting!Left(p) \in Message /\ Meeting!Left(p).type = "peer-left"
      /\ Meeting!Left(p).peer = p
  BY Zenon DEF Meeting!Left, Message
<1>2. /\ Meeting!Joined(p) \in Message /\ Meeting!Joined(p).type = "peer-joined"
      /\ Meeting!Joined(p).peer = p
  BY Zenon DEF Meeting!Joined, Message
<1>3. QED BY <1>1, <1>2, Zenon DEF Names, About

\* The size of a set is the same in every module.
LEMMA SameSize == \A S : Meeting!Cardinality(S) = Cardinality(S)
BY Zenon DEF Meeting!Cardinality, Cardinality

\* The rooms once p has gone from its own.
LEMMA WithoutOf ==
  ASSUME RoomsTypes, Meeting!RoomsAgree, NEW p \in Browser, NEW a, a = Meeting!Without(s1, p)
  PROVE  /\ a \in [RoomId -> (SUBSET Browser) \cup {Nil}]
         /\ \A r \in RoomId : /\ Meeting!Members(a, r) = {q \in Browser : q # p /\ s2[q] = r}
                              /\ a[r] # {}
                              /\ Cardinality(Meeting!Members(a, r)) <= maxPeers[r]
<1>1. a = [r \in RoomId |-> IF Meeting!Members(s1, r) \ {p} = {} THEN Nil ELSE s1[r] \ {p}]
  BY Zenon DEF Meeting!Without
<1>2. ASSUME NEW r \in RoomId
      PROVE  /\ a[r] \in (SUBSET Browser) \cup {Nil} /\ a[r] # {}
             /\ Meeting!Members(a, r) = {q \in Browser : q # p /\ s2[q] = r}
             /\ Cardinality(Meeting!Members(a, r)) <= maxPeers[r]
  <2> DEFINE M == Meeting!Members(s1, r)
  <2>1. /\ M = {q \in Browser : s2[q] = r} /\ Cardinality(M) <= maxPeers[r]
    BY <1>2, SameSize, Zenon DEF Meeting!RoomsAgree
  <2>2. Meeting!Members(a, r) = M \ {p} /\ a[r] \in (SUBSET Browser) \cup {Nil} /\ a[r] # {}
    <3>1. CASE M \ {p} = {}
      <4>1. a[r] = Nil
        BY <1>1, <1>2, <3>1, Zenon
      <4>2. {} # Nil
        BY RoomsAssumption, Zenon
      <4>3. QED BY <3>1, <4>1, <4>2, Zenon DEF Meeting!Members
    <3>2. CASE M \ {p} # {}
      <4>1. a[r] = s1[r] \ {p} /\ s1[r] = M
        BY <1>1, <1>2, <3>2, Zenon DEF Meeting!Members
      <4>2. M \ {p} \in SUBSET Browser
        BY <2>1, Zenon
      <4>3. M \ {p} # Nil
        BY <4>2, RoomsAssumption, Zenon
      <4>4. QED BY <3>2, <4>1, <4>2, <4>3, Zenon DEF Meeting!Members
    <3>3. QED BY <3>1, <3>2, Zenon
  <2> HIDE DEF M
  <2>3. IsFiniteSet(M) /\ M \ {p} \subseteq M
    <3>1. M \subseteq Browser
      BY <2>1, Zenon
    <3>2. QED BY <3>1, RoomsAssumption, FS_Subset, Zenon
  <2>4. Cardinality(M \ {p}) <= Cardinality(M) /\ Cardinality(M) \in Nat
        /\ Cardinality(M \ {p}) \in Nat
    BY <2>3, FS_Subset, FS_CardinalityType, Zenon
  <2>5. maxPeers[r] \in Nat
    BY RoomsAssumption, Zenon
  <2>6. M \ {p} = {q \in Browser : q # p /\ s2[q] = r}
    BY <2>1, Zenon
  <2>7. Cardinality(Meeting!Members(a, r)) <= maxPeers[r]
    BY <2>1, <2>2, <2>4, <2>5
  <2>8. QED BY <2>2, <2>6, <2>7, Zenon
<1>3. QED BY <1>1, <1>2, Zenon

\* p has gone: the rooms agree.
LEMMA GoneAgrees ==
  ASSUME RoomsTypes, Meeting!RoomsAgree, NEW p \in Browser, s1' = Meeting!Without(s1, p),
         s2' = [s2 EXCEPT ![p] = Nil]
  PROVE  s1' \in [RoomId -> (SUBSET Browser) \cup {Nil}] /\ Meeting!RoomsAgree'
<1>1. /\ s1' \in [RoomId -> (SUBSET Browser) \cup {Nil}]
      /\ \A r \in RoomId : /\ Meeting!Members(s1', r) = {q \in Browser : q # p /\ s2[q] = r}
                           /\ s1'[r] # {}
                           /\ Cardinality(Meeting!Members(s1', r)) <= maxPeers[r]
  BY WithoutOf, Zenon
<1>2. ASSUME NEW r \in RoomId
      PROVE  {q \in Browser : q # p /\ s2[q] = r} = {q \in Browser : s2'[q] = r}
  <2>1. s2'[p] # r /\ \A q \in Browser : q # p => s2'[q] = s2[q]
    BY <1>2, RoomsAssumption, Zenon DEF RoomsTypes
  <2>2. \A q \in Browser : (q # p /\ s2[q] = r) <=> s2'[q] = r
    BY <2>1, Zenon
  <2>3. QED BY <2>2, Zenon
<1>3. ASSUME NEW r \in RoomId
      PROVE  /\ Meeting!Members(s1', r) = {q \in Browser : s2'[q] = r}
             /\ s1'[r] # {}
             /\ Meeting!Cardinality(Meeting!Members(s1', r)) <= maxPeers[r]
  <2>1. {q \in Browser : q # p /\ s2[q] = r} = {q \in Browser : s2'[q] = r}
    BY <1>2, <1>3, Zenon
  <2>2. QED BY <1>1, <1>3, <2>1, SameSize, Zenon
<1>4. Meeting!RoomsAgree'
  BY <1>3, Zenon DEF Meeting!RoomsAgree
<1>5. QED BY <1>1, <1>4, Zenon

\* The subscriptions follow the rooms.
LEMMA TopicsOf ==
  ASSUME RoomsTypes, NEW p \in Browser, Subscribed(p), NEW x \in RoomId \cup {Nil}
  PROVE  /\ Meeting!Topics(p, x) \subseteq RoomId
         /\ \A r \in RoomId : r \in Meeting!Topics(p, x) <=> x = r
<1>1. s3[p] \subseteq RoomId /\ s2[p] \in RoomId \cup {Nil} /\ Nil \notin RoomId
      /\ \A r \in RoomId : r \in s3[p] <=> s2[p] = r
  BY RoomsAssumption, Zenon DEF RoomsTypes, Subscribed
<1>2. CASE x = s2[p]
  BY <1>1, <1>2, Zenon DEF Meeting!Topics
<1>3. CASE x # s2[p] /\ x = Nil
  BY <1>1, <1>3, Zenon DEF Meeting!Topics
<1>4. CASE x # s2[p] /\ x # Nil
  BY <1>1, <1>4, Zenon DEF Meeting!Topics
<1>5. QED BY <1>2, <1>3, <1>4, Zenon

\* A message to a room goes to those that are in it.
LEMMA PublishedOf ==
  ASSUME RoomsTypes, NEW p \in Browser, NEW q \in Browser, Subscribed(q), NEW t,
         q # p => t[q] = s3[q], NEW r \in RoomId \cup {Nil}, NEW m
  PROVE  /\ q # p /\ r # Nil /\ s2[q] = r => Meeting!publish(p, r, t, m)[q] = <<m>>
         /\ ~(q # p /\ r # Nil /\ s2[q] = r) => Meeting!publish(p, r, t, m)[q] = <<>>
<1>1. Meeting!publish(p, r, t, m)[q] =
        IF q # p /\ r \in t[q] /\ s4[q] = "open" THEN <<m>> ELSE <<>>
  BY Zenon DEF Meeting!publish
<1>2. q # p => (r \in t[q] <=> r # Nil /\ s2[q] = r)
  BY RoomsAssumption, Zenon DEF RoomsTypes, Subscribed
<1>3. r # Nil /\ s2[q] = r => s4[q] = "open"
  BY Zenon DEF Subscribed
<1>4. QED BY <1>1, <1>2, <1>3, Zenon

LEMMA Onto ==
  ASSUME NEW w \in Seq(Message)
  PROVE  w \o <<>> = w /\ \A m \in Message : w \o <<m>> = Append(w, m)
OBVIOUS

\* The others, when p moves: each hears of it, or has nothing to hear.
LEMMA OthersHear ==
  ASSUME RoomsInv, NEW p \in Browser, NEW q \in Browser, p # q,
         s6'[q] = s6[q], \A x \in Browser : x # p => s2'[x] = s2[x],
         s2[q] # Nil => \A x \in Browser : x # p /\ <<x, s2[q]>> \in s7 => <<x, s2[q]>> \in s7',
         \/ /\ s5'[q] = s5[q]
            /\ s2[q] # Nil =>
                 \/ <<p, s2[q]>> \in s7'
                 \/ /\ s2[p] # s2[q] /\ s2'[p] # s2[q]
                    /\ <<p, s2[q]>> \in s7 => <<p, s2[q]>> \in s7'
         \/ s5'[q] = Append(s5[q], Meeting!Left(p)) /\ s2'[p] # s2[q]
         \/ s5'[q] = Append(s5[q], Meeting!Joined(p)) /\ s2'[p] = s2[q]
  PROVE  s5'[q] \in Seq(Message) /\ UpToDate(q)' /\ SignalsKnown(q)'
<1>1. /\ s5[q] \in Seq(Message) /\ UpToDate(q) /\ SignalsKnown(q) /\ s2'[q] = s2[q]
  BY Zenon DEF RoomsInv, RoomsTypes
<1>2. PICK w \in Seq(Message) : w = s5[q]
  BY <1>1, Zenon
<1>3. PICK v : v = s6[q]
  BY Zenon
<1>4. s2[q] # Nil => /\ Enters(w, v, Len(w), s2[q])
                     /\ \A x \in Browser : <<x, s2[q]>> \notin s7 =>
                          (Knows(w, v, Len(w), x) <=> x # q /\ s2[x] = s2[q])
  BY <1>1, <1>2, <1>3, Zenon DEF UpToDate
<1>5. CASE /\ s5'[q] = s5[q]
           /\ s2[q] # Nil =>
                \/ <<p, s2[q]>> \in s7'
                \/ /\ s2[p] # s2[q] /\ s2'[p] # s2[q]
                   /\ <<p, s2[q]>> \in s7 => <<p, s2[q]>> \in s7'
  <2>1. ASSUME s2[q] # Nil, NEW x \in Browser, <<x, s2[q]>> \notin s7'
        PROVE  Knows(w, v, Len(w), x) <=> x # q /\ s2'[x] = s2[q]
    BY <1>4, <1>5, <2>1, Zenon
  <2>2. UpToDate(q)'
    BY <1>1, <1>2, <1>3, <1>4, <1>5, <2>1, Zenon DEF UpToDate
  <2>3. SignalsKnown(q)'
    BY <1>1, <1>5, Zenon DEF SignalsKnown
  <2>4. QED BY <1>1, <1>5, <2>2, <2>3, Zenon
<1>6. ASSUME NEW m \in Message, s5'[q] = Append(s5[q], m), m.type # "signal",
             m.type # "room-joined",
             \A x : About(m, x) <=> x = p,
             s2[q] # Nil => (Names(m, p) <=> s2'[p] = s2[q]),
             \A x : Names(m, x) => x = p
      PROVE  s5'[q] \in Seq(Message) /\ UpToDate(q)' /\ SignalsKnown(q)'
  <2>1. PICK u : u = Append(w, m)
    BY Zenon
  <2>2. /\ u \in Seq(Message) /\ Len(u) = Len(w) + 1 /\ u[Len(w) + 1] = m
        /\ \A i \in DOMAIN u : i = Len(w) + 1 \/ (i \in DOMAIN w /\ u[i] = w[i])
        /\ \A x : Knows(u, v, Len(u), x) <=>
                    Names(m, x) \/ (Knows(w, v, Len(w), x) /\ ~About(m, x))
    <3>1. u \in Seq(Message) /\ Len(u) = Len(w) + 1
      BY <2>1, Longer, Zenon
    <3>2. u[Len(w) + 1] = m
      BY <2>1, Longer, Zenon
    <3>3. \A i \in DOMAIN u : i = Len(w) + 1 \/ (i \in DOMAIN w /\ u[i] = w[i])
      BY <2>1, Longer
    <3>4. \A x : Knows(u, v, Len(u), x) <=>
                   Names(m, x) \/ (Knows(w, v, Len(w), x) /\ ~About(m, x))
      BY <2>1, Sent, Zenon
    <3>5. QED BY <3>1, <3>2, <3>3, <3>4, Zenon
  <2>3. /\ \A i \in DOMAIN u : \A x : Knows(u, v, i - 1, x) <=> Knows(w, v, i - 1, x)
        /\ \A r : m.type # "room-joined" /\ Enters(w, v, Len(w), r) => Enters(u, v, Len(u), r)
    BY <1>6, <2>1, Sent, Zenon
  <2>4. s5'[q] = u
    BY <1>2, <1>6, <2>1, Zenon
  <2>5. ASSUME s2[q] # Nil, NEW x \in Browser, <<x, s2[q]>> \notin s7'
        PROVE  Knows(u, v, Len(u), x) <=> x # q /\ s2'[x] = s2[q]
    <3>1. CASE x = p
      BY <1>6, <2>2, <2>5, <3>1, Zenon
    <3>2. CASE x # p
      <4>1. Knows(u, v, Len(u), x) <=> Knows(w, v, Len(w), x)
        BY <1>6, <2>2, <3>2, Zenon
      <4>2. <<x, s2[q]>> \notin s7 /\ s2'[x] = s2[x]
        BY <2>5, <3>2, Zenon
      <4>3. QED BY <1>4, <2>5, <4>1, <4>2, Zenon
    <3>3. QED BY <3>1, <3>2, Zenon
  <2>6. s2[q] # Nil => Enters(u, v, Len(u), s2[q])
    BY <1>4, <1>6, <2>3, Zenon
  <2>7. UpToDate(q)'
    BY <1>1, <1>3, <2>4, <2>5, <2>6, Zenon DEF UpToDate
  <2>8. ASSUME NEW i \in DOMAIN u, u[i].type = "signal"
        PROVE  Knows(u, v, i - 1, u[i].peer)
    <3>1. i \in DOMAIN w /\ u[i] = w[i]
      BY <1>6, <2>2, <2>8, Zenon
    <3>2. Knows(w, v, i - 1, w[i].peer)
      BY <1>1, <1>2, <1>3, <2>8, <3>1, Zenon DEF SignalsKnown
    <3>3. QED BY <2>3, <3>1, <3>2, Zenon
  <2>9. SignalsKnown(q)'
    BY <1>3, <2>4, <2>8, Zenon DEF SignalsKnown
  <2>10. QED BY <2>2, <2>4, <2>7, <2>9, Zenon
<1>7. CASE s5'[q] = Append(s5[q], Meeting!Left(p)) /\ s2'[p] # s2[q]
  <2>1. PICK m : m = Meeting!Left(p)
    BY Zenon
  <2>2. /\ m \in Message /\ m.type = "peer-left"
        /\ \A x : ~Names(m, x) /\ (About(m, x) <=> x = p)
    BY <2>1, Says, Zenon
  <2>3. m.type # "signal" /\ m.type # "room-joined"
    BY <2>2, Zenon
  <2>4. QED BY <1>6, <1>7, <2>1, <2>2, <2>3, Zenon
<1>8. CASE s5'[q] = Append(s5[q], Meeting!Joined(p)) /\ s2'[p] = s2[q]
  <2>1. PICK m : m = Meeting!Joined(p)
    BY Zenon
  <2>2. /\ m \in Message /\ m.type = "peer-joined"
        /\ \A x : (Names(m, x) <=> x = p) /\ (About(m, x) <=> x = p)
    BY <2>1, Says, Zenon
  <2>3. m.type # "signal" /\ m.type # "room-joined"
    BY <2>2, Zenon
  <2>4. QED BY <1>6, <1>8, <2>1, <2>2, <2>3, Zenon
<1>9. QED BY <1>5, <1>7, <1>8, Zenon

LEMMA RoomsInit == Meeting!Init => RoomsInv
<1> SUFFICES ASSUME Meeting!Init PROVE RoomsInv
  BY Zenon
<1>1. RoomsTypes
  <2>1. [room |-> Nil, peers |-> {}] \in View
    BY Zenon DEF View
  <2>2. <<>> \in Seq(Message)
    OBVIOUS
  <2>3. QED BY <2>1, <2>2, RoomsAssumption DEF Meeting!Init, RoomsTypes
<1>2. Meeting!RoomsAgree
  <2> SUFFICES ASSUME NEW r \in RoomId
               PROVE  /\ Meeting!Members(s1, r) = {p \in Browser : s2[p] = r}
                      /\ s1[r] # {}
                      /\ Meeting!Cardinality(Meeting!Members(s1, r)) <= maxPeers[r]
    BY Zenon DEF Meeting!RoomsAgree
  <2>1. s1[r] = Nil /\ (\A p \in Browser : s2[p] = Nil) /\ Nil # r /\ Nil # {}
    BY RoomsAssumption, Zenon DEF Meeting!Init
  <2>2. Meeting!Members(s1, r) = {}
    BY <2>1, Zenon DEF Meeting!Members
  <2>3. Meeting!Cardinality({}) = 0 /\ maxPeers[r] \in Nat
    BY SameSize, FS_EmptySet, RoomsAssumption, Zenon
  <2>4. {p \in Browser : s2[p] = r} = {}
    BY <2>1, Zenon
  <2>5. QED BY <2>1, <2>2, <2>3, <2>4
<1>3. ASSUME NEW p \in Browser
      PROVE  Subscribed(p) /\ UpToDate(p) /\ SignalsKnown(p)
  <2>1. s2[p] = Nil /\ s3[p] = {} /\ s7 = {} /\ s5[p] = <<>>
    BY Zenon DEF Meeting!Init
  <2>2. Subscribed(p) /\ UpToDate(p)
    BY <2>1, RoomsAssumption, Zenon DEF Subscribed, UpToDate
  <2>3. SignalsKnown(p)
    BY <2>1 DEF SignalsKnown
  <2>4. QED BY <2>2, <2>3, Zenon
<1>4. QED BY <1>1, <1>2, <1>3, Zenon DEF RoomsInv

LEMMA OpenKeeps ==
  ASSUME RoomsInv, NEW p \in Browser, Meeting!Open(p)
  PROVE  RoomsInv'
<1>1. s4[p] = "new" /\ s4' = [s4 EXCEPT ![p] = "open"] /\ UNCHANGED <<s1, s2, s3, s5, s6, s7, s8>>
  BY Zenon DEF Meeting!Open
<1>2. RoomsTypes'
  BY <1>1, Zenon DEF RoomsInv, RoomsTypes
<1>3. Meeting!RoomsAgree'
  BY <1>1, Zenon DEF RoomsInv, Meeting!RoomsAgree, Meeting!Members
<1>4. ASSUME NEW q \in Browser
      PROVE  Subscribed(q)' /\ UpToDate(q)' /\ SignalsKnown(q)'
  <2>1. Subscribed(q) /\ UpToDate(q) /\ SignalsKnown(q)
    BY Zenon DEF RoomsInv
  <2>2. s4[q] = "open" => s4'[q] = "open"
    BY <1>1, Zenon DEF RoomsInv, RoomsTypes
  <2>3. Subscribed(q)'
    BY <1>1, <2>1, <2>2, Zenon DEF Subscribed
  <2>4. UpToDate(q)' /\ SignalsKnown(q)'
    BY <1>1, <2>1, Zenon DEF UpToDate, SignalsKnown
  <2>5. QED BY <2>3, <2>4, Zenon
<1>5. QED BY <1>2, <1>3, <1>4, Zenon DEF RoomsInv

\* p leaves its room and those in it are told.
LEMMA LeaveRoomKeeps ==
  ASSUME RoomsInv, NEW p \in Browser, Meeting!leaveRoom(p)
  PROVE  RoomsInv'
<1> DEFINE old == s2[p]
           topics == Meeting!Topics(p, Nil)
<1>1. /\ s4[p] = "open" /\ old # Nil
      /\ s1' = Meeting!Without(s1, p) /\ s2' = [s2 EXCEPT ![p] = Nil]
      /\ s3' = [s3 EXCEPT ![p] = topics]
      /\ s8' \in 0..MaxMoves
      /\ UNCHANGED <<s4, s6, s7>>
  BY RoomsAssumption DEF Meeting!leaveRoom, Meeting!Moves, RoomsInv, RoomsTypes
<1>2. s5' = [q \in Browser |-> s5[q] \o Meeting!publish(p, old, s3', Meeting!Left(p))[q]]
  BY Zenon DEF Meeting!leaveRoom
<1>3. RoomsTypes /\ Meeting!RoomsAgree /\ \A q \in Browser : Subscribed(q)
  BY Zenon DEF RoomsInv
<1>4. s1' \in [RoomId -> (SUBSET Browser) \cup {Nil}] /\ Meeting!RoomsAgree'
  BY <1>1, <1>3, GoneAgrees, Zenon
<1>5. topics \subseteq RoomId /\ \A r \in RoomId : r \notin topics
  BY <1>3, RoomsAssumption, TopicsOf, Zenon
<1> HIDE DEF topics
<1>6. /\ old \in RoomId \cup {Nil} /\ s2' \in [Browser -> RoomId \cup {Nil}] /\ s2'[p] = Nil
      /\ s3' \in [Browser -> SUBSET RoomId] /\ s3'[p] = topics
      /\ \A q \in Browser : q # p => s2'[q] = s2[q] /\ s3'[q] = s3[q]
  BY <1>1, <1>3, <1>5, Zenon DEF RoomsTypes
<1>7. ASSUME NEW q \in Browser
      PROVE  /\ q # p /\ s2[q] = old => s5'[q] = Append(s5[q], Meeting!Left(p))
             /\ ~(q # p /\ s2[q] = old) => s5'[q] = s5[q]
  <2> DEFINE said == Meeting!publish(p, old, s3', Meeting!Left(p))[q]
  <2>1. s5'[q] = s5[q] \o said
    BY <1>2, Zenon
  <2>2. /\ q # p /\ s2[q] = old => said = <<Meeting!Left(p)>>
        /\ ~(q # p /\ s2[q] = old) => said = <<>>
    <3>1. PICK t : t = s3'
      BY Zenon
    <3>2. PICK m : m = Meeting!Left(p)
      BY Zenon
    <3>3. PICK r \in RoomId \cup {Nil} : r = old /\ r # Nil
      BY <1>1, <1>6, Zenon
    <3>4. RoomsTypes /\ Subscribed(q) /\ (q # p => t[q] = s3[q])
      BY <1>3, <1>6, <3>1, Zenon
    <3>5. /\ q # p /\ r # Nil /\ s2[q] = r => Meeting!publish(p, r, t, m)[q] = <<m>>
          /\ ~(q # p /\ r # Nil /\ s2[q] = r) => Meeting!publish(p, r, t, m)[q] = <<>>
      BY <3>4, PublishedOf, Zenon
    <3>6. QED BY <3>1, <3>2, <3>3, <3>5, Zenon
  <2> HIDE DEF said
  <2>3. s5[q] \in Seq(Message) /\ Meeting!Left(p) \in Message
    BY <1>3, Says, Zenon DEF RoomsTypes
  <2>4. QED BY <2>1, <2>2, <2>3, Onto, Zenon
<1>8. ASSUME NEW q \in Browser
      PROVE  s5'[q] \in Seq(Message) /\ UpToDate(q)' /\ SignalsKnown(q)'
  <2>1. CASE q = p
    <3>1. s5'[q] = s5[q] /\ s5[q] \in Seq(Message) /\ SignalsKnown(q)
      BY <1>3, <1>7, <2>1, Zenon DEF RoomsTypes, RoomsInv
    <3>2. UpToDate(q)'
      BY <1>6, <2>1, Zenon DEF UpToDate
    <3>3. SignalsKnown(q)'
      BY <1>1, <3>1, Zenon DEF SignalsKnown
    <3>4. QED BY <3>1, <3>2, <3>3, Zenon
  <2>2. CASE q # p
    <3>1. \/ s5'[q] = s5[q] /\ s2[p] # s2[q]
          \/ s5'[q] = Append(s5[q], Meeting!Left(p)) /\ s2[q] = old
      BY <1>7, <2>2, Zenon
    <3>2. s2[q] # Nil => s2'[p] # s2[q]
      BY <1>6, Zenon
    <3>3. QED BY <1>1, <1>6, <2>2, <3>1, <3>2, OthersHear, Zenon
  <2>3. QED BY <2>1, <2>2, Zenon
<1>9. s5' \in [Browser -> Seq(Message)]
  BY <1>2, <1>8, Zenon
<1>10. RoomsTypes'
  BY <1>1, <1>3, <1>4, <1>6, <1>9, Zenon DEF RoomsTypes
<1>11. ASSUME NEW q \in Browser
       PROVE  Subscribed(q)'
  <2>1. CASE q = p
    BY <1>1, <1>5, <1>6, <2>1, RoomsAssumption, Zenon DEF Subscribed
  <2>2. CASE q # p
    BY <1>1, <1>3, <1>6, <2>2, Zenon DEF Subscribed
  <2>3. QED BY <2>1, <2>2, Zenon
<1>12. QED BY <1>4, <1>8, <1>10, <1>11, Zenon DEF RoomsInv

\* The connection of p ends, which its room-mates are told.
LEMMA CloseKeeps ==
  ASSUME RoomsInv, NEW p \in Browser, Meeting!Close(p)
  PROVE  RoomsInv'
<1> DEFINE old == s2[p]
<1>1. /\ s4[p] = "open" /\ s4' = [s4 EXCEPT ![p] = "closed"]
      /\ s1' = Meeting!Without(s1, p) /\ s2' = [s2 EXCEPT ![p] = Nil]
      /\ s3' = [s3 EXCEPT ![p] = {}]
      /\ UNCHANGED <<s6, s7, s8>>
  BY Zenon DEF Meeting!Close
<1>2. s5' = [q \in Browser |->
               IF q = p THEN <<>>
               ELSE s5[q] \o Meeting!publish(p, old, s3, Meeting!Left(p))[q]]
  BY Zenon DEF Meeting!Close
<1>3. RoomsTypes /\ Meeting!RoomsAgree /\ \A q \in Browser : Subscribed(q)
  BY Zenon DEF RoomsInv
<1>4. s1' \in [RoomId -> (SUBSET Browser) \cup {Nil}] /\ Meeting!RoomsAgree'
  BY <1>1, <1>3, GoneAgrees, Zenon
<1>5. /\ old \in RoomId \cup {Nil} /\ s2' \in [Browser -> RoomId \cup {Nil}] /\ s2'[p] = Nil
      /\ s3' \in [Browser -> SUBSET RoomId] /\ s3'[p] = {}
      /\ s4' \in [Browser -> {"new", "open", "closed"}]
      /\ \A q \in Browser : q # p => s2'[q] = s2[q] /\ s3'[q] = s3[q] /\ s4'[q] = s4[q]
  BY <1>1, <1>3, Zenon DEF RoomsTypes
<1>6. ASSUME NEW q \in Browser, q # p
      PROVE  /\ old # Nil /\ s2[q] = old => s5'[q] = Append(s5[q], Meeting!Left(p))
             /\ ~(old # Nil /\ s2[q] = old) => s5'[q] = s5[q]
  <2> DEFINE said == Meeting!publish(p, old, s3, Meeting!Left(p))[q]
  <2>1. s5'[q] = s5[q] \o said
    BY <1>2, <1>6, Zenon
  <2>2. /\ old # Nil /\ s2[q] = old => said = <<Meeting!Left(p)>>
        /\ ~(old # Nil /\ s2[q] = old) => said = <<>>
    <3>1. PICK topics : topics = s3
      BY Zenon
    <3>2. PICK m : m = Meeting!Left(p)
      BY Zenon
    <3>3. PICK r \in RoomId \cup {Nil} : r = old
      BY <1>5, Zenon
    <3>4. RoomsTypes /\ Subscribed(q) /\ topics[q] = s3[q]
      BY <1>3, <3>1, Zenon
    <3>5. /\ q # p /\ r # Nil /\ s2[q] = r => Meeting!publish(p, r, topics, m)[q] = <<m>>
          /\ ~(q # p /\ r # Nil /\ s2[q] = r) => Meeting!publish(p, r, topics, m)[q] = <<>>
      BY <3>4, PublishedOf, Zenon
    <3>6. QED BY <1>6, <3>1, <3>2, <3>3, <3>5, Zenon
  <2> HIDE DEF said
  <2>3. s5[q] \in Seq(Message) /\ Meeting!Left(p) \in Message
    BY <1>3, Says, Zenon DEF RoomsTypes
  <2>4. QED BY <2>1, <2>2, <2>3, Onto, Zenon
<1>7. ASSUME NEW q \in Browser
      PROVE  s5'[q] \in Seq(Message) /\ UpToDate(q)' /\ SignalsKnown(q)'
  <2>1. CASE q = p
    <3>1. s5'[q] = <<>>
      BY <1>2, <2>1, Zenon
    <3>2. UpToDate(q)'
      BY <1>5, <2>1, Zenon DEF UpToDate
    <3>3. SignalsKnown(q)'
      BY <3>1 DEF SignalsKnown
    <3>4. QED BY <3>1, <3>2, <3>3
  <2>2. CASE q # p
    <3>1. \/ s5'[q] = s5[q] /\ (s2[q] # Nil => s2[p] # s2[q])
          \/ s5'[q] = Append(s5[q], Meeting!Left(p)) /\ s2[q] # Nil
      BY <1>6, <2>2, Zenon
    <3>2. s2[q] # Nil => s2'[p] # s2[q]
      BY <1>5, Zenon
    <3>3. QED BY <1>1, <1>5, <2>2, <3>1, <3>2, OthersHear, Zenon
  <2>3. QED BY <2>1, <2>2, Zenon
<1>8. s5' \in [Browser -> Seq(Message)]
  BY <1>2, <1>7, Zenon
<1>9. RoomsTypes'
  BY <1>1, <1>3, <1>4, <1>5, <1>8, Zenon DEF RoomsTypes
<1>10. ASSUME NEW q \in Browser
       PROVE  Subscribed(q)'
  <2>1. CASE q = p
    BY <1>1, <1>5, <2>1, RoomsAssumption, Zenon DEF Subscribed
  <2>2. CASE q # p
    BY <1>1, <1>3, <1>5, <2>2, Zenon DEF Subscribed
  <2>3. QED BY <2>1, <2>2, Zenon
<1>11. QED BY <1>4, <1>7, <1>9, <1>10, Zenon DEF RoomsInv

\* A signal to a room-mate: both are in the room, so it knows the sender.
LEMMA SignalKeeps ==
  ASSUME RoomsInv, NEW p \in Browser, NEW q \in Browser, Meeting!Signal(p, q)
  PROVE  RoomsInv'
<1> DEFINE m == [type |-> "signal", peer |-> p]
<1>1. /\ p # q /\ s2[p] # Nil /\ s2[p] = s2[q]
      /\ s5' = [s5 EXCEPT ![q] = Append(s5[q], m)]
      /\ UNCHANGED <<s1, s2, s3, s4, s6, s7, s8>>
  BY Zenon DEF Meeting!Signal, Meeting!arePeersInSameRoom
<1>2. m \in Message /\ m.type = "signal" /\ m.peer = p /\ \A x : ~Names(m, x) /\ ~About(m, x)
  BY Zenon DEF Message, Names, About
<1> HIDE DEF m
<1>3. RoomsTypes /\ Meeting!RoomsAgree /\ \A x \in Browser : Subscribed(x)
  BY Zenon DEF RoomsInv
<1>4. PICK w \in Seq(Message) : w = s5[q]
  BY <1>3, Zenon DEF RoomsTypes
<1>5. PICK u : u = Append(w, m)
  BY Zenon
<1>6. PICK v : v = s6[q]
  BY Zenon
<1>7. s5'[q] = u /\ \A x \in Browser : x # q => s5'[x] = s5[x]
  BY <1>1, <1>3, <1>4, <1>5, Zenon DEF RoomsTypes
<1>8. u \in Seq(Message) /\ Len(u) = Len(w) + 1
  BY <1>2, <1>5, Longer, Zenon
<1>9. u[Len(w) + 1] = m
  BY <1>2, <1>5, Longer, Zenon
<1>10. \A i \in DOMAIN u : i = Len(w) + 1 \/ (i \in DOMAIN w /\ u[i] = w[i])
  BY <1>2, <1>5, Longer
<1>11. \A x : Knows(u, v, Len(u), x) <=>
                Names(m, x) \/ (Knows(w, v, Len(w), x) /\ ~About(m, x))
  BY <1>2, <1>5, Sent, Zenon
<1>12. /\ \A i \in DOMAIN u : \A x : Knows(u, v, i - 1, x) <=> Knows(w, v, i - 1, x)
       /\ \A r : m.type # "room-joined" /\ Enters(w, v, Len(w), r) => Enters(u, v, Len(u), r)
  BY <1>2, <1>5, Sent, Zenon
<1>13. /\ Enters(w, v, Len(w), s2[q])
       /\ \A x \in Browser : <<x, s2[q]>> \notin s7 =>
            (Knows(w, v, Len(w), x) <=> x # q /\ s2[x] = s2[q])
  BY <1>1, <1>4, <1>6, Zenon DEF RoomsInv, UpToDate
<1>14. UpToDate(q)'
  <2>1. Enters(u, v, Len(u), s2[q])
    BY <1>2, <1>12, <1>13, Zenon
  <2>2. \A x : Knows(u, v, Len(u), x) <=> Knows(w, v, Len(w), x)
    BY <1>2, <1>11, Zenon
  <2>3. QED BY <1>1, <1>6, <1>7, <1>13, <2>1, <2>2, Zenon DEF UpToDate
<1>15. Knows(w, v, Len(w), p)
  <2>1. s2[q] \in RoomId
    BY <1>1, <1>3, Zenon DEF RoomsTypes
  <2>2. <<p, s2[q]>> \notin s7
    BY <1>1, <1>3, <2>1, Zenon DEF Subscribed
  <2>3. QED BY <1>1, <1>13, <2>2, Zenon
<1>16. ASSUME NEW i \in DOMAIN u, u[i].type = "signal"
       PROVE  Knows(u, v, i - 1, u[i].peer)
  <2>1. CASE i = Len(w) + 1
    <3>1. i - 1 = Len(w) /\ u[i].peer = p
      BY <1>2, <1>9, <2>1
    <3>2. QED BY <1>12, <1>15, <3>1, Zenon
  <2>2. CASE i \in DOMAIN w /\ u[i] = w[i]
    <3>1. Knows(w, v, i - 1, w[i].peer)
      BY <1>4, <1>6, <1>16, <2>2, Zenon DEF RoomsInv, SignalsKnown
    <3>2. QED BY <1>12, <2>2, <3>1, Zenon
  <2>3. QED BY <1>10, <2>1, <2>2, Zenon
<1>17. SignalsKnown(q)'
  BY <1>1, <1>6, <1>7, <1>16, Zenon DEF SignalsKnown
<1>18. ASSUME NEW x \in Browser
       PROVE  UpToDate(x)' /\ SignalsKnown(x)'
  <2>1. CASE x = q
    BY <1>14, <1>17, <2>1, Zenon
  <2>2. CASE x # q
    <3>1. UpToDate(x) /\ SignalsKnown(x) /\ s5'[x] = s5[x]
      BY <1>7, <2>2, Zenon DEF RoomsInv
    <3>2. QED BY <1>1, <3>1, Zenon DEF UpToDate, SignalsKnown
  <2>3. QED BY <2>1, <2>2, Zenon
<1>19. s5' \in [Browser -> Seq(Message)]
  BY <1>1, <1>3, <1>4, <1>5, <1>8, Zenon DEF RoomsTypes
<1>20. RoomsTypes'
  BY <1>1, <1>3, <1>19, Zenon DEF RoomsTypes
<1>21. Meeting!RoomsAgree'
  BY <1>1, <1>3, Zenon DEF Meeting!RoomsAgree, Meeting!Members
<1>22. \A x \in Browser : Subscribed(x)'
  BY <1>1, <1>3, Zenon DEF Subscribed
<1>23. QED BY <1>18, <1>20, <1>21, <1>22, Zenon DEF RoomsInv

\* What the reader makes of a message.
LEMMA ReadTells ==
  ASSUME RoomsInv, NEW p \in Browser, Meeting!Read(p), NEW m, m = Head(s5[p])
  PROVE  /\ m \in Message /\ s6' \in [Browser -> View]
         /\ \A q \in Browser : q # p => s6'[q] = s6[q]
         /\ \A q : q \in s6'[p].peers <=> Names(m, q) \/ (q \in s6[p].peers /\ ~About(m, q))
         /\ m.type = "room-joined" => s6'[p].room = m.room
         /\ m.type # "room-joined" => s6'[p].room = s6[p].room
<1>1. s5[p] \in Seq(Message) /\ s5[p] # <<>> /\ s6 \in [Browser -> View]
  BY Zenon DEF RoomsInv, RoomsTypes, Meeting!Read
<1>2. m \in Message
  BY <1>1
<1>3. /\ m.type \in {"signal", "peer-joined", "peer-left", "room-joined"}
      /\ m.type = "room-joined" => m.room \in RoomId /\ m.peers \subseteq Browser
      /\ m.type # "room-joined" => m.peer \in Browser
  BY <1>2, Zenon DEF Message
<1>4. s6[p] \in View /\ s6[p].peers \subseteq Browser /\ s6[p].room \in RoomId \cup {Nil}
  BY <1>1, Zenon DEF View
<1>5. CASE m.type = "room-joined"
  <2> DEFINE x == [room |-> m.room, peers |-> m.peers]
  <2>1. s6' = [s6 EXCEPT ![p] = x]
    BY <1>5, Zenon DEF Meeting!Read
  <2>2. x \in View /\ x.room = m.room /\ x.peers = m.peers
    BY <1>3, <1>5, Zenon DEF View
  <2> HIDE DEF x
  <2>3. s6'[p] = x /\ s6' \in [Browser -> View] /\ \A q \in Browser : q # p => s6'[q] = s6[q]
    BY <1>1, <2>1, <2>2, Zenon
  <2>4. \A q : (Names(m, q) <=> q \in m.peers) /\ About(m, q)
    BY <1>5, Zenon DEF Names, About
  <2>5. QED BY <1>2, <1>5, <2>2, <2>3, <2>4, Zenon
<1>6. CASE m.type = "peer-joined"
  <2> DEFINE x == [s6[p] EXCEPT !.peers = s6[p].peers \cup {m.peer}]
  <2>1. s6' = [s6 EXCEPT ![p] = x]
    BY <1>6, Zenon DEF Meeting!Read
  <2>2. x \in View /\ x.room = s6[p].room /\ x.peers = s6[p].peers \cup {m.peer}
    BY <1>3, <1>4, <1>6, Zenon DEF View
  <2> HIDE DEF x
  <2>3. s6'[p] = x /\ s6' \in [Browser -> View] /\ \A q \in Browser : q # p => s6'[q] = s6[q]
    BY <1>1, <2>1, <2>2, Zenon
  <2>4. \A q : (Names(m, q) <=> q = m.peer) /\ (About(m, q) <=> q = m.peer)
    BY <1>6, Zenon DEF Names, About
  <2>5. QED BY <1>2, <1>6, <2>2, <2>3, <2>4, Zenon
<1>7. CASE m.type = "peer-left"
  <2> DEFINE x == [s6[p] EXCEPT !.peers = s6[p].peers \ {m.peer}]
  <2>1. s6' = [s6 EXCEPT ![p] = x]
    BY <1>7, Zenon DEF Meeting!Read
  <2>2. x \in View /\ x.room = s6[p].room /\ x.peers = s6[p].peers \ {m.peer}
    BY <1>3, <1>4, <1>7, Zenon DEF View
  <2> HIDE DEF x
  <2>3. s6'[p] = x /\ s6' \in [Browser -> View] /\ \A q \in Browser : q # p => s6'[q] = s6[q]
    BY <1>1, <2>1, <2>2, Zenon
  <2>4. \A q : ~Names(m, q) /\ (About(m, q) <=> q = m.peer)
    BY <1>7, Zenon DEF Names, About
  <2>5. QED BY <1>2, <1>7, <2>2, <2>3, <2>4, Zenon
<1>8. CASE m.type = "signal"
  <2>1. s6' = s6
    BY <1>8, Zenon DEF Meeting!Read
  <2>2. \A q : ~Names(m, q) /\ ~About(m, q)
    BY <1>8, Zenon DEF Names, About
  <2>3. QED BY <1>1, <1>2, <1>8, <2>1, <2>2, Zenon
<1>9. QED BY <1>3, <1>5, <1>6, <1>7, <1>8, Zenon

LEMMA Shorter ==
  ASSUME NEW w \in Seq(Message), w # <<>>, NEW u, u = Tail(w)
  PROVE  /\ u \in Seq(Message) /\ Len(u) \in Nat /\ Len(w) = Len(u) + 1 /\ w[1] = Head(w)
         /\ \A i \in 1..Len(u) : u[i] = w[i + 1]
         /\ \A i \in DOMAIN u : i \in 1..Len(u) /\ i + 1 \in DOMAIN w
<1>1. Len(w) \in Nat /\ DOMAIN w = 1..Len(w) /\ Len(w) # 0
  OBVIOUS
<1>2. u \in Seq(Message) /\ Len(u) = Len(w) - 1 /\ DOMAIN u = 1..Len(u) /\ w[1] = Head(w)
  BY <1>1
<1>3. \A i \in 1..Len(u) : u[i] = w[i + 1]
  BY <1>1, <1>2
<1>4. QED BY <1>1, <1>2, <1>3

LEMMA ReadKeeps ==
  ASSUME RoomsInv, NEW p \in Browser, Meeting!Read(p)
  PROVE  RoomsInv'
<1>1. /\ s5[p] # <<>> /\ s5' = [s5 EXCEPT ![p] = Tail(s5[p])]
      /\ UNCHANGED <<s1, s2, s3, s4, s7, s8>>
  BY Zenon DEF Meeting!Read
<1>2. RoomsTypes /\ Meeting!RoomsAgree /\ \A x \in Browser : Subscribed(x)
  BY Zenon DEF RoomsInv
<1>3. PICK w \in Seq(Message) : w = s5[p] /\ w # <<>>
  BY <1>1, <1>2, Zenon DEF RoomsTypes
<1>4. PICK u : u = Tail(w)
  BY Zenon
<1>5. PICK v : v = s6[p]
  BY Zenon
<1>6. PICK y : y = s6'[p]
  BY Zenon
<1>7. PICK m : m = Head(w)
  BY Zenon
<1>8. /\ u \in Seq(Message) /\ Len(u) \in Nat /\ Len(w) = Len(u) + 1 /\ w[1] = m
      /\ \A i \in 1..Len(u) : u[i] = w[i + 1]
      /\ \A i \in DOMAIN u : i \in 1..Len(u) /\ i + 1 \in DOMAIN w
  BY <1>3, <1>4, <1>7, Shorter, Zenon
<1>9. /\ s6' \in [Browser -> View] /\ \A q \in Browser : q # p => s6'[q] = s6[q]
      /\ \A q : q \in y.peers <=> Names(w[1], q) \/ (q \in v.peers /\ ~About(w[1], q))
      /\ w[1].type = "room-joined" => y.room = w[1].room
      /\ w[1].type # "room-joined" => y.room = v.room
  BY <1>3, <1>5, <1>6, <1>7, <1>8, ReadTells, Zenon
<1>10. s5'[p] = u /\ (\A q \in Browser : q # p => s5'[q] = s5[q])
         /\ s5' \in [Browser -> Seq(Message)]
  BY <1>1, <1>2, <1>3, <1>4, <1>8, Zenon DEF RoomsTypes
<1>11. ASSUME NEW n \in Nat, n <= Len(u), NEW q
       PROVE  Knows(w, v, n + 1, q) <=> Knows(u, y, n, q)
  <2>1. \A i \in 1..n : u[i] = w[i + 1]
    BY <1>8, <1>11
  <2>2. q \in y.peers <=> Names(w[1], q) \/ (q \in v.peers /\ ~About(w[1], q))
    BY <1>9, Zenon
  <2>3. QED BY <2>1, <2>2, KnowsRest, Zenon
<1>12. UpToDate(p)'
  <2>1. CASE s2[p] = Nil
    BY <1>1, <2>1, Zenon DEF UpToDate
  <2>2. CASE s2[p] # Nil
    <3>1. /\ Enters(w, v, Len(u) + 1, s2[p])
          /\ \A q \in Browser : <<q, s2[p]>> \notin s7 =>
               (Knows(w, v, Len(u) + 1, q) <=> q # p /\ s2[q] = s2[p])
      <4>1. UpToDate(p) /\ Len(w) = Len(u) + 1
        BY <1>8, Zenon DEF RoomsInv
      <4>2. /\ Enters(w, v, Len(w), s2[p])
            /\ \A q \in Browser : <<q, s2[p]>> \notin s7 =>
                 (Knows(w, v, Len(w), q) <=> q # p /\ s2[q] = s2[p])
        BY <1>3, <1>5, <2>2, <4>1, Zenon DEF UpToDate
      <4>3. QED BY <4>1, <4>2, Zenon
    <3>2. PICK r : r = s2[p]
      BY Zenon
    <3>3. Enters(u, y, Len(u), r)
      <4>1. Enters(w, v, Len(u) + 1, r)
        BY <3>1, <3>2, Zenon
      <4>2. QED BY <1>8, <1>9, <4>1, EntersRest, Zenon
    <3>4. \A q : Knows(w, v, Len(u) + 1, q) <=> Knows(u, y, Len(u), q)
      BY <1>8, <1>11
    <3>5. QED BY <1>1, <1>6, <1>10, <3>1, <3>2, <3>3, <3>4, Zenon DEF UpToDate
  <2>3. QED BY <2>1, <2>2, Zenon
<1>13. ASSUME NEW i \in DOMAIN u, u[i].type = "signal"
       PROVE  Knows(u, y, i - 1, u[i].peer)
  <2>1. i \in 1..Len(u) /\ i + 1 \in DOMAIN w /\ w[i + 1] = u[i]
    BY <1>8, <1>13, Zenon
  <2>2. i - 1 \in Nat /\ i - 1 <= Len(u) /\ i - 1 + 1 = i /\ i + 1 - 1 = i
    BY <1>8, <2>1
  <2>3. Knows(w, v, i + 1 - 1, u[i].peer)
    <3>1. SignalsKnown(p)
      BY Zenon DEF RoomsInv
    <3>2. \A j \in DOMAIN w : w[j].type = "signal" => Knows(w, v, j - 1, w[j].peer)
      BY <1>3, <1>5, <3>1, Zenon DEF SignalsKnown
    <3>3. QED BY <1>13, <2>1, <3>2
  <2>4. Knows(w, v, i - 1 + 1, u[i].peer)
    BY <2>2, <2>3, Zenon
  <2>5. QED BY <1>11, <2>2, <2>4, Zenon
<1>14. SignalsKnown(p)'
  BY <1>6, <1>10, <1>13, Zenon DEF SignalsKnown
<1>15. ASSUME NEW q \in Browser
       PROVE  UpToDate(q)' /\ SignalsKnown(q)'
  <2>1. CASE q = p
    BY <1>12, <1>14, <2>1, Zenon
  <2>2. CASE q # p
    <3>1. UpToDate(q) /\ SignalsKnown(q) /\ s5'[q] = s5[q] /\ s6'[q] = s6[q]
      BY <1>9, <1>10, <2>2, Zenon DEF RoomsInv
    <3>2. QED BY <1>1, <3>1, Zenon DEF UpToDate, SignalsKnown
  <2>3. QED BY <2>1, <2>2, Zenon
<1>16. RoomsTypes'
  BY <1>1, <1>2, <1>9, <1>10, Zenon DEF RoomsTypes
<1>17. Meeting!RoomsAgree'
  BY <1>1, <1>2, Zenon DEF Meeting!RoomsAgree, Meeting!Members
<1>18. \A q \in Browser : Subscribed(q)'
  BY <1>1, <1>2, Zenon DEF Subscribed
<1>19. QED BY <1>15, <1>16, <1>17, <1>18, Zenon DEF RoomsInv

\* p asks for room r, which has no place for it: it is then in none.
LEMMA JoinFullKeeps ==
  ASSUME RoomsInv, NEW p \in Browser, NEW r \in RoomId, Meeting!joinRoom(p, r),
         Meeting!isFull(Meeting!Without(s1, p), r)
  PROVE  RoomsInv'
<1> DEFINE old == s2[p]
           topics == Meeting!Topics(p, Nil)
<1>1. /\ s1' = Meeting!Without(s1, p) /\ s2' = [s2 EXCEPT ![p] = Nil]
      /\ s3' = [s3 EXCEPT ![p] = topics]
      /\ s7' = s7 \cup (IF old = Nil THEN {} ELSE {<<p, old>>})
      /\ UNCHANGED <<s4, s5, s6>>
  BY Zenon DEF Meeting!joinRoom
<1>2. s8' \in 0..MaxMoves
  BY RoomsAssumption DEF Meeting!joinRoom, Meeting!Moves, RoomsInv, RoomsTypes
<1>3. RoomsTypes /\ Meeting!RoomsAgree /\ \A q \in Browser : Subscribed(q)
  BY Zenon DEF RoomsInv
<1>4. s1' \in [RoomId -> (SUBSET Browser) \cup {Nil}] /\ Meeting!RoomsAgree'
  BY <1>1, <1>3, GoneAgrees, Zenon
<1>5. topics \subseteq RoomId /\ \A x \in RoomId : x \notin topics
  BY <1>3, RoomsAssumption, TopicsOf, Zenon
<1> HIDE DEF topics
<1>6. /\ old \in RoomId \cup {Nil} /\ s2' \in [Browser -> RoomId \cup {Nil}] /\ s2'[p] = Nil
      /\ s3' \in [Browser -> SUBSET RoomId] /\ s3'[p] = topics
      /\ \A q \in Browser : q # p => s2'[q] = s2[q] /\ s3'[q] = s3[q]
  BY <1>1, <1>3, <1>5, Zenon DEF RoomsTypes
<1>7. /\ s7' \subseteq Browser \X RoomId /\ s7 \subseteq s7' /\ (old # Nil => <<p, old>> \in s7')
      /\ \A q \in Browser, x \in RoomId : q # p /\ <<q, x>> \in s7' => <<q, x>> \in s7
  <2>1. s7 \subseteq Browser \X RoomId
    BY <1>3, Zenon DEF RoomsTypes
  <2>2. CASE old = Nil
    BY <1>1, <2>1, <2>2, Zenon
  <2>3. CASE old # Nil
    <3>1. <<p, old>> \in Browser \X RoomId /\ s7' = s7 \cup {<<p, old>>}
      BY <1>1, <1>6, <2>3, Zenon
    <3>2. QED BY <2>1, <3>1, Zenon
  <2>4. QED BY <2>2, <2>3, Zenon
<1>8. ASSUME NEW q \in Browser
      PROVE  UpToDate(q)' /\ SignalsKnown(q)'
  <2>1. CASE q = p
    <3>1. UpToDate(q)'
      BY <1>6, <2>1, Zenon DEF UpToDate
    <3>2. SignalsKnown(q)'
      BY <1>1, Zenon DEF SignalsKnown, RoomsInv
    <3>3. QED BY <3>1, <3>2, Zenon
  <2>2. CASE q # p
    <3>1. s2[q] # Nil => s2'[p] # s2[q] /\ (s2[p] = s2[q] => <<p, s2[q]>> \in s7')
      BY <1>6, <1>7, Zenon
    <3>2. QED BY <1>1, <1>6, <1>7, <2>2, <3>1, OthersHear, Zenon
  <2>3. QED BY <2>1, <2>2, Zenon
<1>9. RoomsTypes'
  BY <1>1, <1>2, <1>3, <1>4, <1>6, <1>7, Zenon DEF RoomsTypes
<1>10. ASSUME NEW q \in Browser
       PROVE  Subscribed(q)'
  <2>1. CASE q = p
    BY <1>5, <1>6, <2>1, RoomsAssumption, Zenon DEF Subscribed
  <2>2. CASE q # p
    BY <1>1, <1>3, <1>6, <1>7, <2>2, Zenon DEF Subscribed
  <2>3. QED BY <2>1, <2>2, Zenon
<1>11. QED BY <1>4, <1>8, <1>9, <1>10, Zenon DEF RoomsInv

\* The rooms once p has come to room r, which had a place for it.
LEMMA CameAgrees ==
  ASSUME RoomsTypes, Meeting!RoomsAgree, NEW p \in Browser, NEW r \in RoomId,
         NEW a, a = Meeting!Without(s1, p), ~Meeting!isFull(a, r),
         s1' = [a EXCEPT ![r] = Meeting!Members(a, r) \cup {p}], s2' = [s2 EXCEPT ![p] = r]
  PROVE  s1' \in [RoomId -> (SUBSET Browser) \cup {Nil}] /\ Meeting!RoomsAgree'
<1>1. /\ a \in [RoomId -> (SUBSET Browser) \cup {Nil}]
      /\ \A x \in RoomId : /\ Meeting!Members(a, x) = {q \in Browser : q # p /\ s2[q] = x}
                           /\ a[x] # {}
                           /\ Cardinality(Meeting!Members(a, x)) <= maxPeers[x]
  BY WithoutOf, Zenon
<1>2. PICK M : M = Meeting!Members(a, r)
  BY Zenon
<1>3. M \subseteq Browser /\ p \notin M
  BY <1>1, <1>2, Zenon
<1>4. s1'[r] = M \cup {p} /\ (\A x \in RoomId : x # r => s1'[x] = a[x])
      /\ s1' \in [RoomId -> (SUBSET Browser) \cup {Nil}]
  BY <1>1, <1>2, <1>3, Zenon
<1>5. IsFiniteSet(M) /\ Cardinality(M \cup {p}) = Cardinality(M) + 1 /\ Cardinality(M) \in Nat
  <2>1. IsFiniteSet(M)
    BY <1>3, RoomsAssumption, FS_Subset, Zenon
  <2>2. QED BY <1>3, <2>1, FS_AddElement, FS_CardinalityType, Zenon
<1>6. Cardinality(M) < maxPeers[r] /\ maxPeers[r] \in Nat
  <2>1. maxPeers[r] \in Nat
    BY RoomsAssumption, Zenon
  <2>2. ~(Meeting!Cardinality(M) >= maxPeers[r])
    BY <1>2, Zenon DEF Meeting!isFull
  <2>3. Meeting!Cardinality(M) = Cardinality(M)
    BY SameSize, Zenon
  <2>4. QED BY <1>5, <2>1, <2>2, <2>3
<1>7. s2'[p] = r /\ \A q \in Browser : q # p => s2'[q] = s2[q]
  BY Zenon DEF RoomsTypes
<1>8. ASSUME NEW x \in RoomId
      PROVE  /\ Meeting!Members(s1', x) = {q \in Browser : s2'[q] = x}
             /\ s1'[x] # {}
             /\ Meeting!Cardinality(Meeting!Members(s1', x)) <= maxPeers[x]
  <2>1. CASE x = r
    <3>1. M \cup {p} # Nil
      <4>1. M \cup {p} \in SUBSET Browser
        BY <1>3, Zenon
      <4>2. QED BY <4>1, RoomsAssumption, Zenon
    <3>2. Meeting!Members(s1', x) = M \cup {p}
      BY <1>4, <2>1, <3>1, Zenon DEF Meeting!Members
    <3>3. M \cup {p} = {q \in Browser : s2'[q] = x}
      <4>1. M = {q \in Browser : q # p /\ s2[q] = r}
        BY <1>1, <1>2, Zenon
      <4>2. QED BY <1>7, <2>1, <4>1, Zenon
    <3>4. Cardinality(M \cup {p}) <= maxPeers[r]
      BY <1>5, <1>6
    <3>5. QED BY <1>4, <2>1, <3>2, <3>3, <3>4, SameSize, Zenon
  <2>2. CASE x # r
    <3>1. Meeting!Members(s1', x) = Meeting!Members(a, x) /\ s1'[x] = a[x]
      BY <1>4, <1>8, <2>2, Zenon DEF Meeting!Members
    <3>2. {q \in Browser : q # p /\ s2[q] = x} = {q \in Browser : s2'[q] = x}
      <4>1. \A q \in Browser : (q # p /\ s2[q] = x) <=> s2'[q] = x
        BY <1>7, <2>2, Zenon
      <4>2. QED BY <4>1, Zenon
    <3>3. QED BY <1>1, <1>8, <3>1, <3>2, SameSize, Zenon
  <2>3. QED BY <2>1, <2>2, Zenon
<1>9. Meeting!RoomsAgree'
  BY <1>8, Zenon DEF Meeting!RoomsAgree
<1>10. QED BY <1>4, <1>9, Zenon

\* p comes to a room that has a place for it: its old room-mates are told that
\* it left, the new ones that it came, and p who is there.
LEMMA JoinKeeps ==
  ASSUME RoomsInv, NEW p \in Browser, NEW r \in RoomId, Meeting!joinRoom(p, r),
         NEW a, a = Meeting!Without(s1, p), ~Meeting!isFull(a, r)
  PROVE  RoomsInv'
<1> DEFINE old == s2[p]
           there == Meeting!Members(a, r)
           topics == Meeting!Topics(p, r)
           m == [type |-> "room-joined", room |-> r, peers |-> there]
<1>1. /\ old # r
      /\ s1' = [a EXCEPT ![r] = there \cup {p}] /\ s2' = [s2 EXCEPT ![p] = r]
      /\ s3' = [s3 EXCEPT ![p] = topics]
      /\ s7' = s7 \ {<<p, r>>}
      /\ UNCHANGED <<s4, s6>>
  BY Zenon DEF Meeting!joinRoom
<1>2. s5' = [q \in Browser |->
               s5[q] \o Meeting!publish(p, old, s3', Meeting!Left(p))[q]
                 \o (IF q = p THEN <<m>> ELSE Meeting!publish(p, r, s3', Meeting!Joined(p))[q])]
  BY Zenon DEF Meeting!joinRoom
<1>3. s8' \in 0..MaxMoves /\ s4[p] = "open"
  <2>1. s4[p] = "open" /\ Meeting!Moves
    BY Zenon DEF Meeting!joinRoom
  <2>2. QED BY <2>1, RoomsAssumption DEF Meeting!Moves, RoomsInv, RoomsTypes
<1>4. RoomsTypes /\ Meeting!RoomsAgree /\ \A q \in Browser : Subscribed(q)
  BY Zenon DEF RoomsInv
<1>5. s1' \in [RoomId -> (SUBSET Browser) \cup {Nil}] /\ Meeting!RoomsAgree'
  BY <1>1, <1>4, CameAgrees, Zenon
<1>6. topics \subseteq RoomId /\ \A x \in RoomId : x \in topics <=> r = x
  BY <1>4, TopicsOf, Zenon
<1>7. there = {q \in Browser : q # p /\ s2[q] = r}
  BY <1>4, WithoutOf, Zenon
<1>8. m \in Message /\ m.type = "room-joined" /\ m.room = r /\ m.peers = there
  BY <1>7, Zenon DEF Message
<1> HIDE DEF topics, there, m
<1>9. /\ old \in RoomId \cup {Nil} /\ s2' \in [Browser -> RoomId \cup {Nil}] /\ s2'[p] = r
      /\ s3' \in [Browser -> SUBSET RoomId] /\ s3'[p] = topics
      /\ \A q \in Browser : q # p => s2'[q] = s2[q] /\ s3'[q] = s3[q]
  BY <1>1, <1>4, <1>6, Zenon DEF RoomsTypes
<1>10. ASSUME NEW q \in Browser, NEW x \in RoomId \cup {Nil}, NEW n
       PROVE  /\ q # p /\ x # Nil /\ s2[q] = x => Meeting!publish(p, x, s3', n)[q] = <<n>>
              /\ ~(q # p /\ x # Nil /\ s2[q] = x) => Meeting!publish(p, x, s3', n)[q] = <<>>
  <2>1. PICK subs : subs = s3'
    BY Zenon
  <2>2. RoomsTypes /\ Subscribed(q) /\ (q # p => subs[q] = s3[q])
    BY <1>4, <1>9, <2>1, Zenon
  <2>3. /\ q # p /\ x # Nil /\ s2[q] = x => Meeting!publish(p, x, subs, n)[q] = <<n>>
        /\ ~(q # p /\ x # Nil /\ s2[q] = x) => Meeting!publish(p, x, subs, n)[q] = <<>>
    BY <2>2, PublishedOf, Zenon
  <2>4. QED BY <2>1, <2>3, Zenon
<1>11. s5'[p] = Append(s5[p], m)
  <2>1. Meeting!publish(p, old, s3', Meeting!Left(p))[p] = <<>>
    BY <1>9, <1>10, Zenon
  <2>2. s5'[p] = s5[p] \o <<>> \o <<m>> /\ s5[p] \in Seq(Message)
    BY <1>2, <1>4, <2>1, Zenon DEF RoomsTypes
  <2>3. QED BY <1>8, <2>2, Onto, Zenon
<1>12. ASSUME NEW q \in Browser, q # p
       PROVE  \/ /\ s5'[q] = s5[q]
                 /\ s2[q] # Nil => s2[p] # s2[q] /\ s2'[p] # s2[q]
              \/ s5'[q] = Append(s5[q], Meeting!Left(p)) /\ s2'[p] # s2[q]
              \/ s5'[q] = Append(s5[q], Meeting!Joined(p)) /\ s2'[p] = s2[q]
  <2> DEFINE gone == Meeting!publish(p, old, s3', Meeting!Left(p))[q]
             came == Meeting!publish(p, r, s3', Meeting!Joined(p))[q]
  <2>1. s5'[q] = s5[q] \o gone \o came
    BY <1>2, <1>12, Zenon
  <2>2. /\ old # Nil /\ s2[q] = old => gone = <<Meeting!Left(p)>>
        /\ ~(old # Nil /\ s2[q] = old) => gone = <<>>
    BY <1>9, <1>10, <1>12, Zenon
  <2>3. /\ s2[q] = r => came = <<Meeting!Joined(p)>>
        /\ s2[q] # r => came = <<>>
    <3>1. r \in RoomId \cup {Nil} /\ r # Nil
      BY RoomsAssumption, Zenon
    <3>2. QED BY <1>10, <1>12, <3>1, Zenon
  <2> HIDE DEF gone, came
  <2>4. /\ s5[q] \in Seq(Message) /\ Meeting!Left(p) \in Message /\ Meeting!Joined(p) \in Message
    BY <1>4, Says, Zenon DEF RoomsTypes
  <2>5. CASE s2[q] = r
    <3>1. s5'[q] = s5[q] \o <<>> \o <<Meeting!Joined(p)>>
      BY <1>1, <2>1, <2>2, <2>3, <2>5, Zenon
    <3>2. QED BY <1>9, <2>4, <2>5, <3>1, Onto, Zenon
  <2>6. CASE old # Nil /\ s2[q] = old
    <3>1. s5'[q] = s5[q] \o <<Meeting!Left(p)>> \o <<>>
      BY <1>1, <2>1, <2>2, <2>3, <2>6, Zenon
    <3>2. s5[q] \o <<Meeting!Left(p)>> = Append(s5[q], Meeting!Left(p))
          /\ Append(s5[q], Meeting!Left(p)) \in Seq(Message)
      BY <2>4
    <3>3. s5'[q] = Append(s5[q], Meeting!Left(p))
      BY <3>1, <3>2, Onto, Zenon
    <3>4. QED BY <1>1, <1>9, <2>6, <3>3, Zenon
  <2>7. CASE s2[q] # r /\ ~(old # Nil /\ s2[q] = old)
    <3>1. s5'[q] = s5[q] \o <<>> \o <<>>
      BY <2>1, <2>2, <2>3, <2>7, Zenon
    <3>2. s5'[q] = s5[q]
      BY <2>4, <3>1, Onto, Zenon
    <3>3. QED BY <1>9, <2>7, <3>2, Zenon
  <2>8. QED BY <2>5, <2>6, <2>7, Zenon
<1>13. /\ s7' \subseteq Browser \X RoomId /\ s7' \subseteq s7 /\ <<p, r>> \notin s7'
       /\ \A q \in Browser, x \in RoomId :
            <<q, x>> \in s7 /\ (q # p \/ x # r) => <<q, x>> \in s7'
  BY <1>1, <1>4, Zenon DEF RoomsTypes
<1>14. UpToDate(p)' /\ SignalsKnown(p)'
  <2>1. PICK w \in Seq(Message) : w = s5[p]
    BY <1>4, Zenon DEF RoomsTypes
  <2>2. PICK v : v = s6[p]
    BY Zenon
  <2>3. PICK u : u = Append(w, m)
    BY Zenon
  <2>4. s5'[p] = u /\ s6'[p] = v
    BY <1>1, <1>11, <2>1, <2>2, <2>3, Zenon
  <2>5. /\ \A q : Knows(u, v, Len(u), q) <=>
                    Names(m, q) \/ (Knows(w, v, Len(w), q) /\ ~About(m, q))
        /\ \A i \in DOMAIN u : \A q : Knows(u, v, i - 1, q) <=> Knows(w, v, i - 1, q)
        /\ Enters(u, v, Len(u), r)
    BY <1>8, <2>3, Sent, Zenon
  <2>6. \A q \in Browser : Knows(u, v, Len(u), q) <=> q # p /\ s2'[q] = r
    <3>1. \A q : About(m, q) /\ (Names(m, q) <=> q \in there)
      BY <1>8, Zenon DEF About, Names
    <3>2. \A q \in Browser : q \in there <=> q # p /\ s2'[q] = r
      BY <1>7, <1>9, Zenon
    <3>3. QED BY <2>5, <3>1, <3>2, Zenon
  <2>7. UpToDate(p)'
    BY <1>9, <2>4, <2>5, <2>6, Zenon DEF UpToDate
  <2>8. ASSUME NEW i \in DOMAIN u, u[i].type = "signal"
        PROVE  Knows(u, v, i - 1, u[i].peer)
    <3>1. SignalsKnown(p)
      BY Zenon DEF RoomsInv
    <3>2. \A j \in DOMAIN w : w[j].type = "signal" => Knows(w, v, j - 1, w[j].peer)
      BY <2>1, <2>2, <3>1, Zenon DEF SignalsKnown
    <3>3. /\ i = Len(w) + 1 \/ (i \in DOMAIN w /\ u[i] = w[i])
          /\ u[Len(w) + 1] = m
      BY <1>8, <2>3, <2>8, Longer
    <3>4. i \in DOMAIN w /\ u[i] = w[i]
      BY <1>8, <2>8, <3>3, Zenon
    <3>5. QED BY <2>5, <2>8, <3>2, <3>4, Zenon
  <2>9. SignalsKnown(p)'
    BY <2>4, <2>8, Zenon DEF SignalsKnown
  <2>10. QED BY <2>7, <2>9, Zenon
<1>15. ASSUME NEW q \in Browser
       PROVE  s5'[q] \in Seq(Message) /\ UpToDate(q)' /\ SignalsKnown(q)'
  <2>1. CASE q = p
    <3>1. s5'[p] \in Seq(Message)
      BY <1>4, <1>8, <1>11 DEF RoomsTypes
    <3>2. QED BY <1>14, <2>1, <3>1, Zenon
  <2>2. CASE q # p
    <3>1. s2[q] \in RoomId \cup {Nil} /\ s6'[q] = s6[q] /\ s2'[p] = r
      BY <1>1, <1>4, <1>9, Zenon DEF RoomsTypes
    <3>2. s2[q] # Nil =>
            /\ \A x \in Browser : x # p /\ <<x, s2[q]>> \in s7 => <<x, s2[q]>> \in s7'
            /\ s2[q] # r /\ <<p, s2[q]>> \in s7 => <<p, s2[q]>> \in s7'
      BY <1>13, <3>1, Zenon
    <3>3. \/ /\ s5'[q] = s5[q]
             /\ s2[q] # Nil => /\ s2[p] # s2[q] /\ s2'[p] # s2[q]
                               /\ <<p, s2[q]>> \in s7 => <<p, s2[q]>> \in s7'
          \/ s5'[q] = Append(s5[q], Meeting!Left(p)) /\ s2'[p] # s2[q]
          \/ s5'[q] = Append(s5[q], Meeting!Joined(p)) /\ s2'[p] = s2[q]
      BY <1>12, <2>2, <3>1, <3>2, Zenon
    <3>4. QED BY <1>9, <2>2, <3>1, <3>2, <3>3, OthersHear, Zenon
  <2>3. QED BY <2>1, <2>2, Zenon
<1>16. s5' \in [Browser -> Seq(Message)]
  BY <1>2, <1>15, Zenon
<1>17. RoomsTypes'
  BY <1>1, <1>3, <1>4, <1>5, <1>9, <1>13, <1>16, Zenon DEF RoomsTypes
<1>18. ASSUME NEW q \in Browser
       PROVE  Subscribed(q)'
  <2>1. CASE q = p
    BY <1>1, <1>3, <1>6, <1>9, <1>13, <2>1, Zenon DEF Subscribed
  <2>2. CASE q # p
    BY <1>1, <1>4, <1>9, <1>13, <2>2, Zenon DEF Subscribed
  <2>3. QED BY <2>1, <2>2, Zenon
<1>19. QED BY <1>5, <1>15, <1>17, <1>18, Zenon DEF RoomsInv

LEMMA RoomsStep ==
  ASSUME RoomsInv, Meeting!Next \/ UNCHANGED <<s1, s2, s3, s4, s5, s6, s7, s8>>
  PROVE  RoomsInv'
<1>1. ASSUME NEW p \in Browser, NEW r \in RoomId, Meeting!joinRoom(p, r)
      PROVE  RoomsInv'
  <2>1. PICK a : a = Meeting!Without(s1, p)
    BY Zenon
  <2>2. CASE Meeting!isFull(a, r)
    BY <1>1, <2>1, <2>2, JoinFullKeeps, Zenon
  <2>3. CASE ~Meeting!isFull(a, r)
    BY <1>1, <2>1, <2>3, JoinKeeps, Zenon
  <2>4. QED BY <2>2, <2>3, Zenon
<1>2. CASE Meeting!Next
  BY <1>1, <1>2, OpenKeeps, LeaveRoomKeeps, CloseKeeps, ReadKeeps, SignalKeeps, Zenon
     DEF Meeting!Next
<1>3. CASE UNCHANGED <<s1, s2, s3, s4, s5, s6, s7, s8>>
  BY <1>3, Zenon DEF RoomsInv, RoomsTypes, Subscribed, UpToDate, SignalsKnown,
                     Meeting!RoomsAgree, Meeting!Members
<1>4. QED BY <1>2, <1>3, Zenon

\* What the invariant says of a peer that has read all, and of one whose next
\* message is a signal.
LEMMA RoomsHolds ==
  ASSUME RoomsInv
  PROVE  Meeting!TypeOK /\ Meeting!RoomsAgree /\ Meeting!ViewsAgree /\ Meeting!SenderKnown
<1>1. RoomsTypes /\ Meeting!RoomsAgree
  BY Zenon DEF RoomsInv
<1>2. Meeting!TypeOK
  <2>1. \A p \in Browser : s6[p].peers \subseteq Browser
    BY <1>1, Zenon DEF RoomsTypes, View
  <2>2. QED BY <1>1, <2>1, Zenon DEF RoomsTypes, Meeting!TypeOK
<1>3. ASSUME NEW w, NEW v, NEW x
      PROVE  (Knows(w, v, 0, x) <=> x \in v.peers) /\ (Enters(w, v, 0, x) <=> v.room = x)
  <2>1. 1..0 = {}
    OBVIOUS
  <2>2. QED BY <2>1, Zenon DEF Knows, Enters
<1>4. ASSUME NEW p \in Browser, s5[p] = <<>>, s2[p] # Nil
      PROVE  /\ s6[p].room = s2[p]
             /\ s6[p].peers \ {q \in Browser : <<q, s2[p]>> \in s7} = s1[s2[p]] \ {p}
  <2>1. PICK r \in RoomId : r = s2[p]
    BY <1>1, <1>4, Zenon DEF RoomsTypes
  <2>2. Len(s5[p]) = 0
    BY <1>4
  <2>3. UpToDate(p)
    BY Zenon DEF RoomsInv
  <2>4. /\ Enters(s5[p], s6[p], 0, r)
        /\ \A q \in Browser : <<q, r>> \notin s7 =>
             (Knows(s5[p], s6[p], 0, q) <=> q # p /\ s2[q] = r)
    BY <1>4, <2>1, <2>2, <2>3, Zenon DEF UpToDate
  <2>5. /\ s6[p].room = r
        /\ \A q \in Browser : <<q, r>> \notin s7 => (q \in s6[p].peers <=> q # p /\ s2[q] = r)
    BY <1>3, <2>4, Zenon
  <2>6. s6[p].peers \subseteq Browser
    BY <1>1, Zenon DEF RoomsTypes, View
  <2>7. s1[r] = {q \in Browser : s2[q] = r}
    <3>1. Meeting!Members(s1, r) = {q \in Browser : s2[q] = r}
      BY <1>1, Zenon DEF Meeting!RoomsAgree
    <3>2. p \in Meeting!Members(s1, r)
      BY <2>1, <3>1, Zenon
    <3>3. QED BY <3>1, <3>2, Zenon DEF Meeting!Members
  <2>8. \A q \in Browser : <<q, r>> \in s7 => s2[q] # r
    BY Zenon DEF RoomsInv, Subscribed
  <2>9. s6[p].peers \ {q \in Browser : <<q, r>> \in s7} = s1[r] \ {p}
    <3>1. ASSUME NEW q \in s6[p].peers, q \notin {x \in Browser : <<x, r>> \in s7}
          PROVE  q \in s1[r] \ {p}
      BY <2>5, <2>6, <2>7, <3>1, Zenon
    <3>2. ASSUME NEW q \in s1[r], q # p
          PROVE  q \in s6[p].peers /\ q \notin {x \in Browser : <<x, r>> \in s7}
      BY <2>5, <2>7, <2>8, <3>2, Zenon
    <3>3. QED BY <3>1, <3>2, Zenon
  <2>10. QED BY <2>1, <2>5, <2>9, Zenon
<1>5. Meeting!ViewsAgree
  BY <1>4, Zenon DEF Meeting!ViewsAgree
<1>6. ASSUME NEW p \in Browser, s5[p] # <<>>, Head(s5[p]).type = "signal"
      PROVE  Head(s5[p]).peer \in s6[p].peers
  <2>1. SignalsKnown(p) /\ s5[p] \in Seq(Message)
    BY <1>1, Zenon DEF RoomsInv, RoomsTypes
  <2>2. 1 \in DOMAIN s5[p] /\ Head(s5[p]) = s5[p][1] /\ 1 - 1 = 0
    BY <1>6, <2>1
  <2>3. Knows(s5[p], s6[p], 0, s5[p][1].peer)
    BY <1>6, <2>1, <2>2, Zenon DEF SignalsKnown
  <2>4. QED BY <1>3, <2>2, <2>3
<1>7. Meeting!SenderKnown
  BY <1>6, Zenon DEF Meeting!SenderKnown
<1>8. QED BY <1>1, <1>2, <1>5, <1>7, Zenon

MeetingInv == part = "rooms" => RoomsInv

LEMMA MeetingStart == MeetingInit => MeetingInv
BY RoomsInit, Zenon DEF MeetingInit, MeetingInv

LEMMA MeetingStep == MeetingInv /\ [MeetingNext]_<<part, slots>> => MeetingInv'
<1>1. [MeetingNext]_<<part, slots>> =>
        /\ part' = part
        /\ part = "rooms" => Meeting!Next \/ UNCHANGED <<s1, s2, s3, s4, s5, s6, s7, s8>>
  BY Zenon DEF MeetingNext, slots
<1>2. QED BY <1>1, RoomsStep, Zenon DEF MeetingInv

\* Rooms and reverse lookup agree, and a peer that has read its messages knows
\* the room-mates it has, but for those a full room turned away (joinRoom,
\* leaveRoom, close, executeActions).
THEOREM ViewsCorrect == MeetingSpec => []ViewsAgree
<1>1. MeetingInv => ViewsAgree
  BY RoomsHolds, Zenon DEF MeetingInv, ViewsAgree
<1>2. QED BY <1>1, MeetingStart, MeetingStep, PTL DEF MeetingSpec

\* A signal is read by a peer that knows its sender as a room-mate, whatever
\* was on its way when it was sent (handleMessage, arePeersInSameRoom).
THEOREM SendersKnown == MeetingSpec => []SenderKnown
<1>1. MeetingInv => SenderKnown
  BY RoomsHolds, Zenon DEF MeetingInv, SenderKnown
<1>2. QED BY <1>1, MeetingStart, MeetingStep, PTL DEF MeetingSpec

\* The rooms, the reverse lookup and what peers were told keep their types
\* (RoomManager, handleMessage).
THEOREM MeetingTypes == MeetingSpec => []MeetingTypeOK
<1>1. MeetingInv => MeetingTypeOK
  BY RoomsHolds, Zenon DEF MeetingInv, MeetingTypeOK
<1>2. QED BY <1>1, MeetingStart, MeetingStep, PTL DEF MeetingSpec

-----------------------------------------------------------------------------
(* What hello shows of the mesh.                                           *)

CONSTANTS Order, Request, None, Torn, MaxVersion
VARIABLES version, clones, tmp, file, stat, cache

Hello == INSTANCE Projection

\* What the proof assumes of the constants: finitely many requests, whatever
\* their number, any order of the stores, and marks that are no content.
ProjectionParams ==
  /\ IsFiniteSet(Request)
  /\ Order \in Seq(Hello!Store)
  /\ MaxVersion \in Nat
  /\ None \notin Hello!Body /\ None \notin Hello!Time
  /\ Torn \notin Hello!Body /\ Torn # None

\* A content with its time, or none.
Copy == [mtime : Hello!Time \cup {None}, body : Hello!Body \cup {None}]

\* The inductive invariant: a file has a time if and only if it has a content,
\* and nothing is cached under a time before there is a file.
ProjectionInv ==
  /\ version \in Hello!Body
  /\ clones \in Seq(0..MaxVersion)
  /\ tmp \in Hello!Body \cup {None}
  /\ file \in Copy /\ cache \in Copy
  /\ file.mtime = None <=> file.body = None
  /\ file.mtime = None => cache.mtime = None
  /\ stat \in [Request -> {<<>>} \cup {<<t>> : t \in Hello!Time \cup {None}}]
  /\ Hello!CacheCurrent

\* The times in use are fewer than the times there are, so that a new one exists.
LEMMA NewTimeNew ==
  ASSUME ProjectionParams, ProjectionInv
  PROVE  Hello!NewTime \in Hello!Time /\ Hello!NewTime # cache.mtime
<1> DEFINE Held(r) == IF stat[r] = <<>> THEN file.mtime ELSE Head(stat[r])
           held == {Held(r) : r \in Request}
           used == {file.mtime, cache.mtime} \cup UNION {Hello!Range(stat[r]) : r \in Request}
           size == Cardinality(Request)
           most == (held \cup {file.mtime}) \cup {cache.mtime}
<1>1. IsFiniteSet(Request) /\ size \in Nat
  BY FS_CardinalityType, Zenon DEF ProjectionParams
<1>2. IsFiniteSet(held) /\ Cardinality(held) <= size
  <2> DEFINE f == [r \in Request |-> Held(r)]
  <2> HIDE DEF Held
  <2>1. f \in Surjection(Request, held)
    BY Zenon DEF Surjection
  <2> HIDE DEF f, held
  <2>2. QED BY <1>1, <2>1, FS_Surjection, Zenon
<1>3. IsFiniteSet(most) /\ Cardinality(most) <= size + 2
  <2> HIDE DEF held, Held, size
  <2> DEFINE one == held \cup {file.mtime}
  <2>1. /\ IsFiniteSet(one)
        /\ Cardinality(one) \in {Cardinality(held), Cardinality(held) + 1}
    BY <1>2, FS_AddElement, Zenon
  <2> HIDE DEF one
  <2>2. /\ IsFiniteSet(one \cup {cache.mtime})
        /\ Cardinality(one \cup {cache.mtime}) \in {Cardinality(one), Cardinality(one) + 1}
    BY <2>1, FS_AddElement, Zenon
  <2>3. Cardinality(held) \in Nat
    BY <1>2, FS_CardinalityType, Zenon
  <2>4. Cardinality(one \cup {cache.mtime}) <= size + 2
    BY <1>1, <1>2, <2>1, <2>2, <2>3
  <2>5. QED BY <2>2, <2>4, Zenon DEF one
<1>4. used \subseteq most
  <2>1. \A r \in Request : Hello!Range(stat[r]) \subseteq held
    <3> SUFFICES ASSUME NEW r \in Request PROVE Hello!Range(stat[r]) \subseteq held
      BY Zenon
    <3>1. stat[r] = <<>> \/ \E t \in Hello!Time \cup {None} : stat[r] = <<t>>
      BY Zenon DEF ProjectionInv
    <3>2. CASE stat[r] = <<>>
      BY <3>2 DEF Hello!Range
    <3>3. CASE \E t \in Hello!Time \cup {None} : stat[r] = <<t>>
      <4>1. PICK t \in Hello!Time \cup {None} : stat[r] = <<t>>
        BY <3>3, Zenon
      <4>2. Held(r) = t
        BY <4>1
      <4>3. Hello!Range(stat[r]) = {t}
        BY <4>1 DEF Hello!Range
      <4> HIDE DEF Held
      <4>4. QED BY <4>2, <4>3, Zenon
    <3>4. QED BY <3>1, <3>2, <3>3, Zenon
  <2> HIDE DEF held
  <2>2. QED BY <2>1, Zenon
<1>5. \E t \in Hello!Time : t \notin used
  <2> SUFFICES ASSUME Hello!Time \subseteq used PROVE FALSE
    BY Zenon
  <2> HIDE DEF most, held, Held, used
  <2>1. Hello!Time \subseteq most
    BY <1>4, Zenon
  <2>2. Cardinality(Hello!Time) <= Cardinality(most)
    BY <1>3, <2>1, FS_Subset, Zenon
  <2>3. Cardinality(Hello!Time) = size + 3
    <3> HIDE DEF size
    <3>1. Hello!Time = 1..(size + 3)
      <4>1. Hello!Cardinality(Request) = Cardinality(Request)
        BY Zenon DEF Hello!Cardinality, Cardinality
      <4>2. QED BY <4>1, Zenon DEF Hello!Time, size
    <3>2. \A b \in Int : Cardinality(1..b) = IF 1 > b THEN 0 ELSE b - 1 + 1
      BY FS_Interval
    <3>3. QED BY <1>1, <3>1, <3>2
  <2>4. Cardinality(most) \in Nat
    BY <1>3, FS_CardinalityType, Zenon
  <2> HIDE DEF size
  <2>5. QED BY <1>1, <1>3, <2>2, <2>3, <2>4
<1>6. Hello!NewTime \in Hello!Time /\ Hello!NewTime \notin used
  <2>1. Hello!NewTime = CHOOSE t \in Hello!Time : t \notin used
    BY Zenon DEF Hello!NewTime
  <2> HIDE DEF used
  <2>2. QED BY <1>5, <2>1, Zenon
<1>7. cache.mtime \in used
  BY Zenon
<1> HIDE DEF used
<1>8. QED BY <1>6, <1>7, Zenon

\* A snapshot of all the clones is a whole content.
LEMMA BuildRight ==
  ASSUME ProjectionParams, NEW cs \in Seq(0..MaxVersion), Len(cs) = Len(Order)
  PROVE  Hello!build_directory_snapshot(cs) \in Hello!Body
<1>1. DOMAIN Order = DOMAIN cs /\ \A i \in DOMAIN cs : cs[i] \in 0..MaxVersion
  BY DEF ProjectionParams
<1>2. \A s \in Hello!Store : \E i \in DOMAIN Order : Order[i] = s
  BY Zenon DEF Hello!Store, Hello!Range
<1>3. \A s \in Hello!Store : cs[CHOOSE i \in DOMAIN Order : Order[i] = s] \in 0..MaxVersion
  BY <1>1, <1>2, Zenon
<1>4. QED BY <1>3, Zenon DEF Hello!build_directory_snapshot, Hello!Body

\* Every step of the daemon and of hello keeps the invariant.
LEMMA ProjectionStep ==
  ASSUME ProjectionParams, ProjectionInv, [Hello!Next]_Hello!vars
  PROVE  ProjectionInv'
<1>0. /\ version \in Hello!Body /\ clones \in Seq(0..MaxVersion) /\ tmp \in Hello!Body \cup {None}
      /\ file \in Copy /\ cache \in Copy /\ (file.mtime = None <=> file.body = None)
      /\ file.mtime = None => cache.mtime = None
      /\ stat \in [Request -> {<<>>} \cup {<<t>> : t \in Hello!Time \cup {None}}]
      /\ (cache.mtime = file.mtime => cache.body = file.body)
  BY Zenon DEF ProjectionInv, Hello!CacheCurrent
<1>1. ASSUME NEW s \in Hello!Store, Hello!Change(s) PROVE ProjectionInv'
  <2>1. version[s] \in 0..MaxVersion /\ version[s] < MaxVersion
        /\ version' = [version EXCEPT ![s] = @ + 1]
    BY <1>0, <1>1, Zenon DEF Hello!Change, Hello!Body
  <2>2. version[s] + 1 \in 0..MaxVersion
    BY <2>1 DEF ProjectionParams
  <2>3. version' \in Hello!Body
    BY <1>0, <2>1, <2>2, Zenon DEF Hello!Body
  <2>4. UNCHANGED <<clones, tmp, file, stat, cache>>
    BY <1>1, Zenon DEF Hello!Change
  <2>5. QED BY <1>0, <2>3, <2>4, Zenon DEF ProjectionInv, Hello!CacheCurrent, Copy, Hello!Body,
       Hello!Time, Hello!Store
<1>2. CASE Hello!CloneNext
  <2>1. /\ Len(clones) < Len(Order) /\ clones' = Append(clones, version[Order[Len(clones) + 1]])
        /\ UNCHANGED <<version, tmp, file, stat, cache>>
    BY <1>2, Zenon DEF Hello!CloneNext
  <2>2. Order[Len(clones) + 1] \in Hello!Store
    BY <1>0, <2>1 DEF ProjectionParams
  <2>3. version[Order[Len(clones) + 1]] \in 0..MaxVersion
    BY <1>0, <2>2, Zenon DEF Hello!Body
  <2>4. clones' \in Seq(0..MaxVersion)
    BY <1>0, <2>1, <2>3
  <2>5. QED BY <1>0, <2>1, <2>4, Zenon DEF ProjectionInv, Hello!CacheCurrent, Copy, Hello!Body,
       Hello!Time, Hello!Store
<1>3. CASE Hello!WriteTmp
  <2>1. /\ tmp' = Hello!build_directory_snapshot(clones) /\ Len(clones) = Len(Order)
        /\ UNCHANGED <<version, clones, file, stat, cache>>
    BY <1>3, Zenon DEF Hello!WriteTmp
  <2>2. tmp' \in Hello!Body
    BY <1>0, <2>1, BuildRight, Zenon
  <2>3. QED BY <1>0, <2>1, <2>2, Zenon DEF ProjectionInv, Hello!CacheCurrent, Copy, Hello!Body,
       Hello!Time, Hello!Store
<1>4. CASE Hello!RenameTmp
  <2>1. /\ tmp # None /\ tmp' = None /\ clones' = <<>> /\ UNCHANGED <<version, stat, cache>>
        /\ file' = [mtime |-> Hello!NewTime, body |-> tmp] \/ UNCHANGED file
    BY <1>4, Zenon DEF Hello!RenameTmp
  <2>2. clones' \in Seq(0..MaxVersion)
    BY <2>1
  <2>3. CASE file' = [mtime |-> Hello!NewTime, body |-> tmp]
    <3>1. Hello!NewTime \in Hello!Time /\ Hello!NewTime # cache.mtime
      BY NewTimeNew, Zenon
    <3>2. /\ file'.mtime = Hello!NewTime /\ file'.body = tmp /\ tmp \in Hello!Body
          /\ file' \in Copy /\ Hello!NewTime # None
      BY <1>0, <2>1, <2>3, <3>1, Zenon DEF Copy, ProjectionParams
    <3>3. QED BY <1>0, <2>1, <2>2, <3>1, <3>2, Zenon
                 DEF ProjectionInv, Hello!CacheCurrent, Copy, Hello!Body, Hello!Time, Hello!Store
  <2>4. CASE UNCHANGED file
    BY <1>0, <2>1, <2>2, <2>4, Zenon DEF ProjectionInv, Hello!CacheCurrent, Copy, Hello!Body,
         Hello!Time, Hello!Store
  <2>5. QED BY <2>1, <2>3, <2>4, Zenon
<1>5. ASSUME NEW r \in Request, Hello!Stat(r) PROVE ProjectionInv'
  <2>1. /\ stat' = [stat EXCEPT ![r] = <<file.mtime>>]
        /\ UNCHANGED <<version, clones, tmp, file, cache>>
    BY <1>5, Zenon DEF Hello!Stat
  <2>2. file.mtime \in Hello!Time \cup {None}
    BY <1>0, Zenon DEF Copy
  <2>3. stat' \in [Request -> {<<>>} \cup {<<t>> : t \in Hello!Time \cup {None}}]
    BY <1>0, <2>1, <2>2, Zenon
  <2>4. QED BY <1>0, <2>1, <2>3, Zenon DEF ProjectionInv, Hello!CacheCurrent, Copy, Hello!Body,
       Hello!Time, Hello!Store
<1>6. ASSUME NEW r \in Request, Hello!read_cached(r) PROVE ProjectionInv'
  <2> DEFINE t == Head(stat[r])
  <2>1. /\ stat[r] # <<>> /\ stat' = [stat EXCEPT ![r] = <<>>]
        /\ UNCHANGED <<version, clones, tmp, file>>
    BY <1>6, Zenon DEF Hello!read_cached
  <2>2. t \in Hello!Time \cup {None}
    <3>1. PICK u \in Hello!Time \cup {None} : stat[r] = <<u>>
      BY <1>0, <2>1, Zenon
    <3>2. t = u
      BY <3>1
    <3>3. QED BY <3>2, Zenon
  <2>3. stat' \in [Request -> {<<>>} \cup {<<u>> : u \in Hello!Time \cup {None}}]
    BY <1>0, <2>1, Zenon
  <2>4. \/ cache' = cache
        \/ file.body # None /\ cache' = [mtime |-> t, body |-> file.body]
    BY <1>6, Zenon DEF Hello!read_cached, Hello!Refreshed
  <2> HIDE DEF t
  <2>5. CASE cache' = cache
    BY <1>0, <2>1, <2>3, <2>5, Zenon DEF ProjectionInv, Hello!CacheCurrent, Copy, Hello!Body,
         Hello!Time, Hello!Store
  <2>6. CASE file.body # None /\ cache' = [mtime |-> t, body |-> file.body]
    <3>1. cache'.mtime = t /\ cache'.body = file.body /\ file.body \in Hello!Body /\ cache' \in Copy
      BY <1>0, <2>2, <2>6, Zenon DEF Copy
    <3>2. QED BY <1>0, <2>1, <2>3, <2>6, <3>1, Zenon
                 DEF ProjectionInv, Hello!CacheCurrent, Copy, Hello!Body, Hello!Time, Hello!Store
  <2>7. QED BY <2>4, <2>5, <2>6, Zenon
<1>7. CASE UNCHANGED Hello!vars
  BY <1>0, <1>7, Zenon DEF Hello!vars, ProjectionInv, Hello!CacheCurrent, Copy, Hello!Body,
       Hello!Time, Hello!Store
<1>8. QED BY <1>1, <1>2, <1>3, <1>4, <1>5, <1>6, <1>7, Zenon DEF Hello!Next

\* What hello takes for current is current, and whole, for any number of
\* requests at a time and of stores (persist_directory, read_cached).
THEOREM ProjectionShown ==
  ASSUME ProjectionParams
  PROVE  Hello!Spec => [](Hello!CacheCurrent /\ Hello!ServedWhole)
<1>1. Hello!Init => ProjectionInv
  <2> SUFFICES ASSUME Hello!Init PROVE ProjectionInv
    BY Zenon
  <2>1. 0 \in 0..MaxVersion
    BY DEF ProjectionParams
  <2>2. version \in Hello!Body /\ tmp = None
    BY <2>1, Zenon DEF Hello!Init, Hello!Body
  <2>3. clones \in Seq(0..MaxVersion)
    BY DEF Hello!Init
  <2>4. file \in Copy /\ cache \in Copy /\ file = cache /\ file.mtime = None /\ file.body = None
    BY Zenon DEF Hello!Init, Copy
  <2>5. stat \in [Request -> {<<>>} \cup {<<t>> : t \in Hello!Time \cup {None}}]
    BY Zenon DEF Hello!Init
  <2>6. QED BY <2>2, <2>3, <2>4, <2>5, Zenon DEF ProjectionInv, Hello!CacheCurrent
<1>2. ProjectionInv /\ [Hello!Next]_Hello!vars => ProjectionInv'
  BY ProjectionStep, Zenon
<1>3. ProjectionInv => Hello!CacheCurrent /\ Hello!ServedWhole
  BY Zenon DEF ProjectionInv, Hello!ServedWhole, Copy, ProjectionParams
<1>4. QED BY <1>1, <1>2, <1>3, PTL DEF Hello!Spec

=============================================================================
