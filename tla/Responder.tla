----------------------------- MODULE Responder -----------------------------
(***************************************************************************)
(* The .mesh DNS responder: one query at a time walks the well-known       *)
(* names, the service directory (hiding services of silent owners) and the *)
(* leased names, each under a lock of its own, while the rest of the       *)
(* daemon changes what they hold.                                          *)
(***************************************************************************)
EXTENDS Naturals

CONSTANTS
  Reserved,    \* names of the mesh itself
  Published,   \* names services are published under
  Leasable,    \* names clients lease
  Owner,       \* nodes that own services
  Kind,        \* record types entries have data of, "A", "SRV" and "TXT"
  Gateway,     \* gateway addresses this node may come to have
  MaxChanges,  \* bound: changes of the tables
  None

Name == Reserved \cup Published \cup Leasable
QType == Kind \cup {"other"}

\* What an entry has: an IPv4 address, a port other than 0, attributes.
Entry == [owner : Owner, has : SUBSET Kind]
Lease == [has : SUBSET (Kind \ {"TXT"})]

VARIABLES
  gateway,  \* the gateway address of the client subnet, or None
  book,     \* the service directory
  stale,    \* owners whose beacon is overdue
  leased,   \* leased names renewed recently
  query,    \* the query being answered, or None
  pc,       \* the table being asked, and whether for data or existence
  got,      \* what was read of it so far
  reply,    \* the last reply sent
  held,     \* every outcome that was right at some moment of the query
  during,   \* changes of the tables since the query came
  changes

tables == <<gateway, book, stale, leased>>
vars == <<tables, query, pc, got, reply, held, during, changes>>

NXDOMAIN == [kind |-> "nxdomain", of |-> None]
NODATA == [kind |-> "nodata", of |-> None]
Data(x) == [kind |-> "data", of |-> x]
PRE_CLAIM_GATEWAY == "192.168.1.1"
current_gateway == [gateway |-> IF gateway = None THEN PRE_CLAIM_GATEWAY ELSE gateway]

\* The reference: what the tables hold for q, read at once.
Right(q) ==
  LET live == q.name \in Published /\ book[q.name] # None /\ book[q.name].owner \notin stale
      lent == q.name \in Leasable /\ leased[q.name] # None
  IN IF q.name \in Reserved
       THEN IF q.type = "A" THEN Data(current_gateway) ELSE NODATA
       ELSE CASE live /\ q.type \in book[q.name].has -> Data(book[q.name])
              [] ~(live /\ q.type \in book[q.name].has) /\ lent /\ q.type \in leased[q.name].has
                   -> Data(leased[q.name])
              [] OTHER -> IF live \/ lent THEN NODATA ELSE NXDOMAIN

Init ==
  /\ gateway = None
  /\ book = [n \in Published |-> None]
  /\ stale = {}
  /\ leased = [n \in Leasable |-> None]
  /\ query = None /\ pc = "recv" /\ got = None /\ reply = NXDOMAIN
  /\ held = {} /\ during = 0
  /\ changes = 0

-----------------------------------------------------------------------------
(* The rest of the daemon.                                                 *)

\* The outcome that is right after a change is also one that was right.
Remember == /\ held' = IF query = None THEN {} ELSE held \cup {Right(query)'}
            /\ during' = IF query = None THEN 0 ELSE during + 1

Change(A) ==
  /\ changes < MaxChanges /\ changes' = changes + 1
  /\ A
  /\ UNCHANGED <<query, pc, got, reply>>
  /\ Remember

Gateways == \E g \in Gateway \cup {None} : gateway' = g /\ UNCHANGED <<book, stale, leased>>
Services == \E n \in Published, e \in Entry \cup {None} :
              book' = [book EXCEPT ![n] = e] /\ UNCHANGED <<gateway, stale, leased>>
Beacons == \E s \in SUBSET Owner : stale' = s /\ UNCHANGED <<gateway, book, leased>>
Leases == \E n \in Leasable, e \in Lease \cup {None} :
            leased' = [leased EXCEPT ![n] = e] /\ UNCHANGED <<gateway, book, stale>>

-----------------------------------------------------------------------------
(* One query.                                                              *)

\* recv_loop hands a packet that parses to handle_query.
recv_loop(q) ==
  /\ pc = "recv"
  /\ query' = q /\ pc' = "well known" /\ got' = None
  /\ held' = {Right(q)} /\ during' = 0
  /\ UNCHANGED <<tables, reply, changes>>

Goes(next, x) ==
  /\ pc' = next /\ got' = x
  /\ UNCHANGED <<tables, query, reply, held, during, changes>>

\* WellKnownTable::lookup_a, the first of the tables.
WellKnownTable ==
  /\ pc = "well known"
  /\ IF query.name \in Reserved /\ query.type = "A"
       THEN Goes("reply", Data(current_gateway))
       ELSE Goes("book", None)

\* get_if_live: the value and its owner under the lock of the book...
ServiceRead ==
  /\ pc \in {"book", "exists"}
  /\ LET found == query.name \in Published /\ book[query.name] # None
     IN IF pc = "exists" /\ query.name \in Reserved THEN Goes("reply", NODATA)
        ELSE IF found
          THEN Goes(IF pc = "book" THEN "owner" ELSE "owner exists", book[query.name])
          ELSE Goes(IF pc = "book" THEN "leased" ELSE "leased exists", None)

\* Mutant: what was read is handed out without asking for its owner.
OwnerForgotten ==
  /\ pc \in {"owner", "owner exists"}
  /\ CASE pc = "owner exists" -> Goes("reply", NODATA)
       [] pc = "owner" /\ query.type \in got.has -> Goes("reply", Data(got))
       [] OTHER -> Goes("leased", None)

\* ... and then, without it, whether that owner is silent.
owner_stale ==
  /\ pc \in {"owner", "owner exists"}
  /\ CASE got.owner \in stale ->
            Goes(IF pc = "owner" THEN "leased" ELSE "leased exists", None)
       [] got.owner \notin stale /\ pc = "owner exists" -> Goes("reply", NODATA)
       [] got.owner \notin stale /\ pc = "owner" ->
            IF query.type \in got.has THEN Goes("reply", Data(got)) ELSE Goes("leased", None)

\* LeasedNameTable, the last one; a name no table has data for is asked again.
LeasedNameTable ==
  /\ pc \in {"leased", "leased exists"}
  /\ LET found == query.name \in Leasable /\ leased[query.name] # None
     IN CASE pc = "leased exists" -> Goes("reply", IF found THEN NODATA ELSE NXDOMAIN)
          [] OTHER ->
               IF found /\ query.type \in leased[query.name].has
                 THEN Goes("reply", Data(leased[query.name])) ELSE Goes("exists", None)

\* The reply is sent, unless it does not fit a packet.
handle_query ==
  /\ pc = "reply"
  /\ pc' = "recv" /\ query' = None /\ held' = {} /\ during' = 0
  /\ reply' \in {got, reply}
  /\ UNCHANGED <<tables, got, changes>>

Next ==
  \/ Change(Gateways) \/ Change(Services) \/ Change(Beacons) \/ Change(Leases)
  \/ \E q \in [name : Name, type : QType] : recv_loop(q)
  \/ WellKnownTable \/ ServiceRead \/ owner_stale \/ LeasedNameTable \/ handle_query

Spec == Init /\ [][Next]_vars

-----------------------------------------------------------------------------
(* Properties.                                                             *)

\* The values the variables take.
TypeOK ==
  /\ gateway \in Gateway \cup {None}
  /\ book \in [Published -> Entry \cup {None}]
  /\ stale \subseteq Owner
  /\ leased \in [Leasable -> Lease \cup {None}]
  /\ reply.kind \in {"data", "nodata", "nxdomain"}

\* Although the tables are read one after the other and one of them may change
\* meanwhile, an answer is never one that was wrong all along: data sent for a
\* query, and the claim that a name does not exist, were right at some moment of
\* it.  (Two changes are too many: an entry read while its owner was silent is
\* answered if it is replaced before the owner is heard again.)
AnswerWasRight ==
  pc = "reply" /\ got.kind # "nodata" /\ during <= 1 => got \in held

\* The port a name answers belongs to the host its address answers.
SrvBesideA ==
  \A n \in Name :
    LET a == Right([name |-> n, type |-> "A"])
        srv == Right([name |-> n, type |-> "SRV"])
    IN a.kind = "data" /\ srv.kind = "data" => a = srv
=============================================================================
