------------------------------ MODULE MCRouter ------------------------------
(***************************************************************************)
(* Safety of the parts of a router, side by side on small instances: the   *)
(* last-write-wins books, the parts of NamesParts, NetworkParts,           *)
(* MeshctlParts and BrowserParts, and the subnet allocator.  A behaviour   *)
(* follows the books or one part.                                          *)
(***************************************************************************)
EXTENDS Books, Allocator, NamesParts, NetworkParts, MeshctlParts, BrowserParts

\* The seed file of node 2 names a user who may also register at node 1.
Seeds == [n \in Node |-> IF n = 2 THEN User ELSE {}]

\* Each key claims names at the desk of its own node.
OwnDesk == [c \in {"a", "b"} |-> IF c = "a" THEN {1} ELSE {2}]

\* Each node publishes once and unpublishes once.
Once == [n \in Node |-> 1]

AddrOf == [p \in {"p", "q"} |-> IF p = "p" THEN "a" ELSE "b"]

Kinds == <<"veth", "port", "nat">>
TaggedKinds == <<"nat">>
KindNeeds == [k \in {"veth", "port", "nat"} |-> IF k = "port" THEN {"veth"} ELSE {}]

\* A listener and its connector.
TwoRouters == <<"l", "c">>
Dials == [r \in {"l", "c"} |-> IF r = "c" THEN "l" ELSE Nil]

\* Room b is full with one peer.
RoomSize == [r \in {"a", "b"} |-> IF r = "a" THEN 2 ELSE 1]

-----------------------------------------------------------------------------
PartInit ==
  \/ NamesInit
  \/ NetworkInit
  \/ MeshctlInit
  \/ MeetingInit

PartNext ==
  \/ NamesNext
  \/ NetworkNext
  \/ MeshctlNext
  \/ MeetingNext

SlotsIdle == /\ s1 = Nil /\ s2 = Nil /\ s3 = Nil /\ Idle4 /\ Idle7 /\ Idle11
BooksIdle == lane = "service" /\ Init

RunInit ==
  /\ AllocInit
  /\ \/ part = "books" /\ Init /\ SlotsIdle
     \/ part = "allocator" /\ BooksIdle /\ SlotsIdle
     \/ PartInit /\ BooksIdle

RunNext ==
  \/ part = "books" /\ Next /\ UNCHANGED <<part, slots, allocVars>>
  \/ part = "allocator" /\ AllocNext /\ UNCHANGED <<part, slots, vars>>
  \/ PartNext /\ UNCHANGED <<vars, allocVars>>

RunSpec == RunInit /\ [][RunNext]_<<vars, allocVars, part, slots>>

\* Once no restart is left, nobody reads a file of the books any more: files
\* are left out, and of the snapshots that will be saved what they hold.  So
\* is the last reading of a clock that may show anything next.
Unsaved == {<<n, t>> \in Node \X Task : snap[n][t] # None}
LiveView == <<lane, book, inbox, [n \in Node \ Jumpy |-> wall[n]], restarts, written, allocVars, part, slots,
              IF restarts < MaxRestarts THEN <<file, snap>> ELSE Unsaved>>

\* The values the variables of the part take.
PartTypeOK == NamesTypeOK /\ NetworkTypeOK /\ MeshctlTypeOK /\ MeetingTypeOK
=============================================================================
