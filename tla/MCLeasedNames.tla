--------------------------- MODULE MCLeasedNames ---------------------------
(***************************************************************************)
(* LeasedNames with a record of what every book was given, for the claim   *)
(* that the order of arrival does not matter.  No daemon restarts.         *)
(***************************************************************************)
EXTENDS LeasedNames

VARIABLE heard   \* every <<name, lease>> that n has applied to its book

\* Client c posts its claims to node 2, the others to node 1.
SplitDesk == [k \in Client |-> IF k = "c" THEN {2} ELSE {1}]

Hears(n, x, e) == heard' = [heard EXCEPT ![n] = @ \cup {<<x, e>>}]

HeardInit == Init /\ heard = [n \in Node |-> {}]
HeardNext ==
  \E n \in Node :
    \/ \E c \in Client, x \in Name : Claim(n, c, x) /\ Hears(n, x, NewLease(n, c, x))
    \/ \E m \in inbox[n] : Deliver(n, m) /\ Hears(n, m.name, m.entry)
    \/ \E t \in 0..MaxTime : Wait(n, t) /\ UNCHANGED heard
HeardSpec == HeardInit /\ [][HeardNext]_<<vars, heard>>

\* leased_name.rs says of the merge that it is deterministic regardless of the
\* order in which records arrive, so that every node converges: two nodes that
\* applied the same leases of a name hold the same one.
SameLeasesSameOwner ==
  \A n, m \in Node : heard[n] = heard[m] => names[n] = names[m]
=============================================================================
