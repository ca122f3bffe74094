----------------------------- MODULE NewestWins -----------------------------
(***************************************************************************)
(* What every last-write-wins book of a mesh promises: each node keeps one *)
(* record per key, a record is stamped by the node that wrote it and is    *)
(* then never altered, and the record a node keeps is only ever replaced   *)
(* by a newer one.  A restart may take a node back to older records, and   *)
(* to none; it never makes up a record.  A node whose clock is set back    *)
(* still replaces what it says of itself.                                  *)
(***************************************************************************)
EXTENDS Hlc

CONSTANTS Jumpy,  \* nodes whose clock may be set back
          Key,    \* what the records are about
          Value,  \* what a record says
          None    \* no record

Entry == [val : Value, at : HLC]

VARIABLES written,   \* every <<key, entry>> some node wrote so far
          copy,      \* the record each node keeps for each key
          lives      \* how often a node started again

\* e replaces the record r a node keeps.
Newer(r, e) == r = None \/ HlcLess(r.at, e.at)

\* What n says of itself need not be stamped in order.
Unordered(n, k) == n \in Jumpy /\ k = n

\* A node holds nothing at first, or records of an earlier life.
Init == /\ lives = 0
        /\ written \subseteq Key \X Entry
        /\ copy \in [Node -> [Key -> Entry \cup {None}]]
        /\ \A n \in Node, k \in Key : \/ copy[n][k] = None
                                     \/ <<k, copy[n][k]>> \in written

Others(n) == \A m \in Node \ {n} : copy'[m] = copy[m]

\* Node n writes records of its own, or learns records others wrote.
Advance(n) ==
  /\ Others(n) /\ UNCHANGED lives
  /\ written \subseteq written'
  /\ \A w \in written' \ written : w[2].at.node_id = n
  /\ \A k \in Key : \/ copy'[n][k] = copy[n][k]
                    \/ /\ <<k, copy'[n][k]>> \in written'
                       /\ Newer(copy[n][k], copy'[n][k]) \/ Unordered(n, k)

\* Node n starts again with what it had saved.
Reboot(n) ==
  /\ Others(n) /\ lives' = lives + 1
  /\ UNCHANGED written
  /\ \A k \in Key : \/ copy'[n][k] \in {copy[n][k], None}
                    \/ /\ <<k, copy'[n][k]>> \in written
                       /\ \/ copy[n][k] # None /\ HlcLess(copy'[n][k].at, copy[n][k].at)
                          \/ Unordered(n, k)

Next == \E n \in Node : Advance(n) \/ Reboot(n)

Spec == Init /\ [][Next]_<<written, copy, lives>>
=============================================================================
