----------------------------- MODULE MCOverlay -----------------------------
(* An instance of Overlay for TLC: two peers at their derived addresses. *)
EXTENDS Overlay

DerivedAddr == [p \in Peer |-> IF p = "p" THEN "a" ELSE "b"]
SecondAddr == [p \in Peer |-> "c"]
=============================================================================
