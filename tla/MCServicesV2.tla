---------------------------- MODULE MCServicesV2 ----------------------------
(* Instances of ServicesV2 for TLC. *)
EXTENDS ServicesV2

Each(k) == [n \in Node |-> k]
Never == Each(0)
Once == Each(1)
Twice == Each(2)
OnlyFirst == [n \in Node |-> IF n = 1 THEN 1 ELSE 0]
FirstTwice == [n \in Node |-> IF n = 1 THEN 2 ELSE 0]

=============================================================================
