---------------------------- MODULE MeshctlApply ----------------------------
(***************************************************************************)
(* meshctl apply: a session observes a RouterOS router over SSH resource   *)
(* by resource, derives the changes, runs them one by one and observes     *)
(* again.  An SSH command may fail before it ran or after; other sessions  *)
(* and people change the router meanwhile.                                 *)
(***************************************************************************)
EXTENDS Integers, Sequences

CONSTANTS
  Session,     \* runs of meshctl on this router
  Order,       \* the kinds of resource, in the order of desired_resources
  Needs,       \* kinds that must exist before one of a kind can be added
  Paths,       \* the kinds owned by their comment, in the order of their paths
  Overlap,     \* sessions may overlap
  MaxItems,    \* bound: items of one kind
  MaxFails,    \* bound: SSH commands that fail
  MaxEdits     \* bound: changes made by hand

Kind == {Order[i] : i \in DOMAIN Order}

\* Of a kind that is owned by its comment any number may exist.
Tagged == {Paths[i] : i \in DOMAIN Paths}

\* What a query for a kind finds: items as desired, and items that differ.
Item == {"want", "drift"}
Found(k) == UNION {[1..n -> Item] : n \in 0..(IF k \in Tagged THEN MaxItems ELSE 1)}

VARIABLES
  live,      \* per kind, the items on the router that carry its identity
  left,      \* kinds with an item of an earlier desired state
  pc,        \* per session: "idle", "observe", "change" or "done"
  at,        \* per session: the next kind to observe, then the next path to scan
  plan,      \* per session: changes to run, in order
  failed,    \* per session: a change failed
  report,    \* per session: "none", "converged", "not converged" or "error"
  clean,     \* per session: nothing failed and nobody interfered
  fails, edits

session == <<pc, at, plan, failed, report, clean>>
vars == <<live, left, session, fails, edits>>

Init ==
  /\ live \in [Kind -> UNION {Found(k) : k \in Kind}]
  /\ \A k \in Kind : live[k] \in Found(k)
  /\ left \in SUBSET Tagged
  /\ pc = [s \in Session |-> "idle"]
  /\ at = [s \in Session |-> 1]
  /\ plan = [s \in Session |-> <<>>]
  /\ failed = [s \in Session |-> FALSE]
  /\ report = [s \in Session |-> "none"]
  /\ clean = [s \in Session |-> TRUE]
  /\ fails = 0 /\ edits = 0

Active == {s \in Session : pc[s] \notin {"idle", "done"}}

-----------------------------------------------------------------------------
(* plan.rs and apply.rs.                                                   *)

classify(items) ==
  CASE items = <<>>         -> "missing"
    [] items = <<"want">>   -> "converged"
    [] items = <<"drift">>  -> "drifted"
    [] OTHER                -> "conflict"

\* Mutant: a drifted resource is added once more.
ChangeAnyway(k) ==
  CASE classify(live[k]) \in {"missing", "drifted"} -> <<[verb |-> "add", kind |-> k]>>
    [] OTHER -> <<>>

\* Mutant: an ambiguous one is set like a drifted one.
ChangeConflict(k) ==
  CASE classify(live[k]) = "missing" -> <<[verb |-> "add", kind |-> k]>>
    [] classify(live[k]) = "converged" -> <<>>
    [] OTHER -> <<[verb |-> "set", kind |-> k]>>

\* Mutant: an ambiguous one goes on the plan as what it is.
ChangeAll(k) ==
  CASE classify(live[k]) = "missing" -> <<[verb |-> "add", kind |-> k]>>
    [] classify(live[k]) = "drifted" -> <<[verb |-> "set", kind |-> k]>>
    [] classify(live[k]) = "converged" -> <<>>
    [] OTHER -> <<[verb |-> "conflict", kind |-> k]>>

\* The change one observation asks for; an ambiguous one is left to the operator.
change(k) ==
  CASE classify(live[k]) = "missing" -> <<[verb |-> "add", kind |-> k]>>
    [] classify(live[k]) = "drifted" -> <<[verb |-> "set", kind |-> k]>>
    [] OTHER -> <<>>

Start(s) ==
  /\ pc[s] = "idle"
  /\ Overlap \/ Active = {}
  /\ pc' = [pc EXCEPT ![s] = "observe"]
  /\ clean' = [t \in Session |-> clean[t] /\ (t \in {s} \cup Active => Active = {})]
  /\ UNCHANGED <<live, left, at, plan, failed, report, fails, edits>>

\* observe_router, one query per desired resource...
Observe(s) ==
  /\ pc[s] = "observe" /\ at[s] <= Len(Order)
  /\ plan' = [plan EXCEPT ![s] = @ \o change(Order[at[s]])]
  /\ at' = [at EXCEPT ![s] = @ + 1]
  /\ UNCHANGED <<live, left, pc, failed, report, clean, fails, edits>>

\* ... and one per path for what earlier desired states have left; removals
\* come last.
Scan(s) ==
  LET k == Paths[at[s] - Len(Order)]
  IN /\ pc[s] = "observe" /\ at[s] - Len(Order) \in DOMAIN Paths
     /\ plan' = [plan EXCEPT ![s] = @ \o (IF k \in left THEN <<[verb |-> "remove", kind |-> k]>>
                                          ELSE <<>>)]
     /\ at' = [at EXCEPT ![s] = @ + 1]
     /\ UNCHANGED <<live, left, pc, failed, report, clean, fails, edits>>

\* Mutant: the changes are run last first.
DecideBackwards(s) ==
  /\ pc[s] = "observe" /\ at[s] > Len(Order) + Len(Paths)
  /\ plan' = [plan EXCEPT ![s] = [i \in DOMAIN @ |-> @[Len(@) + 1 - i]]]
  /\ pc' = [pc EXCEPT ![s] = "change"]
  /\ UNCHANGED <<live, left, at, failed, report, clean, fails, edits>>

\* With nothing to change the session ends as converged, whatever it skipped.
Decide(s) ==
  /\ pc[s] = "observe" /\ at[s] > Len(Order) + Len(Paths)
  /\ IF plan[s] = <<>>
       THEN /\ pc' = [pc EXCEPT ![s] = "done"]
            /\ report' = [report EXCEPT ![s] = "converged"]
       ELSE /\ pc' = [pc EXCEPT ![s] = "change"] /\ UNCHANGED report
  /\ UNCHANGED <<live, left, at, plan, failed, clean, fails, edits>>

\* What RouterOS makes of a command: an item needs those it refers to, and
\* names and addresses are unique; set and remove act on all that match.
Accepts(c) ==
  c.verb = "add" => /\ \A n \in Needs[c.kind] : live[n] # <<>>
                    /\ c.kind \in Tagged \/ live[c.kind] = <<>>

Effect(c) ==
  CASE c.verb = "add" /\ Accepts(c) ->
         live' = [live EXCEPT ![c.kind] = Append(@, "want")] /\ UNCHANGED left
    [] c.verb = "set" ->
         /\ live' = [live EXCEPT ![c.kind] = [i \in DOMAIN @ |-> "want"]]
         /\ UNCHANGED left
    [] c.verb = "remove" -> left' = left \ {c.kind} /\ UNCHANGED live
    [] OTHER -> UNCHANGED <<live, left>>

\* cmd_apply goes on after a change that failed.
run_change(s) ==
  /\ pc[s] = "change" /\ plan[s] # <<>>
  /\ Effect(Head(plan[s]))
  /\ plan' = [plan EXCEPT ![s] = Tail(@)]
  /\ failed' = [failed EXCEPT ![s] = @ \/ ~Accepts(Head(plan[s]))]
  /\ UNCHANGED <<pc, at, report, clean, fails, edits>>

\* The connection is lost, before the command ran or after.
SshFails(s) ==
  /\ pc[s] \in {"observe", "change"} /\ fails < MaxFails /\ fails' = fails + 1
  /\ clean' = [clean EXCEPT ![s] = FALSE]
  /\ IF pc[s] = "change" /\ plan[s] # <<>>
       THEN /\ Effect(Head(plan[s])) \/ UNCHANGED <<live, left>>
            /\ plan' = [plan EXCEPT ![s] = Tail(@)]
            /\ failed' = [failed EXCEPT ![s] = TRUE]
            /\ UNCHANGED <<pc, report>>
       ELSE /\ pc' = [pc EXCEPT ![s] = "done"]
            /\ report' = [report EXCEPT ![s] = "error"]
            /\ UNCHANGED <<live, left, plan, failed>>
  /\ UNCHANGED <<at, edits>>

Desired == left = {} /\ \A k \in Kind : classify(live[k]) = "converged"

\* The second observation decides what is reported.
Confirm(s) ==
  /\ pc[s] = "change" /\ plan[s] = <<>>
  /\ report' = [report EXCEPT ![s] = IF Desired /\ ~failed[s] THEN "converged" ELSE "not converged"]
  /\ pc' = [pc EXCEPT ![s] = "done"]
  /\ UNCHANGED <<live, left, at, plan, failed, clean, fails, edits>>

\* Someone deletes an item by hand, or edits all that carry the identity.
Edit(k) ==
  /\ edits < MaxEdits /\ edits' = edits + 1
  /\ live[k] # <<>>
  /\ \/ live' = [live EXCEPT ![k] = Tail(@)]
     \/ live' = [live EXCEPT ![k] = [i \in DOMAIN @ |-> "drift"]]
  /\ clean' = [s \in Session |-> clean[s] /\ s \notin Active]
  /\ UNCHANGED <<left, pc, at, plan, failed, report, fails>>

Next ==
  \/ \E s \in Session : Start(s) \/ Observe(s) \/ Scan(s) \/ Decide(s)
                          \/ run_change(s) \/ SshFails(s) \/ Confirm(s)
  \/ \E k \in Kind : Edit(k)

Spec == Init /\ [][Next]_vars

-----------------------------------------------------------------------------
(* Properties.                                                             *)

\* The values the variables take.
TypeOK ==
  /\ \A k \in Kind : \A i \in DOMAIN live[k] : live[k][i] \in Item
  /\ left \subseteq Tagged
  /\ \A s \in Session : \A i \in DOMAIN plan[s] :
       plan[s][i] \in [verb : {"add", "set", "remove"}, kind : Kind]
  /\ at \in [Session -> 1..Len(Order) + Len(Paths) + 1]
  /\ fails \in 0..MaxFails /\ edits \in 0..MaxEdits

\* Running apply again is safe: as long as sessions do not overlap, apply makes
\* no second item of a resource, also when the answer to an `add' was lost and
\* the session after it runs the whole thing once more; and it touches none of
\* several items among which it cannot tell its own.
OneOfEachStep ==
  \A k \in Kind : edits' = edits /\ live'[k] # live[k] =>
    Len(live[k]) <= 1 /\ Len(live'[k]) <= 1
OneOfEach == [][OneOfEachStep]_vars

\* One undisturbed session is enough, from any state: the changes are run in an
\* order in which the router accepts each of them.  When it ends nothing is
\* left over and every resource is as desired but for the ambiguous ones, and
\* it reports less than that only if there is one.
PassStep ==
  \A s \in Session : pc[s] # "done" /\ pc'[s] = "done" /\ clean'[s] =>
    /\ left' = {}
    /\ \A k \in Kind : classify(live'[k]) \in {"converged", "conflict"}
    /\ \/ report'[s] = "converged"
       \/ \E k \in Kind : classify(live'[k]) = "conflict"
OnePassConverges == [][PassStep]_vars
=============================================================================
