------------------------------- MODULE Egress -------------------------------
(***************************************************************************)
(* Is this router an Internet gateway now?  A route qualifies as an uplink *)
(* when it is a default route that babel did not install and that does not *)
(* leave through the mesh itself.  A probe task fetches known "204" pages  *)
(* through it and, with hysteresis, publishes a verdict in one atomic flag;*)
(* the beacon emitter and the babel reconcilers read the routes and the    *)
(* flag, at moments of their own.                                          *)
(***************************************************************************)
EXTENDS Naturals, Sequences, Functions

CONSTANTS DEMOTE_AFTER,   \* confirmed failures in a row that withdraw the ad
          Urls,           \* number of pages a probe tries
          HasWget,        \* is the probe's tool installed?
          Bypass          \* `option gateway 'always'': trust the route alone

\* The default routes a kernel may hold: one of each kind that matters.
Uplink    == [oif |-> "wan", proto_babel |-> FALSE]
Learned   == [oif |-> "br-mesh", proto_babel |-> TRUE]
Tunnelled == [oif |-> "mjolnir0", proto_babel |-> FALSE]
Route == {Uplink, Learned, Tunnelled}

EXCLUDED_EGRESS_IFACES == {"br-mesh", "mjolnir0"}

VARIABLES
  routes,     \* the kernel's default routes
  internet,   \* what is behind the uplink: "open", "captive" or "dead"
  hyst,       \* the probe task's ProbeHysteresis
  verdict,    \* GATEWAY_PROBE_HEALTHY
  probing,    \* is the probe task between its look at the routes and its verdict?
  failures    \* history: confirmed failures since the last success or unplugging

vars == <<routes, internet, hyst, verdict, probing, failures>>

Fresh == [healthy |-> TRUE, consecutive_fail |-> 0]

Init ==
  /\ routes = {}
  /\ internet \in {"open", "captive", "dead"}
  /\ hyst = Fresh
  /\ verdict = TRUE
  /\ probing = FALSE
  /\ failures = 0

\* Mutant: a learned default counts as an uplink.
AnyRoute(rs) == rs # {}

\* classify_egress: is there a route that qualifies?
classify_egress(rs) ==
  \E r \in rs : ~r.proto_babel /\ r.oif \notin EXCLUDED_EGRESS_IFACES

\* local_egress: what the node says of itself now.
local_egress ==
  IF ~classify_egress(routes) THEN "none"
  ELSE IF Bypass \/ verdict THEN "healthy" ELSE "unhealthy"

\* What one fetch may end in: a clean 204; another answer or an error; no such
\* program; the program could not be started; no answer in time.
Fetch == IF ~HasWget THEN {"missing"}
         ELSE IF internet = "open" THEN {"clean", "spawn", "hung"}
         ELSE {"dirty", "spawn", "hung"}

\* probe_internet: the pages are tried in turn up to the first clean answer.
probe_internet(fetches) ==
  LET ends == {i \in DOMAIN fetches : fetches[i] \in {"clean", "missing"}}
      last == IF ends = {} THEN Len(fetches)
              ELSE CHOOSE i \in ends : \A j \in ends : i <= j
      tried == {fetches[i] : i \in 1..last}
  IN IF "clean" \in tried THEN "yes"
     ELSE IF "missing" \in tried \/ tried \subseteq {"spawn"} THEN "unknown"
     ELSE "no"

\* Mutant: the run of failures survives a success.
ObserveAll(h, outcome) ==
  LET fails == IF outcome = "no" THEN h.consecutive_fail + 1 ELSE h.consecutive_fail
  IN [healthy |-> outcome = "yes" \/ (h.healthy /\ fails < DEMOTE_AFTER),
      consecutive_fail |-> IF fails > DEMOTE_AFTER THEN DEMOTE_AFTER ELSE fails]

\* Mutant: a probe that shows nothing ends the run of failures.
ObserveUnknown(h, outcome) ==
  IF outcome # "no" THEN Fresh
  ELSE LET fails == IF h.consecutive_fail < DEMOTE_AFTER
                      THEN h.consecutive_fail + 1 ELSE DEMOTE_AFTER
       IN [healthy |-> h.healthy /\ fails < DEMOTE_AFTER, consecutive_fail |-> fails]

\* ProbeHysteresis::observe (the count stops at DEMOTE_AFTER: beyond it only
\* "at least" is looked at).
observe(h, outcome) ==
  IF outcome = "yes" THEN Fresh
  ELSE IF outcome = "unknown" THEN h
  ELSE LET fails == IF h.consecutive_fail < DEMOTE_AFTER
                      THEN h.consecutive_fail + 1 ELSE DEMOTE_AFTER
       IN [healthy |-> h.healthy /\ fails < DEMOTE_AFTER, consecutive_fail |-> fails]

-----------------------------------------------------------------------------
\* gateway_probe_task looks at the routes; with no uplink it starts afresh.
ProbeLook ==
  /\ ~probing
  /\ IF classify_egress(routes)
       THEN probing' = TRUE /\ UNCHANGED <<hyst, verdict, failures>>
       ELSE /\ hyst' = Fresh /\ verdict' = TRUE /\ failures' = 0
            /\ UNCHANGED probing
  /\ UNCHANGED <<routes, internet>>

\* ... otherwise it probes and publishes.
ProbeVerdict ==
  /\ probing
  /\ \E fetches \in [1..Urls -> Fetch] :
       LET outcome == probe_internet(fetches)
       IN /\ hyst' = observe(hyst, outcome)
          /\ failures' = CASE "clean" \in Range(fetches) -> 0
                           [] outcome = "no" /\ failures < DEMOTE_AFTER -> failures + 1
                           [] OTHER -> failures
  /\ verdict' = hyst'.healthy
  /\ probing' = FALSE
  /\ UNCHANGED <<routes, internet>>

\* The world: routes come and go, the upstream changes.
Replug ==
  /\ routes' \in SUBSET Route
  /\ UNCHANGED <<internet, hyst, verdict, probing, failures>>

Upstream ==
  /\ internet' \in {"open", "captive", "dead"}
  /\ UNCHANGED <<routes, hyst, verdict, probing, failures>>

Next == ProbeLook \/ ProbeVerdict \/ Replug \/ Upstream

Spec == Init /\ [][Next]_vars

\* The probe task runs for ever, and of its fetches some do start.
Evidence == ProbeVerdict /\ (hyst' # hyst \/ hyst'.healthy = (internet = "open"))
Fairness == WF_vars(ProbeLook) /\ WF_vars(ProbeVerdict) /\ SF_vars(Evidence)

FairSpec == Spec /\ Fairness

-----------------------------------------------------------------------------
(* Properties.                                                             *)

\* A gateway is never taken off the air by anything but DEMOTE_AFTER probes in
\* a row that ran and failed: not by a missing tool, a fetch that did not
\* start, or failures with a success between them.
FailOpen == ~verdict => failures >= DEMOTE_AFTER /\ HasWget

\* If the uplink stays and is dead or captive for good, the node in the end
\* stops advertising it for good.
DeadUplink == HasWget /\ ~Bypass /\ Uplink \in routes /\ internet # "open"
DeadUplinkWithdrawn == <>[]DeadUplink => <>[](local_egress # "healthy")

\* A node whose uplink is lost for good stays no gateway, and the verdict is
\* reset for the next uplink.
Unplugged == Uplink \notin routes
UnplugResets == <>[]Unplugged => <>[]verdict
=============================================================================
