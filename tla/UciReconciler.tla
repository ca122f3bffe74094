--------------------------- MODULE UciReconciler ---------------------------
(***************************************************************************)
(* The two places where the daemon rewrites the router's own configuration *)
(* (OpenWrt's UCI): reconcile_dnsmasq_uci once at the start, after the     *)
(* .mesh responder is bound, and reconcile_client_uci every time the claim *)
(* manager publishes a client subnet.  Each compares what `uci get' prints *)
(* with what it wants and, if they differ, runs a shell script that edits, *)
(* commits and makes netifd and dnsmasq read the result.  The daemon waits *)
(* 30 s for the script; after that the script goes on without it.          *)
(*                                                                         *)
(* `uci get' sees edits that are not committed; a reboot drops them.       *)
(***************************************************************************)
EXTENDS Naturals, Sequences

CONSTANTS Subnet,       \* gateway addresses of the client subnets claimed
          MaxClaims,    \* bound: claims published
          MaxFails,     \* bound: failures of a command of a script
          MaxTimeouts,  \* bound: waits given up
          MaxReboots    \* bound: reboots of the router

Stock == "192.168.1.1"
Wanted == {"server", "canary", "option114", "rebind"}

VARIABLES
  claim,      \* the subnet last published, or "none"
  lan,        \* network.lan.ipaddr as `uci get' prints it
  lanSaved,   \* the same in /etc/config/network
  lanLive,    \* the primary address netifd has on the client bridge
  pool,       \* the subnet dnsmasq leases from
  dhcp,       \* the dnsmasq entries as `uci get' prints them
  dhcpSaved,  \* the same in /etc/config/dhcp
  dhcpLive,   \* the entries the running dnsmasq was started with
  task,       \* what the daemon does: "boot", "idle" or a script it waits for
  scripts,    \* scripts that run: their name, target and next command
  count       \* how often each bounded event has happened, and whether one
              \* of each kind of edit has failed

vars == <<claim, lan, lanSaved, lanLive, pool, dhcp, dhcpSaved, dhcpLive,
          task, scripts, count>>
lanVars == <<lan, lanSaved, lanLive>>
dhcpVars == <<dhcp, dhcpSaved, dhcpLive>>

Bound == [claims |-> MaxClaims, fails |-> MaxFails,
          timeouts |-> MaxTimeouts, reboots |-> MaxReboots,
          delete |-> 1, add |-> 1, alias |-> 1, del_list |-> 1]
Counts(event) == /\ count[event] < Bound[event]
                 /\ count' = [count EXCEPT ![event] = @ + 1]

\* A factory configuration, or one with the portal URL of earlier versions.
Init ==
  /\ claim = "none"
  /\ lan = <<Stock>> /\ lanSaved = lan /\ lanLive = Stock /\ pool = Stock
  /\ dhcp \in {{}, {"stale114"}} /\ dhcpSaved = dhcp /\ dhcpLive = dhcp
  /\ task = "boot"
  /\ scripts = {}
  /\ count = [e \in DOMAIN Bound |-> 0]

-----------------------------------------------------------------------------
(* The daemon.                                                             *)

lan_uci_is_current(c) == lan # <<>> /\ Head(lan) = c
dnsmasq_uci_is_current == Wanted \subseteq dhcp

reconcile_dnsmasq_uci ==
  /\ task = "boot"
  /\ IF dnsmasq_uci_is_current
       THEN task' = "idle" /\ UNCHANGED scripts
       ELSE /\ task' = "dhcp"
            /\ scripts' = scripts \cup {[name |-> "dhcp", target |-> "none", pc |-> "edit"]}
  /\ UNCHANGED <<claim, lanVars, pool, dhcpVars, count>>

\* The claim manager publishes c, for the first time or again.
reconcile_client_uci(c) ==
  /\ task = "idle"
  /\ Counts("claims")
  /\ claim' = c
  /\ IF lan_uci_is_current(c)
       THEN UNCHANGED <<task, scripts>>
       ELSE /\ task' = "lan"
            /\ scripts' = scripts \cup {[name |-> "lan", target |-> c, pc |-> "delete"]}
  /\ UNCHANGED <<lanVars, pool, dhcpVars>>

\* Mutant: the script dies with the wait.
TimeoutKills ==
  /\ task \in {"lan", "dhcp"}
  /\ \E s \in scripts :
       /\ s.name = task /\ s.pc \in {"reload", "restart"}
       /\ scripts' = scripts \ {s}
  /\ Counts("timeouts")
  /\ task' = "idle"
  /\ UNCHANGED <<claim, lanVars, pool, dhcpVars>>

\* The wait ends after 30 s, in a call of an init script: those can wedge.
Timeout ==
  /\ task \in {"lan", "dhcp"}
  /\ \E s \in scripts : s.name = task /\ s.pc \in {"reload", "restart"}
  /\ scripts' = {IF s.name = task THEN [s EXCEPT !.name = "late"] ELSE s : s \in scripts}
  /\ Counts("timeouts")
  /\ task' = "idle"
  /\ UNCHANGED <<claim, lanVars, pool, dhcpVars>>

-----------------------------------------------------------------------------
(* The scripts.                                                            *)

First(list) == IF list = <<>> THEN "none" ELSE Head(list)

\* Script s goes on to its next command, or ends and wakes who waits for it.
Goes(s, pc) ==
  /\ scripts' = (scripts \ {s}) \cup (IF pc = "end" THEN {} ELSE {[s EXCEPT !.pc = pc]})
  /\ task' = IF pc = "end" /\ s.name = task THEN "idle" ELSE task

\* Mutant: the old list is added to.
DeleteNot(s) ==
  /\ s.pc = "delete" /\ Goes(s, "add")
  /\ UNCHANGED <<claim, lanVars, pool, dhcpVars, count>>

Delete(s) ==
  /\ s.pc = "delete" /\ Goes(s, "add")
  /\ lan' = <<>>
  /\ UNCHANGED <<claim, lanSaved, lanLive, pool, dhcpVars, count>>

AddList(s) ==
  /\ s.pc \in {"add", "alias"}
  /\ lan' = Append(lan, IF s.pc = "add" THEN s.target ELSE Stock)
  /\ Goes(s, IF s.pc = "add" THEN "alias" ELSE "commit")
  /\ UNCHANGED <<claim, lanSaved, lanLive, pool, dhcpVars, count>>

\* Mutant: an earlier portal URL is left beside the new one.
EditKeepsStale(s) ==
  /\ s.pc = "edit" /\ Goes(s, "commit")
  /\ dhcp' = dhcp \cup Wanted
  /\ UNCHANGED <<claim, lanVars, pool, dhcpSaved, dhcpLive, count>>

\* Entries that are missing are added; the portal URL replaces any earlier one.
Replaces == "option114" \notin dhcp /\ "stale114" \in dhcp
Edited == (IF Replaces THEN dhcp \ {"stale114"} ELSE dhcp) \cup Wanted

Edit(s) ==
  /\ s.pc = "edit" /\ Goes(s, "commit")
  /\ dhcp' = Edited
  /\ UNCHANGED <<claim, lanVars, pool, dhcpSaved, dhcpLive, count>>

Commit(s) ==
  /\ s.pc = "commit"
  /\ IF s.target = "none"
       THEN dhcpSaved' = dhcp /\ Goes(s, "restart") /\ UNCHANGED lanSaved
       ELSE lanSaved' = lan /\ Goes(s, "reload") /\ UNCHANGED dhcpSaved
  /\ UNCHANGED <<claim, lan, lanLive, pool, dhcp, dhcpLive, count>>

Reload(s) ==
  /\ s.pc = "reload" /\ Goes(s, "restart")
  /\ lanLive' = First(lanSaved)
  /\ UNCHANGED <<claim, lan, lanSaved, pool, dhcpVars, count>>

Restart(s) ==
  /\ s.pc = "restart" /\ Goes(s, "end")
  /\ dhcpLive' = dhcpSaved
  /\ pool' = lanLive
  /\ UNCHANGED <<claim, lanVars, dhcp, dhcpSaved, count>>

\* A failing commit or init script ends the script: the rest is chained by &&.
Fails(s) ==
  /\ s.pc \in {"commit", "reload", "restart"} /\ Goes(s, "end")
  /\ Counts("fails")
  /\ UNCHANGED <<claim, lanVars, pool, dhcpVars>>

\* A failing edit is passed over, for the edits are chained by ;: what the
\* others made of the list is committed.
Skips(kind) ==
  /\ count.fails < MaxFails
  /\ count' = [count EXCEPT !.fails = @ + 1, ![kind] = 1]

SkipLan(s) ==
  /\ s.pc \in {"delete", "add", "alias"} /\ Skips(s.pc)
  /\ Goes(s, CASE s.pc = "delete" -> "add" [] s.pc = "add" -> "alias" [] OTHER -> "commit")
  /\ UNCHANGED <<claim, lanVars, pool, dhcpVars>>

SkipDhcp(s) ==
  /\ s.pc = "edit" /\ Goes(s, "commit")
  /\ \/ Replaces /\ Skips("del_list") /\ dhcp' = dhcp \cup Wanted
     \/ Skips("add") /\ \E w \in Wanted \ dhcp : dhcp' = Edited \ {w}
  /\ UNCHANGED <<claim, lanVars, pool, dhcpSaved, dhcpLive>>

Script(s) == \/ Delete(s) \/ AddList(s) \/ Edit(s) \/ Commit(s)
             \/ Reload(s) \/ Restart(s)

\* The router reboots into what was committed.
Reboot ==
  /\ Counts("reboots")
  /\ lan' = lanSaved /\ lanLive' = First(lanSaved) /\ pool' = First(lanSaved)
  /\ dhcp' = dhcpSaved /\ dhcpLive' = dhcpSaved
  /\ task' = "boot"
  /\ scripts' = {}
  /\ UNCHANGED <<claim, lanSaved, dhcpSaved>>

Next ==
  \/ reconcile_dnsmasq_uci
  \/ \E c \in Subnet : reconcile_client_uci(c)
  \/ Timeout
  \/ \E s \in scripts : Script(s) \/ Fails(s) \/ SkipLan(s) \/ SkipDhcp(s)
  \/ Reboot

Spec == Init /\ [][Next]_vars

(* Fairness: the daemon and its scripts make progress; a restored claim is *)
(* published again after a reboot, which the bound on claims stands for.   *)
Fairness ==
  /\ WF_vars(reconcile_dnsmasq_uci)
  /\ WF_vars(\E s \in scripts : s.name # "late" /\ Script(s))
  /\ WF_vars(\E s \in scripts : s.name = "late" /\ Script(s))

FairSpec == Spec /\ Fairness

-----------------------------------------------------------------------------
(* Properties.                                                             *)

\* The values the variables take.
Addr == Subnet \cup {Stock}
TypeOK ==
  /\ claim \in Subnet \cup {"none"}
  /\ lan \in Seq(Addr) /\ lanSaved \in Seq(Addr)
  /\ {lanLive, pool} \subseteq Addr \cup {"none"}
  /\ {dhcp, dhcpSaved, dhcpLive} \subseteq SUBSET (Wanted \cup {"stale114"})
  /\ task \in {"boot", "idle", "lan", "dhcp"}
  /\ \A s \in scripts : /\ s.name \in {"lan", "dhcp", "late"}
                        /\ s.target \in Subnet \cup {"none"}
  /\ \A e \in DOMAIN Bound : count[e] \in 0..Bound[e]

\* A laptop on the LAN port can always get back in: the recovery address stays
\* in the committed configuration, whatever fails, wedges or reboots, unless it
\* is the command that adds it that fails; and there is no claimed subnet but
\* one before it, unless the old list could not be deleted.
RecoveryAlias ==
  /\ count.alias = 0 => lanSaved # <<>> /\ lanSaved[Len(lanSaved)] = Stock
  /\ count.delete = 0 => Len(lanSaved) <= 2

\* Clients are never handed two portal URLs: the old and the new one are never
\* both in the configuration dnsmasq starts from, unless the command that takes
\* the old one out fails.
OnePortal == count.del_list = 0 => ~ {"option114", "stale114"} \subseteq dhcpSaved

\* If no command of a script fails, and the router stays up, the bridge
\* and the leases follow the last claim, even when a call wedged and the
\* daemon stopped waiting; and dnsmasq forwards the mesh names.
Follows ==
  count.fails = 0 /\ count.reboots = 0 =>
    /\ claim # "none" => lanLive = claim /\ pool = claim
    /\ dhcpLive = Wanted
LeasesFollow == <>[]Follows
=============================================================================
