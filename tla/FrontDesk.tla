----------------------------- MODULE FrontDesk -----------------------------
(***************************************************************************)
(* The identity and the name-claim ceremony of one router: mjolnir-hello   *)
(* issues challenges and spools the submissions that answer one, the       *)
(* daemon sweeps the spool directories.  The two are processes of their    *)
(* own that meet only in the file system, where hello writes a file in     *)
(* place (it opens and truncates it, then writes) and the daemon lists a   *)
(* directory, reads a file, merges it, and removes what is then there.     *)
(*                                                                         *)
(* hello handles one request at a time.  A submission is named by the      *)
(* challenge it answers; what it says is not looked into, but for a claim  *)
(* the daemon may turn down (Unfit).                                       *)
(***************************************************************************)
EXTENDS Naturals, FiniteSets

CONSTANTS Key,     \* the public keys of users
          Nonce,   \* the challenges hello ever issues
          Unfit,   \* nonces answered with a claim without address or of a name taken
          None,    \* no request, no file
          Torn,    \* a file that was truncated and not yet written
          Done     \* what a sweep has read is merged

Dir == {"identity", "names"}            \* pending/ and pending/names/
Submission == [dir : Dir, key : Key, nonce : Nonce]

VARIABLES
  challenge,   \* the state of each nonce in hello's challenge store
  request,     \* the valid submission hello is spooling
  out,         \* where the file hello has open for writing is
  spool,       \* spool[d][k]: the file of key k in directory d
  sweep,       \* the sweep of each directory: what it has listed and read
  bad,         \* quarantined files
  accepted,    \* submissions answered with 200
  taken        \* submissions merged by the daemon

vars == <<challenge, request, out, spool, sweep, bad, accepted, taken>>

Resting == [todo |-> {}, key |-> None, got |-> None]

Init ==
  /\ challenge = [c \in Nonce |-> "unissued"]
  /\ request = None /\ out = None
  /\ spool = [d \in Dir |-> [k \in Key |-> None]]
  /\ sweep = [d \in Dir |-> Resting]
  /\ bad = {} /\ accepted = {} /\ taken = {}

-----------------------------------------------------------------------------
(* mjolnir-hello.                                                          *)

\* A fresh nonce is put into the store, and the expired ones are dropped.
issue_challenge(c) ==
  /\ request = None
  /\ challenge[c] = "unissued"
  /\ challenge' = [x \in Nonce |-> IF x = c THEN "fresh"
                                   ELSE IF challenge[x] = "expired" THEN "gone"
                                   ELSE challenge[x]]
  /\ UNCHANGED <<request, out, spool, sweep, bad, accepted, taken>>

\* CHALLENGE_TTL goes by.
Expire(c) ==
  /\ challenge[c] = "fresh"
  /\ challenge' = [challenge EXCEPT ![c] = "expired"]
  /\ UNCHANGED <<request, out, spool, sweep, bad, accepted, taken>>

\* Mutants: the challenge is not used up; the signature is not looked at.
Kept(c) == UNCHANGED challenge
AnySignature(c, signed) == challenge[c] = "fresh"

\* The store still has the challenge, and the signature is over it.  A bad
\* signature leaves the challenge to whoever it was issued to.
Valid(c, signed) == challenge[c] = "fresh" /\ signed

Consumed(c) == challenge' = [challenge EXCEPT ![c] = "gone"]

\* submit_identity and submit_name_claim up to the write of the spool file:
\* the challenge is used up before the file is written.
Submit(d, k, c, signed) ==
  /\ request = None
  /\ Valid(c, signed)
  /\ Consumed(c)
  /\ request' = [dir |-> d, key |-> k, nonce |-> c, signed |-> signed]
  /\ UNCHANGED <<out, spool, sweep, bad, accepted, taken>>

submit_identity(k, c, signed) == Submit("identity", k, c, signed)
submit_name_claim(k, c, signed) == Submit("names", k, c, signed)

\* The directory cannot be made, the file cannot be opened, or the write fails
\* half-way: 500, the challenge is gone, and a file once opened stays as it is.
SpoolFails ==
  /\ request # None
  /\ request' = None /\ out' = None
  /\ UNCHANGED <<challenge, spool, sweep, bad, accepted, taken>>

\* std::fs::write opens the file and truncates what is there ...
OpenFile ==
  /\ request # None /\ out = None
  /\ spool' = [spool EXCEPT ![request.dir][request.key] = Torn]
  /\ out' = "spool"
  /\ UNCHANGED <<challenge, request, sweep, bad, accepted, taken>>

\* ... and then writes, into the file it opened, wherever that is by now.
WriteFile ==
  /\ request # None /\ out # None
  /\ spool' = IF out = "spool" THEN [spool EXCEPT ![request.dir][request.key] = request]
                               ELSE spool
  /\ bad' = IF out = "bad" THEN (bad \ {Torn}) \cup {request} ELSE bad
  /\ accepted' = accepted \cup {request}
  /\ request' = None /\ out' = None
  /\ UNCHANGED <<challenge, sweep, taken>>

\* hello is stopped and started again: its challenges, which it keeps in
\* memory only, are gone, and so is the request it was at.
Restart ==
  /\ challenge' = [c \in Nonce |-> IF challenge[c] = "unissued" THEN "unissued" ELSE "gone"]
  /\ request' = None /\ out' = None
  /\ UNCHANGED <<spool, sweep, bad, accepted, taken>>

-----------------------------------------------------------------------------
(* The daemon's sweeps (ingest_identity_spool, ingest_name_claim_spool).   *)

Files(d) == {k \in Key : spool[d][k] # None}

\* The directory is listed.
ReadDir(d) ==
  /\ sweep[d].todo = {} /\ sweep[d].key = None
  /\ Files(d) # {}
  /\ sweep' = [sweep EXCEPT ![d].todo = Files(d)]
  /\ UNCHANGED <<challenge, request, out, spool, bad, accepted, taken>>

\* A listed file is read.  (Only this sweep removes files, so it is there.)
ReadFile(d, k) ==
  /\ sweep[d].key = None /\ k \in sweep[d].todo
  /\ sweep' = [sweep EXCEPT ![d] = [todo |-> @.todo \ {k}, key |-> k, got |-> spool[d][k]]]
  /\ UNCHANGED <<challenge, request, out, spool, bad, accepted, taken>>

\* The file hello has open is moved, or unlinked, under it.
Moved(d, k, to) ==
  out' = IF out = "spool" /\ request.dir = d /\ request.key = k THEN to ELSE out

\* Mutant: a file that does not parse is left for the next sweep.
LeftAlone(d) ==
  /\ sweep[d].got = Torn
  /\ sweep' = [sweep EXCEPT ![d].key = None, ![d].got = None]
  /\ UNCHANGED <<challenge, request, out, spool, bad, accepted, taken>>

\* What was read does not parse: what is there now is moved to a .bad file.
Quarantine(d) ==
  LET k == sweep[d].key IN
  /\ sweep[d].got = Torn
  /\ bad' = bad \cup {spool[d][k]}
  /\ spool' = [spool EXCEPT ![d][k] = None]
  /\ Moved(d, k, "bad")
  /\ sweep' = [sweep EXCEPT ![d].key = None, ![d].got = None]
  /\ UNCHANGED <<challenge, request, accepted, taken>>

\* What was read is merged into the user book, or becomes a lease unless the
\* claim has to be turned down ...
Merge(d) ==
  /\ sweep[d].got \notin {None, Torn, Done}
  /\ taken' = IF d = "names" /\ sweep[d].got.nonce \in Unfit THEN taken
                ELSE taken \cup {sweep[d].got}
  /\ sweep' = [sweep EXCEPT ![d].got = Done]
  /\ UNCHANGED <<challenge, request, out, spool, bad, accepted>>

\* ... and what is there now is removed.
RemoveFile(d) ==
  LET k == sweep[d].key IN
  /\ sweep[d].got = Done
  /\ spool' = [spool EXCEPT ![d][k] = None]
  /\ Moved(d, k, "unlinked")
  /\ sweep' = [sweep EXCEPT ![d].key = None, ![d].got = None]
  /\ UNCHANGED <<challenge, request, bad, accepted, taken>>

Sweep(d) == \/ ReadDir(d) \/ (\E k \in Key : ReadFile(d, k))
            \/ Quarantine(d) \/ Merge(d) \/ RemoveFile(d)

Next ==
  \/ \E c \in Nonce : issue_challenge(c) \/ Expire(c)
  \/ \E k \in Key, c \in Nonce, signed \in BOOLEAN :
       submit_identity(k, c, signed) \/ submit_name_claim(k, c, signed)
  \/ SpoolFails \/ OpenFile \/ WriteFile \/ Restart
  \/ \E d \in Dir : Sweep(d)

Spec == Init /\ [][Next]_vars

\* The sweeps run at every tick, and hello finishes a request it has begun.
Fairness == /\ \A d \in Dir : WF_vars(Sweep(d))
            /\ WF_vars(OpenFile \/ WriteFile)

FairSpec == Spec /\ Fairness

-----------------------------------------------------------------------------
(* Properties.                                                             *)

\* The values the variables take.
Valids == [dir : Dir, key : Key, nonce : Nonce, signed : BOOLEAN]
Content == Valids \cup {Torn}
TypeOK ==
  /\ challenge \in [Nonce -> {"unissued", "fresh", "expired", "gone"}]
  /\ request \in Valids \cup {None}
  /\ out \in {None, "spool", "bad", "unlinked"}
  /\ spool \in [Dir -> [Key -> Content \cup {None}]]
  /\ sweep \in [Dir -> [todo : SUBSET Key, key : Key \cup {None},
                        got : Content \cup {None, Done}]]
  /\ bad \subseteq Content
  /\ accepted \subseteq Valids /\ taken \subseteq Valids

\* A challenge buys one submission: whatever requests, expiries, failures and
\* restarts come between, no two submissions answered with 200 or merged into
\* the mesh's state answer the same challenge.
SingleUse ==
  \A s, t \in accepted \cup taken : s.nonce = t.nonce => s = t

\* The daemon does not verify signatures again, it trusts the spool: what it
\* merges is always a whole submission that hello verified.
TakenWasVerified == \A s \in taken : s.signed /\ s \in accepted

\* hello-mesh-service.md: the daemon ingests, validates, gossips and removes
\* the submissions that hello drops into the spool.  A submission that was
\* accepted is in the spool, or being ingested, or was ingested, unless a later
\* one of the same key took its place.
NothingLost ==
  \A s \in accepted :
    \/ s \in taken \/ s.nonce \in Unfit
    \/ spool[s.dir][s.key] = s \/ sweep[s.dir].got = s
    \/ \E t \in accepted \cup {request} :
         t # None /\ t # s /\ t.dir = s.dir /\ t.key = s.key

\* The spool is emptied: every file that hello leaves there, half-written ones
\* of a request that was cut short included, is ingested or quarantined.
SpoolEmpty == \A d \in Dir : Files(d) = {}
SpoolDrains == <>[]SpoolEmpty
=============================================================================
