----------------------------- MODULE Projection -----------------------------
(***************************************************************************)
(* What a router shows of its mesh state.  At every tick the daemon clones *)
(* its stores one lock at a time, builds directory.json from the clones    *)
(* and renames it into place; mjolnir-hello serves the file from a cache   *)
(* keyed on the file's modification time.  Other tasks change the stores   *)
(* all the while, so a snapshot mixes store contents of different moments. *)
(* (GET /v0/directory of the control API answers from such a snapshot too.)*)
(*                                                                         *)
(* The content of a store is its version, the number of changes it had;    *)
(* a projection is the version of each store it was built from.  radio.json*)
(* takes the same way with one source, the radio.                          *)
(***************************************************************************)
EXTENDS Naturals, Sequences, FiniteSets, Functions

CONSTANTS Order,       \* the stores, in the order in which they are cloned
          Request,     \* requests hello serves at the same time
          None,        \* no file, nothing cached
          Torn,        \* a file that is not written to its end
          MaxVersion   \* bound: changes of one store

Store == Range(Order)
Body == [Store -> 0..MaxVersion]

VARIABLES
  version,   \* the version of each store
  clones,    \* what has been cloned so far, in order
  tmp,       \* directory.tmp
  file,      \* directory.json: its modification time and its content
  stat,      \* stat[r]: the modification time request r has read, if any
  cache      \* hello's CachedFile: the time and the body of its last good read

vars == <<version, clones, tmp, file, stat, cache>>

Init ==
  /\ version = [s \in Store |-> 0]
  /\ clones = <<>>
  /\ tmp = None
  /\ file = [mtime |-> None, body |-> None]
  /\ stat = [r \in Request |-> <<>>]
  /\ cache = [mtime |-> None, body |-> None]

-----------------------------------------------------------------------------
(* The daemon.                                                             *)

\* A task changes a store.
Change(s) ==
  /\ version[s] < MaxVersion
  /\ version' = [version EXCEPT ![s] = @ + 1]
  /\ UNCHANGED <<clones, tmp, file, stat, cache>>

\* write_directory_projection clones the next store under its lock.
CloneNext ==
  /\ Len(clones) < Len(Order)
  /\ clones' = Append(clones, version[Order[Len(clones) + 1]])
  /\ UNCHANGED <<version, tmp, file, stat, cache>>

\* build_directory_snapshot(_v2): a function of the clones.
build_directory_snapshot(cs) ==
  [s \in Store |-> cs[CHOOSE i \in DOMAIN Order : Order[i] = s]]

\* A modification time no request, cache or file has: times are only ever
\* compared for equality.
Time == 1..(Cardinality(Request) + 3)
NewTime == CHOOSE t \in Time :
  t \notin {file.mtime, cache.mtime} \cup UNION {Range(stat[r]) : r \in Request}

\* Mutant: the projection is written in place.
WriteInPlace ==
  /\ Len(clones) = Len(Order) /\ tmp = None
  /\ tmp' = build_directory_snapshot(clones)
  /\ file' = [mtime |-> NewTime, body |-> Torn]
  /\ UNCHANGED <<version, clones, stat, cache>>

\* persist_directory writes a sibling file ...
WriteTmp ==
  /\ Len(clones) = Len(Order) /\ tmp = None
  /\ tmp' = build_directory_snapshot(clones)
  /\ UNCHANGED <<version, clones, file, stat, cache>>

\* ... and renames it over the projection; either may fail, until the next tick.
RenameTmp ==
  /\ tmp # None
  /\ \/ file' = [mtime |-> NewTime, body |-> tmp]
     \/ UNCHANGED file
  /\ tmp' = None
  /\ clones' = <<>>
  /\ UNCHANGED <<version, stat, cache>>

-----------------------------------------------------------------------------
(* mjolnir-hello (read_cached).                                            *)

\* A request reads the modification time first ...
Stat(r) ==
  /\ stat[r] = <<>>
  /\ stat' = [stat EXCEPT ![r] = <<file.mtime>>]
  /\ UNCHANGED <<version, clones, tmp, file, cache>>

\* Mutant: a failed read leaves the new time with the old body.
TimeAnyway(t, contents) ==
  [mtime |-> t, body |-> IF contents = None THEN cache.body ELSE contents]

\* ... and, if the cached body is of another time, the file.  The body is kept
\* under the time read before it; a read that fails leaves the last good one.
Refreshed(t, contents) ==
  IF contents = None THEN cache ELSE [mtime |-> t, body |-> contents]

read_cached(r) ==
  /\ stat[r] # <<>>
  /\ \E contents \in {None, file.body} :
       LET t == Head(stat[r])
       IN cache' = IF t = None \/ t # cache.mtime THEN Refreshed(t, contents)
                                                  ELSE cache
  /\ stat' = [stat EXCEPT ![r] = <<>>]
  /\ UNCHANGED <<version, clones, tmp, file>>

Next ==
  \/ \E s \in Store : Change(s)
  \/ CloneNext \/ WriteTmp \/ RenameTmp
  \/ \E r \in Request : Stat(r) \/ read_cached(r)

Spec == Init /\ [][Next]_vars

\* The tick goes on and on, neither a rename nor a read fails for ever, and
\* browsers poll.
Renamed == RenameTmp /\ file' # file
ReadOk(r) == read_cached(r) /\ (stat[r] # <<cache.mtime>> => cache'.body = file.body)
Fairness ==
  /\ WF_vars(CloneNext) /\ WF_vars(WriteTmp) /\ SF_vars(Renamed)
  /\ \A r \in Request : WF_vars(Stat(r)) /\ SF_vars(ReadOk(r))

FairSpec == Spec /\ Fairness

-----------------------------------------------------------------------------
(* Properties.                                                             *)

\* hello never takes an old body for the current one: if the cached time is
\* the file's, the cached body is the file's too.
CacheCurrent == cache.mtime = file.mtime => cache.body = file.body

\* hello serves whole files only.
ServedWhole == cache.body # Torn

\* When the stores come to rest, hello in the end serves what they hold.
Shown == cache.body = version
EventuallyShown == <>[]Shown
=============================================================================
