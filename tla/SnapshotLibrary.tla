--------------------------- MODULE SnapshotLibrary ---------------------------
(***************************************************************************)
(* What OmaTree promises of its stored snapshots (README.md): each         *)
(* filesystem keeps its latest snapshot, a rescan replaces it in one step  *)
(* and only when it is complete, and nothing that is done for one          *)
(* filesystem affects the snapshot of another. Nothing ever removes it: no *)
(* failure, no cancellation, no restart.                                   *)
(***************************************************************************)
CONSTANTS
  Root,       \* the filesystems
  Snapshot,   \* the snapshots that may ever be taken
  None

VARIABLES
  latest,     \* what opening a filesystem finds
  target      \* the filesystem each snapshot is of

vars == <<latest, target>>

Init ==
  /\ target \in [Snapshot -> Root \cup {None}]
  /\ latest \in [Root -> Snapshot \cup {None}]
  /\ \A r \in Root : latest[r] # None => target[latest[r]] = r

\* A snapshot of r is begun.
Begin(s, r) ==
  /\ target[s] = None
  /\ target' = [target EXCEPT ![s] = r]
  /\ UNCHANGED latest

\* A complete snapshot takes the place of its filesystem's latest one.
Replace(s, r) ==
  /\ target[s] = r
  /\ latest[r] # s
  /\ latest' = [latest EXCEPT ![r] = s]
  /\ UNCHANGED target

Next == \E s \in Snapshot, r \in Root : Begin(s, r) \/ Replace(s, r)

Spec == Init /\ [][Next]_vars
=============================================================================
