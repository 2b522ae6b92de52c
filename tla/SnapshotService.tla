-------------------------- MODULE SnapshotService --------------------------
(***************************************************************************)
(* The broker as the panel meets it: a process that reads requests from a  *)
(* pipe, one after the other, and writes replies and scan outcomes to      *)
(* another.  SnapshotBroker models the same code lock by lock; here a      *)
(* request is one step, databases are left out, and what remains is what   *)
(* a reply can say: which generations are active and previous, whether a   *)
(* scan runs, which queries are queued and what is stored.                 *)
(***************************************************************************)
EXTENDS Naturals, Sequences, FiniteSets

CONSTANTS
  Root,           \* the filesystems, by mount point
  None,           \* no generation, no scan, no request
  Archive,        \* the filesystems with a stored snapshot at first
  MaxOutstanding, \* queries the broker keeps at once
  Faults          \* what may go wrong: \subseteq {"crash", "slow",
                  \* "scan", "open", "publish", "query"}

ASSUME NoneIsNoRoot == None \notin Root
ASSUME ArchiveOfRoots == Archive \subseteq Root

Generation == [gen : Nat, root : Root \cup {None}, persistent : BOOLEAN]
Scan == [gen : Nat, root : Root \cup {None}, mount : Root \cup {None},
         id : Nat \ {0}, cancelled : BOOLEAN]
ASSUME NoneIsNothing == /\ None \notin Nat
                        /\ None \notin Generation
                        /\ None \notin Scan

VARIABLES
  serving,    \* the process runs and has not been asked to stop
  stored,     \* the filesystems whose pointer names a complete database
  active,     \* None, or [gen, root, persistent]
  previous,   \* the same, while an activation is not settled
  staging,    \* None, or the scan [gen, root, mount, id, cancelled]
  outcomes,   \* outcomes of scans that are not written yet
  queries,    \* the queued queries, [id, gen], in order
  stdin,      \* requests on their way, [id, op, root, mount, gen, asked]
  stdout      \* messages on their way, [id, type, gen, root]

held == <<active, previous, staging>>
service == <<serving, stored, held, outcomes, queries>>

Message(m, type, gen, root) ==
  [id |-> m.id, type |-> type, gen |-> gen, root |-> root]
Writes(m, type, gen, root) ==
  stdout' = Append(stdout, Message(m, type, gen, root))

\* The control thread takes the next request, of operation op.
Takes(op) == /\ serving
             /\ stdin # <<>>
             /\ Head(stdin).op = op
             /\ stdin' = Tail(stdin)
Refuses(m) == /\ Writes(m, "error", None, None)
              /\ UNCHANGED service

Hello == LET m == Head(stdin) IN
  /\ Takes("hello")
  /\ Writes(m, "ready", None, None)
  /\ UNCHANGED service

\* The generation of a stored snapshot that is active already is used again.
Reusable(m) == /\ active # None
               /\ active.persistent
               /\ active.root = m.root

SnapshotOpen(fresh) == LET m == Head(stdin) IN
  /\ Takes("snapshotOpen")
  /\ \/ /\ staging # None \/ previous # None \/ "open" \in Faults
        /\ Refuses(m)
     \/ /\ staging = None /\ previous = None
        /\ IF Reusable(m)
           THEN /\ Writes(m, "snapshotAvailable", active.gen, m.root)
                /\ UNCHANGED service
           ELSE IF m.root \notin stored
           THEN /\ Writes(m, "snapshotMissing", None, m.root)
                /\ UNCHANGED service
           ELSE /\ previous' = active
                /\ active' = [gen |-> fresh, root |-> m.root, persistent |-> TRUE]
                /\ Writes(m, "snapshotAvailable", fresh, m.root)
                /\ UNCHANGED <<serving, stored, staging, outcomes, queries>>

\* Nothing may run on a generation other than the active one.
MayScan == /\ staging = None
           /\ previous = None
           /\ \A i \in DOMAIN queries :
                active # None /\ queries[i].gen = active.gen

ScanStart(fresh) == LET m == Head(stdin) IN
  /\ Takes("scanStart")
  /\ IF MayScan
     THEN /\ staging' = [gen |-> fresh, root |-> m.root, mount |-> m.mount,
                         id |-> m.id, cancelled |-> FALSE]
          /\ Writes(m, "scanStarted", fresh, m.root)
          /\ UNCHANGED <<serving, stored, active, previous, outcomes, queries>>
     ELSE Refuses(m)

ScanCancel == LET m == Head(stdin) IN
  /\ Takes("scanCancel")
  /\ IF staging # None /\ staging.gen = m.gen
     THEN /\ staging' = [staging EXCEPT !.cancelled = TRUE]
          /\ Writes(m, "scanCancelRequested", m.gen, None)
          /\ UNCHANGED <<serving, stored, active, previous, outcomes, queries>>
     ELSE Refuses(m)

Holds(x, g) == x # None /\ x.gen = g

Query == LET m == Head(stdin) IN
  /\ stdin # <<>>
  /\ Takes(IF Head(stdin).op = "metadata" THEN "metadata" ELSE "children")
  /\ IF /\ Holds(active, m.gen) \/ Holds(previous, m.gen)
        /\ Len(queries) < MaxOutstanding
     THEN /\ queries' = Append(queries, [id |-> m.id, gen |-> m.gen])
          /\ UNCHANGED <<serving, stored, held, outcomes, stdout>>
     ELSE Refuses(m)

\* A database that cannot be published refuses the commit.
ActivationCommit == LET m == Head(stdin) IN
  /\ Takes("activationCommit")
  /\ \/ /\ \/ ~Holds(active, m.gen)
           \/ "publish" \in Faults /\ ~active.persistent
        /\ Refuses(m)
     \/ /\ Holds(active, m.gen)
        /\ active' = [active EXCEPT !.persistent = TRUE]
        /\ stored' = stored \cup {active.root}
        /\ previous' = None
        /\ Writes(m, "activationCommitted", m.gen, None)
        /\ UNCHANGED <<serving, staging, outcomes, queries>>

ActivationAbort == LET m == Head(stdin) IN
  /\ Takes("activationAbort")
  /\ IF Holds(active, m.gen)
     THEN /\ active' = previous
          /\ previous' = None
          /\ Writes(m, "activationAborted", m.gen, None)
          /\ UNCHANGED <<serving, stored, staging, outcomes, queries>>
     ELSE Refuses(m)

Shutdown ==
  /\ Takes("shutdown")
  /\ serving' = FALSE
  /\ UNCHANGED <<stored, held, outcomes, queries, stdout>>

\* The worker settles its scan under the lock, and says so after it.
ScanActivates ==
  /\ serving
  /\ staging # None
  /\ ~staging.cancelled
  /\ staging.root = staging.mount
  /\ previous' = active
  /\ active' = [gen |-> staging.gen, root |-> staging.root,
                persistent |-> FALSE]
  /\ staging' = None
  /\ outcomes' = outcomes \cup
       {Message(staging, "snapshotActivated", staging.gen, staging.root)}
  /\ UNCHANGED <<serving, stored, queries, stdin, stdout>>

ScanFails ==
  /\ serving
  /\ staging # None
  /\ \/ staging.cancelled
     \/ staging.root # staging.mount
     \/ "scan" \in Faults
  /\ staging' = None
  /\ outcomes' = outcomes \cup
       {Message(staging, "scanFailed", staging.gen, staging.root)}
  /\ UNCHANGED <<serving, stored, active, previous, queries, stdin, stdout>>

ScanReports == \E o \in outcomes :
  /\ serving
  /\ outcomes' = outcomes \ {o}
  /\ stdout' = Append(stdout, o)
  /\ UNCHANGED <<serving, stored, held, queries, stdin>>

QueryAnswers ==
  /\ serving
  /\ queries # <<>>
  /\ \E type \in {"queryResult"} \cup
                 (IF "query" \in Faults THEN {"error"} ELSE {}) :
       Writes(Head(queries), type,
              IF type = "error" THEN None ELSE Head(queries).gen, None)
  /\ queries' = Tail(queries)
  /\ UNCHANGED <<serving, stored, held, outcomes, stdin>>

\* A process that ends leaves nothing but what is stored.
Gone == /\ serving' = FALSE
        /\ active' = None
        /\ previous' = None
        /\ staging' = None
        /\ outcomes' = {}
        /\ queries' = <<>>
        /\ stdin' = <<>>
        /\ stdout' = <<>>
        /\ UNCHANGED stored

Serve(fresh) ==
  \/ Hello \/ SnapshotOpen(fresh) \/ ScanStart(fresh) \/ ScanCancel
  \/ Query \/ ActivationCommit \/ ActivationAbort \/ Shutdown
Work == ScanActivates \/ ScanFails \/ ScanReports \/ QueryAnswers

ServiceInit == /\ serving = FALSE
               /\ stored = Archive
               /\ active = None /\ previous = None /\ staging = None
               /\ outcomes = {} /\ queries = <<>>
               /\ stdin = <<>> /\ stdout = <<>>
=============================================================================
