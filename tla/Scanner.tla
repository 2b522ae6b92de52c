------------------------------- MODULE Scanner -------------------------------
(***************************************************************************)
(* The walk of a file tree (helper/omatree_core/scanner.py): scan_tree     *)
(* keeps a stack of open directories, accounts what it meets in a          *)
(* ScanReporter and emits one record per directory when it leaves it, and  *)
(* one per regular file if the consumer wants them. The tree may change    *)
(* under it: what was listed may be gone when it is looked at.             *)
(***************************************************************************)
EXTENDS Integers, Sequences, FiniteSets, FiniteSetsExt

CONSTANTS
  Node,           \* the entries of the tree below its root
  Root,           \* the scan root
  None,
  Trees,          \* the file systems considered
  EmitFiles,      \* whether the consumer gave an emit_file
  MaxDirectories, MaxEntries, MaxIdentities,   \* ResourceLimits
  Faults          \* what may go wrong

Path == Node \cup {Root}

\* parent: the directory that lists an entry; inode: entries with the same
\* one are hard links; linked: the files whose own stat, when the walk comes to
\* them, shows more than one link. A file has names elsewhere, and gains and
\* loses names while it is walked: the stats of two names need not agree, nor
\* need they agree with inode. mounted: the mount points below the scan root;
\* long: the entries whose path passes max_path_bytes.
FileSystem ==
  [parent: [Node -> Path], kind: [Node -> {"directory", "file", "other"}],
   size: [Path -> Nat], inode: [Node -> Node], linked: SUBSET Node,
   mounted: SUBSET Node, long: SUBSET Node]

\* "vanish": an entry is gone when it is looked at, or its directory cannot be
\* read; "cut": reading a directory fails half-way; "again": a directory that
\* changes while it is read lists an entry once more; "cancel": the scan is
\* cancelled; "sink": the consumer refuses a record.
ASSUME TreesAssumption == Trees \subseteq FileSystem
\* What lists entries is a directory.
ASSUME ListingAssumption ==
  \A tree \in Trees : \A n \in Node :
    tree.parent[n] # Root => tree.kind[tree.parent[n]] = "directory"
\* The names of one file have one size.
ASSUME InodeAssumption ==
  \A tree \in Trees : \A n \in Node :
    tree.kind[n] = "file" => tree.size[tree.inode[n]] = tree.size[n]
ASSUME PathAssumption == Root \notin Node /\ None \notin Node \cup {Root} /\ IsFiniteSet(Node)
ASSUME LimitAssumption == {MaxDirectories, MaxEntries, MaxIdentities} \subseteq Nat \ {0}
ASSUME FaultAssumption == Faults \subseteq {"vanish", "cut", "again", "cancel", "sink"}

VARIABLES
  fs,          \* the file system that is scanned
  pc,          \* where scan_tree is, or how it ended
  cancelled,   \* Cancellation.cancelled
  stack,       \* the open directories, the deepest last
  seen,        \* seen_hardlinks
  discovered,  \* discovered_directory_count
  finished,    \* directory_count, the directory records emitted
  entries, bytes, warnings,   \* the ScanReporter's counters
  emitted      \* the record the last step gave to the consumer, or None

vars == <<fs, pc, cancelled, stack, seen, discovered, finished, entries,
          bytes, warnings, emitted>>

Frame == [path: Path, left: SUBSET Node, bytes: Nat, direct: Nat,
          children: Nat, files: Nat, warningStart: Nat]
DirectoryRecord ==
  [kind: {"directory"}, path: Path, parent: Path \cup {None}, bytes: Nat,
   direct: Nat, children: Nat, files: Nat, warnings: Nat]
FileRecord == [kind: {"file"}, path: Node, parent: Path, bytes: Nat]
ASSUME RecordAssumption == None \notin DirectoryRecord \cup FileRecord

TypeOK ==
  /\ fs \in Trees
  /\ pc \in {"start", "walk", "complete", "cancelled", "limit", "failed"}
  /\ cancelled \in BOOLEAN
  /\ stack \in Seq(Frame)
  /\ seen \subseteq Node
  /\ discovered \in 1..MaxDirectories /\ finished \in 0..MaxDirectories
  /\ entries \in 0..MaxEntries /\ bytes \in Nat /\ warnings \in Nat
  /\ emitted \in DirectoryRecord \cup FileRecord \cup {None}

Init ==
  /\ fs \in Trees
  /\ pc = "start" /\ cancelled = FALSE
  /\ stack = <<>> /\ seen = {} /\ discovered = 1 /\ finished = 0
  /\ entries = 0 /\ bytes = 0 /\ warnings = 0 /\ emitted = None

-----------------------------------------------------------------------------
Parent(n) == IF n = Root THEN None ELSE fs.parent[n]
Entries(d) == {n \in Node : fs.parent[n] = d}
Top == stack[Len(stack)]

\* A regular file that has more than one name when it is looked at.
Linked(n) == n \in fs.linked /\ fs.kind[n] = "file"

\* count_stat: what an entry adds; such a file counts at the first of its names.
CountedAgain(n) == fs.size[n]
Counted(n) == IF Linked(n) /\ fs.inode[n] \in seen THEN 0 ELSE fs.size[n]

\* The limits that count_stat raises: too many identities, too many entries.
OverLimitByOne(n) == entries > MaxEntries
OverLimit(n) ==
  \/ Linked(n) /\ fs.inode[n] \notin seen /\ Cardinality(seen) >= MaxIdentities
  \/ entries >= MaxEntries
Account(n) ==
  /\ seen' = IF Linked(n) THEN seen \cup {fs.inode[n]} ELSE seen
  /\ entries' = entries + 1
  /\ bytes' = bytes + Counted(n)

\* open_frame for directory n: it may not be readable. The count of warnings
\* is taken before that is known, so that the directory is charged for it.
CountedFirst(failures) == warnings + failures
WarningStart(failures) == warnings
Open(n, failures) ==
  [path |-> n, left |-> IF failures = 0 THEN Entries(n) ELSE {},
   bytes |-> Counted(n), direct |-> 0, children |-> 0, files |-> 0,
   warningStart |-> WarningStart(failures)]
Failures == IF "vanish" \in Faults THEN {0, 1} ELSE {0}

\* The entries still to come when n has been taken.
Remaining(n) ==
  {Top.left \ {n}} \cup IF "again" \in Faults THEN {Top.left} ELSE {}

\* The consumer raises; scan_tree closes its iterators and lets it through.
Refused == "sink" \in Faults /\ pc' = "failed"

-----------------------------------------------------------------------------
\* The root is looked at. If that fails nothing is emitted and the scan ends.
StartMissing ==
  /\ pc = "start" /\ "vanish" \in Faults
  /\ pc' = "complete"
  /\ warnings' = warnings + 1
  /\ UNCHANGED <<fs, cancelled, stack, seen, discovered, entries, bytes, emitted, finished>>

Start ==
  /\ pc = "start"
  /\ \E failures \in Failures :
       /\ stack' = <<Open(Root, failures)>>
       /\ warnings' = warnings + failures
  /\ Account(Root)
  /\ pc' = "walk"
  /\ UNCHANGED <<fs, cancelled, discovered, emitted, finished>>

Walking == pc = "walk" /\ ~ cancelled

\* An entry below a descendant mount point is passed over.
Exclude(n) ==
  /\ Walking /\ n \in Top.left
  /\ n \in fs.mounted /\ n \notin fs.long
  /\ stack' = [stack EXCEPT ![Len(stack)].left = @ \ {n}]
  /\ emitted' = None
  /\ UNCHANGED <<fs, pc, cancelled, seen, discovered, entries, bytes, warnings, finished>>

Visitable(n) ==
  /\ Walking /\ n \in Top.left
  /\ n \notin fs.mounted /\ n \notin fs.long

\* The entry is gone, or may not be looked at.
Miss(n) ==
  /\ Visitable(n) /\ "vanish" \in Faults
  /\ stack' = [stack EXCEPT ![Len(stack)].left = @ \ {n}]
  /\ warnings' = warnings + 1
  /\ emitted' = None
  /\ UNCHANGED <<fs, pc, cancelled, seen, discovered, entries, bytes, finished>>

\* A limit is exceeded.
TooMuch(n) ==
  /\ Walking /\ n \in Top.left
  /\ \/ n \in fs.long
     \/ n \notin fs.mounted /\ OverLimit(n)
     \/ /\ n \notin fs.mounted
        /\ fs.kind[n] = "directory" /\ discovered >= MaxDirectories
  /\ pc' = "limit"
  /\ emitted' = None
  /\ UNCHANGED <<fs, cancelled, stack, seen, discovered, entries, bytes, warnings, finished>>

Descend(n) ==
  /\ Visitable(n) /\ fs.kind[n] = "directory"
  /\ discovered < MaxDirectories /\ ~ OverLimit(n)
  /\ discovered' = discovered + 1
  /\ Account(n)
  /\ \E failures \in Failures, left \in Remaining(n) :
       /\ stack' = Append([stack EXCEPT ![Len(stack)].left = left],
                          Open(n, failures))
       /\ warnings' = warnings + failures
  /\ emitted' = None
  /\ UNCHANGED <<fs, pc, cancelled, finished>>

Reported(n) == EmitFiles /\ fs.kind[n] = "file"
Taken(frame, left, n) ==
  [frame EXCEPT !.left = left, !.bytes = @ + Counted(n),
                !.direct = @ + Counted(n),
                !.files = IF Reported(n) THEN @ + 1 ELSE @]
Measure(n) ==
  /\ Visitable(n) /\ fs.kind[n] # "directory"
  /\ ~ OverLimit(n)
  /\ Account(n)
  /\ \E left \in Remaining(n) :
       stack' = [stack EXCEPT ![Len(stack)] = Taken(@, left, n)]
  /\ IF Reported(n)
     THEN /\ emitted' = [kind |-> "file", path |-> n, parent |-> Top.path,
                         bytes |-> Counted(n)]
          /\ Refused \/ UNCHANGED pc
     ELSE emitted' = None /\ UNCHANGED pc
  /\ UNCHANGED <<fs, cancelled, discovered, warnings, finished>>

\* The deepest directory is read to its end, or reading it fails with entries
\* left: its record is emitted and added to the directory above it.
AddedBytesOnly(frame, record) == [frame EXCEPT !.bytes = @ + record.bytes]
AddedDirect(frame, record) ==
  [frame EXCEPT !.bytes = @ + record.direct, !.children = @ + 1]
Added(frame, record) ==
  [frame EXCEPT !.bytes = @ + record.bytes, !.children = @ + 1]
Leave ==
  /\ Walking
  /\ Top.left = {} \/ "cut" \in Faults
  /\ finished' = finished + 1
  /\ LET cut == IF Top.left = {} THEN 0 ELSE 1
         above == Len(stack) - 1
         record == [kind |-> "directory", path |-> Top.path,
                    parent |-> Parent(Top.path), bytes |-> Top.bytes,
                    direct |-> Top.direct, children |-> Top.children,
                    files |-> Top.files,
                    warnings |-> warnings + cut - Top.warningStart]
     IN /\ warnings' = warnings + cut
        /\ emitted' = record
        /\ stack' = [i \in 1..above |->
                      IF i = above THEN Added(stack[i], record) ELSE stack[i]]
        /\ Refused \/ pc' = IF above = 0 THEN "complete" ELSE "walk"
  /\ UNCHANGED <<fs, cancelled, seen, discovered, entries, bytes>>

\* The cancellation is noticed before the next entry is taken.
Stop ==
  /\ pc = "walk" /\ cancelled
  /\ pc' = "cancelled"
  /\ emitted' = None
  /\ UNCHANGED <<fs, cancelled, stack, seen, discovered, entries, bytes, warnings, finished>>

\* A signal handler or another thread cancels the scan.
Cancel ==
  /\ "cancel" \in Faults /\ ~ cancelled
  /\ pc \in {"start", "walk"}
  /\ cancelled' = TRUE
  /\ emitted' = None
  /\ UNCHANGED <<fs, pc, stack, seen, discovered, entries, bytes, warnings, finished>>

Visit(n) == Exclude(n) \/ Miss(n) \/ TooMuch(n) \/ Descend(n) \/ Measure(n)
Step == Start \/ StartMissing \/ Leave \/ Stop \/ \E n \in Node : Visit(n)
Next == Step \/ Cancel

Spec == Init /\ [][Next]_vars
=============================================================================
