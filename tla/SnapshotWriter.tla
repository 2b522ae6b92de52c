--------------------------- MODULE SnapshotWriter ---------------------------
(***************************************************************************)
(* The database of one scan (helper/omatree_core/sqlite_snapshot.py):      *)
(* rows are inserted as the scanner emits them, inside one transaction;    *)
(* finalize validates the whole and commits it, any failure deletes the    *)
(* file. A path is the primary key of its table.                           *)
(***************************************************************************)
EXTENDS Integers, FiniteSets

CONSTANTS
  None,
  MaxRows      \* resource_limits.max_directories

VARIABLES
  file,        \* "open", "complete" or "deleted"
  directories, \* the rows, each with its path
  files,
  meta         \* snapshot_meta, None before finalize

Paths(rows) == {row.path : row \in rows}
Of(rows, parent) == {row \in rows : row.parent = parent}

WriterInit ==
  file = "open" /\ directories = {} /\ files = {} /\ meta = None

\* _fail, abort: roll back, close, delete the file.
Abort ==
  file = "open" /\ file' = "deleted" /\ UNCHANGED <<directories, files, meta>>

\* insert_directory and insert_file refuse a second row of one path.
InsertDirectory(row) ==
  /\ file = "open"
  /\ Cardinality(directories) < MaxRows
  /\ row.path \notin Paths(directories)
  /\ directories' = directories \cup {row}
  /\ UNCHANGED <<file, files, meta>>

InsertFile(row) ==
  /\ file = "open"
  /\ row.path \notin Paths(files)
  /\ files' = files \cup {row}
  /\ UNCHANGED <<file, directories, meta>>

\* What the recursive query of _validate finds out: every directory can be
\* reached from the root, or else those that cannot be would be a set of
\* directories that has all their parents.
Reachable(root) ==
  \A S \in SUBSET (Paths(directories) \ {root}) :
    S # {} => \E row \in directories : row.path \in S /\ row.parent \notin S

\* _validate: one clause per query.
Valid(root, expected) ==
  /\ Cardinality(directories) = expected
  /\ \E row \in directories : row.path = root
  /\ \A row \in directories : row.parent = None <=> row.path = root
  /\ \A row \in directories \cup files :
       row.parent # None => row.parent \in Paths(directories)
  /\ \A row \in directories :
       /\ row.children = Cardinality(Of(directories, row.path))
       /\ row.files = Cardinality(Of(files, row.path))
  /\ Reachable(root)
  /\ Paths(directories) \cap Paths(files) = {}

\* The metadata is committed with the rows.
MetadataAsAnnounced(root, expected) ==
  [root |-> root, directories |-> expected, files |-> 0]
Metadata(root, expected) ==
  [root |-> root, directories |-> expected, files |-> Cardinality(files)]

Finalize(root, expected) ==
  /\ file = "open"
  /\ Valid(root, expected)
  /\ file' = "complete"
  /\ meta' = Metadata(root, expected)
  /\ UNCHANGED <<directories, files>>
=============================================================================
