--------------------------- MODULE SnapshotReader ---------------------------
(***************************************************************************)
(* Opening a database (SQLiteSnapshotReader.open of                        *)
(* omatree_core/sqlite_query.py): nothing is served from a file that was   *)
(* not completed, or whose metadata or rows contradict each other.         *)
(***************************************************************************)
EXTENDS Integers, FiniteSets

CONSTANTS None, MaxRows

VARIABLES file, directories, files, meta

\* _validate_completed_snapshot.
Opens ==
  /\ file = "complete" /\ meta # None
  /\ meta.directories \in 1..MaxRows
  /\ Cardinality(directories) = meta.directories
  /\ Cardinality({row \in directories : row.path = meta.root}) = 1
  /\ Cardinality(files) = meta.files

\* _row, _file_row: what makes a query fail instead of answering with a row.
RowLegal(row) ==
  /\ row.parent = None <=> row.path = meta.root
  /\ {row.bytes, row.direct, row.children, row.files, row.warnings} \subseteq Nat
FileRowLegal(row) == row.parent # None /\ row.bytes \in Nat
=============================================================================
