---------------------------- MODULE ScanPipeline ----------------------------
(***************************************************************************)
(* A scan and what becomes of its records. The broker gives scan_tree a    *)
(* SnapshotWriter, the terminal interface a SnapshotBuilder; here one walk *)
(* feeds both. emit_directory and emit_file are calls, so a record is      *)
(* stored in the step of the walk that emits it.                           *)
(***************************************************************************)
EXTENDS Scanner

VARIABLES file, directories, files, meta,   \* the writer
          tree, pending                     \* the builder

Writer == INSTANCE SnapshotWriter WITH MaxRows <- MaxDirectories
Reader == INSTANCE SnapshotReader WITH MaxRows <- MaxDirectories
Builder == INSTANCE SnapshotBuilder WITH MaxRows <- MaxDirectories

ASSUME MetadataAssumption ==
  None \notin [root: {Root}, directories: Nat, files: Nat]

database == <<file, directories, files, meta>>
memory == <<tree, pending>>
all == <<vars, database, memory>>

PipelineInit == Init /\ Writer!WriterInit /\ Builder!BuilderInit

\* What the consumers do in the step of the walk that gave them a record. A
\* walk that raises aborts the writer; the builder is forgotten.
Stored ==
  IF pc' \in {"cancelled", "limit", "failed"}
  THEN Writer!Abort /\ UNCHANGED memory
  ELSE IF emitted' = None
  THEN UNCHANGED <<database, memory>>
  ELSE IF emitted'.kind = "file"
  THEN Writer!InsertFile(emitted') /\ UNCHANGED memory
  ELSE Writer!InsertDirectory(emitted') /\ Builder!Add(emitted')

Walk == Step /\ Stored

Interrupt == Cancel /\ UNCHANGED <<database, memory>>

\* The broker finalizes what the walk returned, or the writer gives up.
Finalize ==
  /\ pc = "complete"
  /\ \/ Writer!Finalize(Root, finished)
     \/ ~ Writer!Valid(Root, finished) /\ Writer!Abort
  /\ UNCHANGED <<vars, memory>>

PipelineNext == Walk \/ Interrupt \/ Finalize
PipelineSpec == PipelineInit /\ [][PipelineNext]_all

-----------------------------------------------------------------------------
Row(d) == CHOOSE row \in directories : row.path = d
Total(size, S) == MapThenSumSet(LAMBDA x : size[x], S)
Bytes(rows) == Total([row \in rows |-> row.bytes], rows)

\* The sizes that a directory shows are consistent with those below it: the
\* walk adds every subtree to the directory above it exactly once, and what
\* the root shows is what the scan reports as its total.
SizesAddUp ==
  file = "complete" =>
    /\ \A row \in directories :
         row.bytes = fs.size[row.path] + row.direct
                     + Bytes(Writer!Of(directories, row.path))
    /\ Row(Root).bytes = bytes

\* However many names of a file a scan meets, and in whichever order: all that
\* showed several links when they were looked at count it once between them,
\* and a name that showed one link counts it in full. So a file whose links
\* stay as they are is counted once. (One that gains or loses a name between
\* two of them may be counted again.)
Inodes(rows) == {fs.inode[row.path] : row \in rows}
HardlinksCountOnce ==
  file = "complete" =>
    LET linked == {row \in files : row.path \in fs.linked} IN
    /\ Bytes(linked) = Total(fs.size, Inodes(linked))
    /\ \A row \in files \ linked : row.bytes = fs.size[row.path]

\* A directory below which something was listed and not measured is marked:
\* its warning count is not zero, nor is that of any directory above it.
Below(n) ==
  LET above[k \in 0..Cardinality(Node)] ==
        IF k = 0 THEN {n}
        ELSE above[k-1] \cup {fs.parent[m] : m \in above[k-1] \cap Node}
  IN above[Cardinality(Node)] \ {n}
IncompleteIsMarked ==
  file = "complete" =>
    \A n \in Node :
      \/ n \in Writer!Paths(directories \cup files)
      \/ ({n} \cup Below(n)) \cap fs.mounted # {}
      \/ fs.kind[n] # "directory" /\ ~ Reported(n)   \* has no row anyway
      \/ \A row \in directories :
           row.path \in Below(n) => row.warnings > 0

\* A walk that returned a root is accepted by both consumers, whatever was
\* missing, unreadable or cut short below it, and they agree on the tree.
CompleteWalksAccepted ==
  pc = "complete" /\ directories # {} =>
    /\ Writer!Valid(Root, finished)
    /\ Builder!Accepts(Root, finished)
    /\ Builder!Known = Writer!Paths(directories)

\* Whoever opens the file gets a snapshot whole or not at all: a completed
\* one is accepted, with all its rows; one that is being written, or whose
\* scan failed, never is.
OpensWhenComplete ==
  /\ Reader!Opens <=> file = "complete"
  /\ file = "complete" =>
       /\ \A row \in directories : Reader!RowLegal(row)
       /\ \A row \in files : Reader!FileRowLegal(row)
=============================================================================
