------------------------- MODULE ScanPipelineProofs -------------------------
(***************************************************************************)
(* Proofs about a walk and its two consumers, for every file system, every *)
(* limit and every choice of the faults.                                   *)
(***************************************************************************)
EXTENDS ScanPipeline, ScannerProofs, Iteration, FiniteSetTheorems

-----------------------------------------------------------------------------
(* The inductive invariant of the consumers. A directory that is listed    *)
(* again is walked again, and the rows below it are stored while its own   *)
(* numbers, stored before, do not count them: that goes unnoticed until it *)
(* is left and its second row is refused. So what is claimed about a row   *)
(* excepts the directories on the stack, and what is claimed about a frame *)
(* the directories that have a row.                                        *)

Kept == Writer!Paths(directories)
Opened == {stack[i].path : i \in Depths}
Reached == Kept \cup Opened
Going == pc \in {"start", "walk", "complete"}

Rows ==
  /\ directories \subseteq DirectoryRecord /\ files \subseteq FileRecord
  /\ IsFiniteSet(directories) /\ IsFiniteSet(files)
  /\ \A r, q \in directories : r.path = q.path => r = q
  /\ \A r, q \in files : r.path = q.path => r = q
  /\ \A row \in directories :
       /\ row.parent = Parent(row.path)
       /\ row.path # Root => fs.kind[row.path] = "directory"
  /\ \A row \in files : row.parent = Parent(row.path) /\ fs.kind[row.path] = "file"

Finalized ==
  /\ file \in {"open", "complete", "deleted"}
  /\ file = "complete" =>
       /\ pc = "complete" /\ Writer!Valid(Root, finished)
       /\ meta = Writer!Metadata(Root, finished)

Hanging ==
  /\ finished = Cardinality(directories)
  /\ pc = "start" => directories = {} /\ files = {}
  /\ pc = "complete" => stack = <<>> /\ (directories # {} => Root \in Kept)
  /\ \A p \in Reached : p # Root => fs.parent[p] \in Reached
  /\ \A row \in files : row.parent \in Reached
  /\ \A S \in SUBSET (Reached \ {Root}) :
       S # {} => \E p \in S : fs.parent[p] \notin S

Numbers(p, children, count) ==
  /\ children = Cardinality(Writer!Of(directories, p))
  /\ count = Cardinality(Writer!Of(files, p))
Accounted ==
  /\ \A i \in Depths : stack[i].path \notin Kept =>
       Numbers(stack[i].path, stack[i].children, stack[i].files)
  /\ \A row \in directories : row.path \notin Opened =>
       Numbers(row.path, row.children, row.files)

Children(p) == {q \in Kept : Parent(q) = p}
Directory ==
  [parent: Path \cup {None}, bytes: Nat, count: Nat, children: SUBSET Path]
Built ==
  /\ tree \in [Kept -> Directory]
  /\ pending \in [Path -> SUBSET Path]
  /\ \A row \in directories : tree[row.path].count = row.children
  /\ \A p \in Kept : tree[p].children = Children(p)
  /\ \A p \in Path : pending[p] = IF p \in Kept THEN {} ELSE Children(p)

PipelineInv ==
  /\ WalkInv /\ Rows /\ Finalized
  /\ Going => Hanging /\ Accounted /\ Built

-----------------------------------------------------------------------------
(* Rows and their numbers.                                                 *)

\* The rows of a directory, when one row is added.
LEMMA OfAdded ==
  ASSUME NEW rows, IsFiniteSet(rows), NEW row,
         row.path \notin Writer!Paths(rows), NEW p
  PROVE  /\ IsFiniteSet(rows \cup {row})
         /\ Cardinality(rows \cup {row}) = Cardinality(rows) + 1
         /\ Cardinality(Writer!Of(rows, p)) \in Nat
         /\ Cardinality(Writer!Of(rows \cup {row}, p)) =
              IF row.parent = p THEN Cardinality(Writer!Of(rows, p)) + 1
              ELSE Cardinality(Writer!Of(rows, p))
<1>1. row \notin rows
  BY DEF Writer!Paths
<1>2. IsFiniteSet(Writer!Of(rows, p)) /\ row \notin Writer!Of(rows, p)
  <2>1. Writer!Of(rows, p) \subseteq rows
    BY DEF Writer!Of
  <2> QED
    BY <1>1, <2>1, FS_Subset
<1>3. CASE row.parent = p
  <2>1. Writer!Of(rows \cup {row}, p) = Writer!Of(rows, p) \cup {row}
    BY <1>3 DEF Writer!Of
  <2> QED
    BY <1>1, <1>2, <1>3, <2>1, FS_AddElement, FS_CardinalityType
<1>4. CASE row.parent # p
  <2>1. Writer!Of(rows \cup {row}, p) = Writer!Of(rows, p)
    BY <1>4 DEF Writer!Of
  <2> QED
    BY <1>1, <1>2, <1>4, <2>1, FS_AddElement, FS_CardinalityType
<1> QED
  BY <1>3, <1>4

\* A directory that is neither kept nor open has no rows below it.
LEMMA NothingBelow ==
  ASSUME PipelineInv, Going, NEW p, p \notin Reached, p # None
  PROVE  Numbers(p, 0, 0)
<1>1. ASSUME NEW row \in directories PROVE row.parent # p
  <2>1. row.path \in Reached /\ row.parent = Parent(row.path)
    BY <1>1 DEF Reached, Kept, Writer!Paths, PipelineInv, Rows
  <2> QED
    BY <2>1 DEF PipelineInv, Hanging, Parent
<1>2. \A row \in files : row.parent # p
  BY DEF PipelineInv, Hanging
<1>3. Writer!Of(directories, p) = {} /\ Writer!Of(files, p) = {}
  BY <1>1, <1>2 DEF Writer!Of
<1> QED
  BY <1>3, FS_EmptySet DEF Numbers

\* As long as the rows stay as they are what was claimed of them stays true.
LEMMA RowsStay ==
  ASSUME Rows, UNCHANGED <<fs, directories, files>>
  PROVE  Rows'
BY DEF Rows, Parent

\* The same of what is built.
LEMMA BuiltStays ==
  ASSUME Built, UNCHANGED <<fs, directories, memory>>
  PROVE  Built'
BY DEF Built, memory, Kept, Children, Parent

-----------------------------------------------------------------------------
(* The steps of the walk, and what the consumers make of them.             *)

\* While the walk goes on the database is not complete.
LEMMA NotCompleteYet ==
  ASSUME PipelineInv, pc # "complete", file' \in {file, "deleted"}
  PROVE  file # "complete" /\ Finalized'
BY DEF PipelineInv, Finalized

\* A walk that raises leaves nothing but a deleted database.
LEMMA PipelineRaises ==
  ASSUME PipelineInv, Step, WalkInv', Stored,
         pc' \in {"cancelled", "limit", "failed"}
  PROVE  PipelineInv'
<1>1. fs' = fs /\ pc \in {"start", "walk"}
  BY DEF Step, Start, StartMissing, Leave, Stop, Visit, Exclude, Miss, TooMuch,
         Descend, Measure, Visitable, Walking
<1>2. file' = "deleted" /\ UNCHANGED <<directories, files>>
  BY DEF Stored, Writer!Abort
<1>3. Rows' /\ Finalized'
  BY <1>1, <1>2, RowsStay, NotCompleteYet DEF PipelineInv
<1> QED
  BY <1>3 DEF PipelineInv, Going

\* The frames stay where they are, with what they count.
PathsUnmoved ==
  /\ pc' = pc /\ Len(stack') = Len(stack)
  /\ \A i \in Depths :
       /\ stack'[i].path = stack[i].path
       /\ stack'[i].children = stack[i].children
       /\ stack'[i].files = stack[i].files
  /\ UNCHANGED <<fs, finished>>

\* A step of which the consumers see nothing and that moves no frame.
LEMMA PipelineUnmoved ==
  ASSUME PipelineInv, WalkInv', PathsUnmoved, Going, pc # "complete",
         UNCHANGED <<database, memory>>
  PROVE  PipelineInv'
<1>1. /\ fs' = fs /\ file' = file /\ directories' = directories /\ files' = files
      /\ pc' = pc /\ finished' = finished /\ Len(stack') = Len(stack)
  BY DEF PathsUnmoved, database
<1>2. Rows' /\ Finalized' /\ Built'
  BY <1>1, RowsStay, NotCompleteYet, BuiltStays DEF PipelineInv
<1>3. Kept' = Kept /\ Depths' = Depths
  BY <1>1 DEF Kept, Depths
<1>4. Opened' = Opened /\ Reached' = Reached
  <2>1. Opened' = Opened
    BY <1>3 DEF Opened, PathsUnmoved
  <2> QED
    BY <1>3, <2>1 DEF Reached
<1>5. Hanging'
  BY <1>1, <1>3, <1>4 DEF PipelineInv, Hanging
<1>6. Accounted'
  <2>1. \A p, m, k : Numbers(p, m, k)' <=> Numbers(p, m, k)
    BY <1>1 DEF Numbers
  <2> QED
    BY <1>1, <1>3, <1>4 DEF PipelineInv, Accounted, PathsUnmoved, Numbers
<1> QED
  BY <1>1, <1>2, <1>5, <1>6 DEF PipelineInv, Going

\* The walk begins, or ends at once.
LEMMA PipelineStart ==
  ASSUME PipelineInv, WalkInv', Start \/ StartMissing, Stored
  PROVE  PipelineInv'
<1>1. /\ pc = "start" /\ stack = <<>> /\ emitted = None
      /\ directories = {} /\ files = {} /\ finished = 0 /\ Built
  BY DEF Start, StartMissing, PipelineInv, WalkInv, Fresh, Hanging, Going
<1>2. /\ fs' = fs /\ emitted' = None /\ finished' = 0
      /\ pc' \in {"walk", "complete"}
  BY <1>1 DEF Start, StartMissing
<1>3. UNCHANGED <<database, memory>>
  BY <1>2 DEF Stored
<1>4. directories' = {} /\ files' = {} /\ file' = file
  BY <1>1, <1>3 DEF database
<1>5. Rows' /\ Finalized' /\ Built'
  BY <1>1, <1>2, <1>3, <1>4, RowsStay, BuiltStays, NotCompleteYet DEF PipelineInv
<1>6. /\ pc' = "complete" => stack' = <<>>
      /\ \A i \in Depths' : stack'[i].path = Root
                            /\ stack'[i].children = 0 /\ stack'[i].files = 0
  <2>1. CASE StartMissing
    BY <1>1, <2>1 DEF StartMissing, Depths
  <2>2. CASE Start
    <3>1. PICK failures \in Failures : stack' = <<Open(Root, failures)>>
      BY <2>2 DEF Start
    <3>2. Len(stack') = 1 /\ stack'[1] = Open(Root, failures)
      BY <3>1
    <3>3. \A i \in Depths' : i = 1
      BY <3>2 DEF Depths
    <3> QED
      BY <2>2, <3>2, <3>3 DEF Start, Open
  <2> QED
    BY <2>1, <2>2
<1>7. Kept' = {} /\ Reached' \subseteq {Root}
  BY <1>4, <1>6 DEF Kept, Reached, Opened, Writer!Paths
<1>8. Hanging'
  BY <1>2, <1>4, <1>6, <1>7, FS_EmptySet DEF Hanging
<1>9. \A p : Numbers(p, 0, 0)'
  <2>1. \A p : Writer!Of(directories', p) = {} /\ Writer!Of(files', p) = {}
    BY <1>4 DEF Writer!Of
  <2> QED
    BY <2>1, FS_EmptySet DEF Numbers, Writer!Of
<1>10. Accounted'
  BY <1>4, <1>6, <1>9 DEF Accounted
<1> QED
  BY <1>5, <1>8, <1>10 DEF PipelineInv

\* A directory is entered.
LEMMA PipelineDescend ==
  ASSUME PipelineInv, WalkInv', NEW n \in Node, Descend(n), Stored
  PROVE  PipelineInv'
<1>1. /\ pc = "walk" /\ Going /\ pc' = pc /\ fs' = fs /\ emitted' = None
      /\ finished' = finished /\ stack # <<>>
  BY DEF Descend, Visitable, Walking, Going, PipelineInv, WalkInv, Bounded
<1>2. UNCHANGED <<database, memory>>
  BY <1>1 DEF Stored
<1>3. directories' = directories /\ files' = files /\ file' = file
  BY <1>2 DEF database
<1>4. Rows' /\ Finalized' /\ Built'
  BY <1>1, <1>2, <1>3, RowsStay, BuiltStays, NotCompleteYet DEF PipelineInv
<1>5. WalkInv /\ Hanging /\ Accounted
  BY <1>1 DEF PipelineInv
<1>6. /\ Len(stack') = Len(stack) + 1
      /\ \A i \in Depths : stack[i].path # n
      /\ \A i \in Depths :
           /\ stack'[i].path = stack[i].path
           /\ stack'[i].children = stack[i].children
           /\ stack'[i].files = stack[i].files
      /\ stack'[Len(stack')].path = n
      /\ stack'[Len(stack')].children = 0 /\ stack'[Len(stack')].files = 0
      /\ n # Root /\ fs.parent[n] = Top.path
  BY <1>5, WalkDescend
<1>7. Kept' = Kept
  BY <1>3 DEF Kept
<1>8. /\ Depths' = Depths \cup {Len(stack')}
      /\ Len(stack) \in Depths
  <2>1. Len(stack) \in Nat /\ Len(stack) # 0
    BY <1>1, <1>5 DEF WalkInv, TypeOK
  <2> QED
    BY <1>6, <2>1 DEF Depths
<1>9. Opened' = Opened \cup {n} /\ Reached' = Reached \cup {n} /\ n \notin Opened
  <2>1. Opened' = Opened \cup {n} /\ n \notin Opened
    BY <1>6, <1>8 DEF Opened
  <2> QED
    BY <1>7, <2>1 DEF Reached
<1>10. Top.path \in Reached /\ n # None
  BY <1>8, PathAssumption DEF Reached, Opened, Top
<1>11. Hanging'
  <2>1. ASSUME NEW p \in Reached', p # Root PROVE fs'.parent[p] \in Reached'
    BY <1>1, <1>5, <1>6, <1>9, <1>10, <2>1 DEF Hanging
  <2>2. \A row \in files' : row.parent \in Reached'
    BY <1>3, <1>5, <1>9 DEF Hanging
  <2>3. ASSUME NEW S \in SUBSET (Reached' \ {Root}), S # {}
        PROVE  \E p \in S : fs'.parent[p] \notin S
    <3>1. CASE n \in Reached \/ n \notin S
      BY <1>1, <1>5, <1>9, <2>3, <3>1 DEF Hanging
    <3>2. CASE n \notin Reached /\ n \in S
      <4>1. CASE S = {n}
        BY <1>1, <1>6, <1>10, <3>2, <4>1
      <4>2. CASE S \ {n} # {}
        <5>1. S \ {n} \in SUBSET (Reached \ {Root})
          BY <1>9
        <5>2. PICK p \in S \ {n} : fs.parent[p] \notin S \ {n}
          BY <1>5, <4>2, <5>1 DEF Hanging
        <5>3. fs.parent[p] \in Reached
          BY <1>5, <5>1 DEF Hanging
        <5> QED
          BY <1>1, <3>2, <5>2, <5>3
      <4> QED
        BY <3>2, <4>1, <4>2
    <3> QED
      BY <3>1, <3>2
  <2> QED
    BY <1>1, <1>3, <1>5, <1>7, <2>1, <2>2, <2>3 DEF Hanging
<1>12. Accounted'
  <2>1. \A p, m, k : Numbers(p, m, k) => Numbers(p, m, k)'
    BY <1>3 DEF Numbers
  <2>2. n \notin Kept => Numbers(n, 0, 0)
    BY <1>1, <1>9, <1>10, NothingBelow DEF Reached
  <2>3. ASSUME NEW i \in Depths', stack'[i].path \notin Kept
        PROVE  Numbers(stack'[i].path, stack'[i].children, stack'[i].files)
    <3>1. CASE i \in Depths
      BY <1>5, <1>6, <2>3, <3>1 DEF Accounted
    <3>2. CASE i = Len(stack')
      BY <1>6, <2>2, <2>3, <3>2
    <3> QED
      BY <1>8, <3>1, <3>2
  <2>4. ASSUME NEW row \in directories, row.path \notin Opened'
        PROVE  Numbers(row.path, row.children, row.files)
    BY <1>5, <1>9, <2>4 DEF Accounted
  <2> QED
    BY <1>3, <1>7, <2>1, <2>3, <2>4 DEF Accounted, Numbers
<1> QED
  BY <1>4, <1>11, <1>12 DEF PipelineInv

\* An entry is measured: a file that is reported gets a row, and the
\* directory that counts it is the deepest.
LEMMA PipelineMeasure ==
  ASSUME PipelineInv, WalkInv', NEW n \in Node, Measure(n), Stored,
         pc' # "failed"
  PROVE  PipelineInv'
<1>1. /\ pc = "walk" /\ Going /\ pc' = pc /\ fs' = fs /\ finished' = finished
  BY DEF Measure, Visitable, Walking, Going, Refused
<1>2. WalkInv /\ Hanging /\ Accounted /\ Rows /\ Built
  BY <1>1 DEF PipelineInv
<1>3. /\ Len(stack') = Len(stack) /\ Len(stack) \in Depths
      /\ \A i \in Depths :
           /\ stack'[i].path = stack[i].path
           /\ stack'[i].children = stack[i].children
           /\ stack'[i].files =
                IF Reported(n) /\ i = Len(stack) THEN stack[i].files + 1
                ELSE stack[i].files
      /\ fs.parent[n] = Top.path
  BY <1>2, WalkMeasure
<1>4. CASE ~ Reported(n)
  <2>1. emitted' = None
    BY <1>2, <1>4, WalkMeasure
  <2>2. UNCHANGED <<database, memory>>
    BY <1>1, <2>1 DEF Stored
  <2>3. PathsUnmoved
    BY <1>1, <1>3, <1>4 DEF PathsUnmoved
  <2> QED
    BY <1>1, <2>2, <2>3, PipelineUnmoved
<1>5. CASE Reported(n)
  <2> DEFINE row == [kind |-> "file", path |-> n, parent |-> Top.path,
                     bytes |-> Counted(n)]
  <2>1. emitted' = row /\ row \in FileRecord
    BY <1>2, <1>5, WalkMeasure
  <2>2. row.kind = "file" /\ row.path = n /\ row.parent = Top.path
    OBVIOUS
  <2> HIDE DEF row
  <2>3. row # None
    BY <2>1, RecordAssumption
  <2>4. Writer!InsertFile(row) /\ UNCHANGED memory
    BY <1>1, <2>1, <2>2, <2>3 DEF Stored
  <2>5. /\ n \notin Writer!Paths(files) /\ files' = files \cup {row}
        /\ UNCHANGED <<file, directories, meta, memory>>
    BY <2>2, <2>4 DEF Writer!InsertFile
  <2>6. Built' /\ Finalized'
    BY <1>1, <1>2, <2>5, BuiltStays, NotCompleteYet
  <2>7. Rows'
    <3>1. fs.kind[n] = "file"
      BY <1>5 DEF Reported
    <3>2. IsFiniteSet(files \cup {row})
      BY <1>2, <2>2, <2>5, OfAdded DEF Rows
    <3>3. Parent(n) = Top.path
      BY <1>3, PathAssumption DEF Parent
    <3>4. \A r \in files : r.path # row.path
      BY <2>2, <2>5 DEF Writer!Paths
    <3>5. files' \subseteq FileRecord
      BY <1>2, <2>1, <2>5 DEF Rows
    <3>6. \A r, q \in files' : r.path = q.path => r = q
      BY <1>2, <2>5, <3>4 DEF Rows
    <3>7. \A r \in files' : r.parent = Parent(r.path) /\ fs.kind[r.path] = "file"
      BY <1>2, <2>2, <2>5, <3>1, <3>3 DEF Rows
    <3> QED
      BY <1>1, <1>2, <2>5, <3>2, <3>5, <3>6, <3>7 DEF Rows, Parent
  <2>8. Kept' = Kept /\ Depths' = Depths
    BY <1>3, <2>5 DEF Kept, Depths
  <2>9. Opened' = Opened /\ Reached' = Reached
    <3>1. Opened' = Opened
      BY <1>3, <2>8 DEF Opened
    <3> QED
      BY <2>8, <3>1 DEF Reached
  <2>10. Top.path \in Opened
    BY <1>3 DEF Opened, Top
  <2>11. Hanging'
    BY <1>1, <1>2, <2>2, <2>5, <2>8, <2>9, <2>10 DEF Hanging, Reached
  <2> DEFINE Now(p, m, k) == /\ m = Cardinality(Writer!Of(directories', p))
                             /\ k = Cardinality(Writer!Of(files', p))
  <2>12. ASSUME NEW p, NEW m, NEW k, Numbers(p, m, k)
         PROVE  IF p = Top.path THEN Now(p, m, k + 1) ELSE Now(p, m, k)
    <3>1. Cardinality(Writer!Of(files', p)) =
            IF Top.path = p THEN Cardinality(Writer!Of(files, p)) + 1
            ELSE Cardinality(Writer!Of(files, p))
      <4>1. IsFiniteSet(files) /\ row.path \notin Writer!Paths(files)
        BY <1>2, <2>2, <2>5 DEF Rows
      <4>2. files' = files \cup {row}
        BY <2>5
      <4> QED
        BY <2>2, <4>1, <4>2, OfAdded
    <3> QED
      BY <2>5, <2>12, <3>1 DEF Numbers
  <2>13. Accounted'
    <3> HIDE DEF Now
    <3>1. ASSUME NEW i \in Depths, stack'[i].path \notin Kept
          PROVE  Now(stack'[i].path, stack'[i].children, stack'[i].files)
      <4>1. Numbers(stack[i].path, stack[i].children, stack[i].files)
        BY <1>2, <1>3, <3>1 DEF Accounted
      <4>2. stack[i].path = Top.path <=> i = Len(stack)
        BY <1>2, <1>3 DEF WalkInv, Chain, Depths, Top
      <4>3. IF i = Len(stack)
            THEN Now(stack[i].path, stack[i].children, stack[i].files + 1)
            ELSE Now(stack[i].path, stack[i].children, stack[i].files)
        BY <2>12, <4>1, <4>2
      <4> QED
        BY <1>3, <1>5, <4>3
    <3>2. ASSUME NEW r \in directories, r.path \notin Opened
          PROVE  Now(r.path, r.children, r.files)
      BY <1>2, <2>10, <2>12, <3>2 DEF Accounted
    <3> QED
      BY <2>5, <2>8, <2>9, <3>1, <3>2 DEF Accounted, Numbers, Now
  <2> QED
    BY <2>6, <2>7, <2>11, <2>13 DEF PipelineInv
<1> QED
  BY <1>4, <1>5

\* A record that is linked to its parent, or to the one that waits for it.
LEMMA Linking ==
  ASSUME PipelineInv, Built, NEW row \in DirectoryRecord, row.path \notin Kept,
         row.parent = Parent(row.path), row.parent # row.path,
         Builder!Add(row), directories' = directories \cup {row}, fs' = fs
  PROVE  Built'
<1> DEFINE p == row.path  above == row.parent
           node == [parent |-> above, bytes |-> row.bytes,
                    count |-> row.children, children |-> pending[p]]
           grown == [q \in Kept \cup {p} |-> IF q = p THEN node ELSE tree[q]]
           waiting == [pending EXCEPT ![p] = {}]
<1>1. /\ Builder!Known = Kept /\ Kept' = Kept \cup {p} /\ p \in Path
      /\ above \in Path \cup {None}
  BY DEF Built, Builder!Known, Kept, Writer!Paths, DirectoryRecord
<1>2. IF above \in Kept
      THEN /\ tree' = [grown EXCEPT ![above].children = @ \cup {p}]
           /\ pending' = waiting
      ELSE /\ tree' = grown
           /\ pending' = IF above = None THEN waiting
                         ELSE [waiting EXCEPT ![above] = @ \cup {p}]
  BY <1>1 DEF Builder!Add
<1>3. node \in Directory /\ node.children = pending[p] /\ node.count = row.children
  BY <1>1 DEF Built, Directory, DirectoryRecord
<1> HIDE DEF node
<1>4. /\ grown \in [Kept' -> Directory] /\ grown[p] = node
      /\ \A q \in Kept : grown[q] = tree[q]
  BY <1>1, <1>3 DEF Built
<1>5. /\ waiting \in [Path -> SUBSET Path] /\ waiting[p] = {}
      /\ \A q \in Path : q # p => waiting[q] = pending[q]
  BY <1>1 DEF Built
<1> HIDE DEF grown, waiting
<1>6. /\ tree' \in [Kept' -> Directory]
      /\ \A q \in Kept' : tree'[q].count = grown[q].count
      /\ \A q \in Kept' :
           tree'[q].children = IF q = above THEN grown[q].children \cup {p}
                               ELSE grown[q].children
  <2>1. CASE above \in Kept
    <3> DEFINE old == grown[above]
               new == [old EXCEPT !.children = old.children \cup {p}]
    <3>1. old \in Directory /\ above \in Kept'
      BY <1>1, <1>4, <2>1
    <3>2. /\ new \in Directory /\ new.count = old.count
          /\ new.children = old.children \cup {p}
      BY <1>1, <3>1 DEF Directory
    <3>3. tree' = [grown EXCEPT ![above] = new]
      BY <1>2, <2>1
    <3> HIDE DEF new
    <3>4. /\ tree' \in [Kept' -> Directory] /\ tree'[above] = new
          /\ \A q \in Kept' : q # above => tree'[q] = grown[q]
      BY <1>4, <3>1, <3>2, <3>3
    <3> QED
      BY <3>2, <3>4
  <2>2. CASE above \notin Kept
    BY <1>1, <1>2, <1>4, <2>2
  <2> QED
    BY <2>1, <2>2
<1>7. /\ pending' \in [Path -> SUBSET Path]
      /\ \A q \in Path :
           pending'[q] = IF q = p THEN {}
                         ELSE IF q = above /\ above \notin Kept THEN pending[q] \cup {p}
                         ELSE pending[q]
  <2>1. None \notin Path
    BY PathAssumption DEF Path
  <2>2. CASE above \in Kept \/ above = None
    BY <1>1, <1>2, <1>5, <2>1, <2>2
  <2>3. CASE above \notin Kept /\ above # None
    <3>1. pending' = [waiting EXCEPT ![above] = waiting[above] \cup {p}]
      BY <1>2, <2>3
    <3>2. above \in Path /\ waiting[above] \cup {p} \in SUBSET Path
      BY <1>1, <1>5, <2>3
    <3> QED
      BY <1>5, <2>3, <3>1, <3>2
  <2> QED
    BY <2>2, <2>3
<1>8. \A q : Children(q)' = IF q = above THEN Children(q) \cup {p} ELSE Children(q)
  BY <1>1 DEF Children, Parent
<1>9. \A r \in directories' : tree'[r.path].count = r.children
  <2>1. \A r \in directories : r.path \in Kept /\ tree[r.path].count = r.children
    BY DEF Built, Kept, Writer!Paths
  <2> QED
    BY <1>1, <1>3, <1>4, <1>6, <2>1
<1>10. ASSUME NEW q \in Kept' PROVE tree'[q].children = Children(q)'
  <2>1. CASE q = p
    <3>1. tree'[p].children = pending[p]
      BY <1>1, <1>3, <1>4, <1>6
    <3>2. Children(p)' = Children(p)
      BY <1>8
    <3>3. pending[p] = Children(p)
      BY <1>1 DEF Built
    <3>4. Children(q)' = Children(p)'
      BY <2>1, <1>8
    <3> QED
      BY <2>1, <3>1, <3>2, <3>3, <3>4
  <2>2. CASE q \in Kept
    <3>1. tree[q].children = Children(q)
      BY <2>2 DEF Built
    <3>2. tree'[q].children = IF q = above THEN tree[q].children \cup {p}
                              ELSE tree[q].children
      BY <1>1, <1>4, <1>6, <2>2
    <3> QED
      BY <1>8, <3>1, <3>2
  <2> QED
    BY <1>1, <2>1, <2>2
<1>11. ASSUME NEW q \in Path
       PROVE  pending'[q] = IF q \in Kept' THEN {} ELSE Children(q)'
  <2>1. CASE q = p
    BY <1>1, <1>7, <2>1
  <2>2. CASE q # p /\ q \in Kept
    BY <1>1, <1>7, <2>2 DEF Built
  <2>3. CASE q # p /\ q \notin Kept
    BY <1>1, <1>7, <1>8, <2>3 DEF Built
  <2> QED
    BY <2>1, <2>2, <2>3
<1> QED
  BY <1>6, <1>7, <1>9, <1>10, <1>11 DEF Built

\* A directory is left: its row is stored, its number goes to the one above,
\* and the rest of the stack stays.
LEMMA LeaveFacts ==
  ASSUME PipelineInv, WalkInv', Leave, Stored, pc' # "failed"
  PROVE  LET row == emitted'  p == Top.path IN
         /\ pc = "walk" /\ Going /\ fs' = fs /\ pc' \in {"walk", "complete"}
         /\ Len(stack) \in Depths /\ Len(stack') = Len(stack) - 1
         /\ row \in DirectoryRecord
         /\ row.path = p /\ row.parent = Parent(p)
         /\ row.children = Top.children /\ row.files = Top.files
         /\ row.bytes = Top.bytes /\ row.direct = Top.direct
         /\ \A i \in Depths' :
              /\ i \in Depths /\ stack'[i].path = stack[i].path
              /\ stack'[i].children = IF i = Len(stack') THEN stack[i].children + 1
                                      ELSE stack[i].children
              /\ stack'[i].files = stack[i].files
              /\ stack'[i].bytes = IF i = Len(stack') THEN stack[i].bytes + Top.bytes
                                   ELSE stack[i].bytes
              /\ stack'[i].direct = stack[i].direct
         /\ stack' = <<>> => p = Root
         /\ pc' = "complete" <=> stack' = <<>>
         /\ p # Root => fs.kind[p] = "directory"
         /\ finished' = finished + 1
         /\ p \notin Kept /\ directories' = directories \cup {row}
         /\ UNCHANGED <<file, files, meta>> /\ Builder!Add(row)
         /\ Kept' = Kept \cup {p} /\ Depths = Depths' \cup {Len(stack)}
         /\ Opened = Opened' \cup {p} /\ p \notin Opened' /\ Reached' = Reached
         /\ row.parent # p /\ p \in Path
         /\ row.parent = None \/ row.parent \in Opened'
         /\ \A i \in Depths' : row.parent = stack[i].path <=> i = Len(stack')
<1>1. /\ pc = "walk" /\ Going /\ fs' = fs /\ pc' \in {"walk", "complete"}
  BY DEF Leave, Walking, Going, Refused
<1>2. WalkInv /\ Hanging /\ Accounted /\ Rows /\ Built
  BY <1>1 DEF PipelineInv
<1> DEFINE row == emitted'  p == Top.path
<1>3. /\ Len(stack) \in Depths /\ Len(stack') = Len(stack) - 1
      /\ row \in DirectoryRecord
      /\ row.path = p /\ row.parent = Parent(p)
      /\ row.children = Top.children /\ row.files = Top.files
      /\ row.bytes = Top.bytes /\ row.direct = Top.direct
      /\ \A i \in 1..Len(stack') :
           /\ stack'[i].path = stack[i].path /\ stack[i].path # p
           /\ stack'[i].children = IF i = Len(stack') THEN stack[i].children + 1
                                   ELSE stack[i].children
           /\ stack'[i].files = stack[i].files
           /\ stack'[i].bytes = IF i = Len(stack') THEN stack[i].bytes + Top.bytes
                                ELSE stack[i].bytes
           /\ stack'[i].direct = stack[i].direct
      /\ stack' # <<>> => p \in Node /\ Len(stack') \in Depths
                          /\ fs.parent[p] = stack[Len(stack')].path
                          /\ pc' \in {"walk", "failed"}
      /\ stack' = <<>> => p = Root /\ pc' \in {"complete", "failed"}
      /\ p # Root => fs.kind[p] = "directory"
      /\ finished' = finished + 1
  BY <1>2, WalkLeave
<1> HIDE DEF row, p
<1>4. /\ p \notin Kept /\ directories' = directories \cup {row}
      /\ UNCHANGED <<file, files, meta>> /\ Builder!Add(row)
  <2>1. row # None /\ row.kind = "directory"
    BY <1>3, RecordAssumption DEF DirectoryRecord
  <2>2. Writer!InsertDirectory(row) /\ Builder!Add(row)
    BY <1>1, <2>1 DEF Stored, row
  <2> QED
    BY <1>3, <2>2 DEF Writer!InsertDirectory, Kept
<1>5. /\ Kept' = Kept \cup {p} /\ Depths' \subseteq Depths
      /\ Depths = Depths' \cup {Len(stack)} /\ Depths' = 1..Len(stack')
  <2>1. Len(stack) \in Nat
    BY <1>2 DEF WalkInv, TypeOK
  <2> QED
    BY <1>3, <1>4, <2>1 DEF Kept, Depths, Writer!Paths
<1>6. Opened = Opened' \cup {p} /\ p \notin Opened' /\ Reached' = Reached
  <2>1. stack[Len(stack)].path = p
    BY DEF p, Top
  <2>2. Opened = Opened' \cup {p} /\ p \notin Opened'
    <3>1. \A i \in Depths' : stack'[i].path = stack[i].path /\ stack[i].path # p
      BY <1>3, <1>5
    <3>2. Opened' = {stack[i].path : i \in Depths'}
      BY <3>1 DEF Opened
    <3> QED
      BY <1>5, <2>1, <3>1, <3>2 DEF Opened
  <2> QED
    BY <1>5, <2>2 DEF Reached
<1>7. /\ row.parent # p /\ p \in Path
      /\ row.parent = None \/ row.parent \in Opened'
      /\ \A i \in Depths' : row.parent = stack[i].path <=> i = Len(stack')
  <2>1. p \in Path
    BY <1>3 DEF DirectoryRecord
  <2>2. CASE stack' = <<>>
    <3>1. row.parent = None /\ Depths' = {}
      <4>1. Len(stack') = 0
        BY <2>2
      <4>2. Depths' = {}
        BY <1>5, <4>1
      <4>3. row.parent = Parent(p) /\ p = Root
        BY <1>3, <2>2
      <4> QED
        BY <4>2, <4>3 DEF Parent
    <3> QED
      BY <2>1, <3>1, PathAssumption DEF Path
  <2>3. CASE stack' # <<>>
    <3>1. row.parent = stack[Len(stack')].path /\ Len(stack') \in Depths'
      <4>1. stack' \in Seq(Frame)
        BY DEF WalkInv, TypeOK
      <4>2. Len(stack') \in Depths'
        BY <2>3, <4>1 DEF Depths
      <4> QED
        BY <1>3, <2>3, <4>2, PathAssumption DEF Parent
    <3>2. row.parent # p /\ row.parent \in Opened'
      BY <1>3, <1>5, <3>1 DEF Opened
    <3>3. \A i \in Depths' : stack[i].path = stack[Len(stack')].path => i = Len(stack')
      BY <1>2, <1>5, <3>1 DEF WalkInv, Chain, Depths
    <3> QED
      BY <2>1, <3>1, <3>2, <3>3
  <2> QED
    BY <2>2, <2>3
<1> QED
  BY <1>1, <1>3, <1>4, <1>5, <1>6, <1>7 DEF row, p

\* A directory is left: it gets its row, whose numbers are final.
LEMMA PipelineLeave ==
  ASSUME PipelineInv, WalkInv', Leave, Stored, pc' # "failed"
  PROVE  PipelineInv'
<1> DEFINE row == emitted'  p == Top.path
<1>1. /\ pc = "walk" /\ Going /\ fs' = fs /\ pc' \in {"walk", "complete"}
  BY LeaveFacts
<1>2. WalkInv /\ Hanging /\ Accounted /\ Rows /\ Built
  BY <1>1 DEF PipelineInv
<1>3. /\ Len(stack) \in Depths /\ row \in DirectoryRecord
      /\ row.path = p /\ row.parent = Parent(p)
      /\ row.children = Top.children /\ row.files = Top.files
      /\ \A i \in Depths' :
           /\ stack'[i].path = stack[i].path
           /\ stack'[i].children = IF i = Len(stack') THEN stack[i].children + 1
                                   ELSE stack[i].children
           /\ stack'[i].files = stack[i].files
      /\ stack' = <<>> => p = Root
      /\ pc' = "complete" => stack' = <<>>
      /\ p # Root => fs.kind[p] = "directory"
      /\ finished' = finished + 1
  BY LeaveFacts
<1>4. /\ p \notin Kept /\ directories' = directories \cup {row}
      /\ UNCHANGED <<file, files, meta>> /\ Builder!Add(row)
  BY LeaveFacts
<1>5. Kept' = Kept \cup {p} /\ Depths' \subseteq Depths
  BY LeaveFacts
<1>6. Opened = Opened' \cup {p} /\ p \notin Opened' /\ Reached' = Reached
  BY LeaveFacts
<1>7. /\ row.parent # p /\ p \in Path
      /\ row.parent = None \/ row.parent \in Opened'
      /\ \A i \in Depths' : row.parent = stack[i].path <=> i = Len(stack')
  BY LeaveFacts
<1> HIDE DEF row, p
<1>8. Finalized' /\ Built'
  <2>1. Built'
    BY <1>1, <1>2, <1>3, <1>4, <1>7, Linking
  <2> QED
    BY <1>1, <1>4, <2>1, NotCompleteYet
<1>9. row.path \notin Writer!Paths(directories) /\ IsFiniteSet(directories)
  BY <1>2, <1>3, <1>4 DEF Rows, Kept
<1>10. Rows'
  <2>1. IsFiniteSet(directories')
    BY <1>4, <1>9, OfAdded
  <2>2. \A r \in directories : r.path # row.path
    BY <1>9 DEF Writer!Paths
  <2>3. \A r, q \in directories' : r.path = q.path => r = q
    BY <1>2, <1>4, <2>2 DEF Rows
  <2>4. directories' \subseteq DirectoryRecord
    BY <1>2, <1>3, <1>4 DEF Rows
  <2>5. \A r \in directories' : /\ r.parent = Parent(r.path)
                                /\ r.path # Root => fs.kind[r.path] = "directory"
    BY <1>2, <1>3, <1>4 DEF Rows
  <2> QED
    BY <1>1, <1>2, <1>4, <2>1, <2>3, <2>4, <2>5 DEF Rows, Parent
<1>11. Hanging'
  <2>1. finished' = Cardinality(directories')
    BY <1>2, <1>3, <1>4, <1>9, OfAdded DEF Hanging
  <2>2. pc' = "complete" => stack' = <<>> /\ Root \in Kept'
    BY <1>3, <1>5
  <2> QED
    BY <1>1, <1>2, <1>4, <1>6, <2>1, <2>2 DEF Hanging
<1> DEFINE Now(q, m, k) == /\ m = Cardinality(Writer!Of(directories', q))
                           /\ k = Cardinality(Writer!Of(files', q))
<1>12. ASSUME NEW q, NEW m, NEW k, Numbers(q, m, k)
       PROVE  IF q = row.parent THEN Now(q, m + 1, k) ELSE Now(q, m, k)
  <2>1. Cardinality(Writer!Of(directories', q)) =
          IF row.parent = q THEN Cardinality(Writer!Of(directories, q)) + 1
          ELSE Cardinality(Writer!Of(directories, q))
    <3>1. directories' = directories \cup {row}
      BY <1>4
    <3>2. Cardinality(Writer!Of(directories \cup {row}, q)) =
            IF row.parent = q THEN Cardinality(Writer!Of(directories, q)) + 1
            ELSE Cardinality(Writer!Of(directories, q))
      <4>1. CASE row.parent = q
        <5>1. IsFiniteSet(directories) /\ row.path \notin Writer!Paths(directories)
          BY <1>9
        <5> QED
          BY <4>1, <5>1, OfAdded
      <4>2. CASE row.parent # q
        <5>1. Writer!Of(directories \cup {row}, q) = Writer!Of(directories, q)
          BY <4>2 DEF Writer!Of
        <5> QED
          BY <4>2, <5>1
      <4> QED
        BY <4>1, <4>2
    <3> QED
      BY <3>1, <3>2
  <2> QED
    BY <1>4, <1>12, <2>1 DEF Numbers
<1> HIDE DEF Now
<1>13. Accounted'
  <2>1. ASSUME NEW i \in Depths', stack'[i].path \notin Kept'
        PROVE  Now(stack'[i].path, stack'[i].children, stack'[i].files)
    <3>1. Numbers(stack[i].path, stack[i].children, stack[i].files)
      BY <1>2, <1>3, <1>5, <2>1 DEF Accounted
    <3>2. IF i = Len(stack')
          THEN Now(stack[i].path, stack[i].children + 1, stack[i].files)
          ELSE Now(stack[i].path, stack[i].children, stack[i].files)
      BY <1>7, <1>12, <3>1
    <3> QED
      BY <1>3, <1>5, <3>2
  <2>2. ASSUME NEW r \in directories', r.path \notin Opened'
        PROVE  Now(r.path, r.children, r.files)
    <3>1. CASE r = row
      <4>1. Numbers(p, Top.children, Top.files)
        BY <1>2, <1>3, <1>4 DEF Accounted, p, Top
      <4> QED
        BY <1>3, <1>7, <1>12, <3>1, <4>1
    <3>2. CASE r \in directories
      <4>1. r.path \in Kept /\ r.path \in Path
        BY <1>2, <3>2 DEF Kept, Writer!Paths, Rows, DirectoryRecord
      <4>2. Numbers(r.path, r.children, r.files)
        BY <1>2, <1>4, <1>6, <2>2, <3>2, <4>1 DEF Accounted
      <4>3. r.path # row.parent
        BY <1>7, <2>2, <4>1, PathAssumption DEF Path
      <4> QED
        BY <1>12, <4>2, <4>3
    <3> QED
      BY <1>4, <3>1, <3>2
  <2> QED
    BY <2>1, <2>2 DEF Accounted, Numbers, Now
<1> QED
  BY <1>8, <1>10, <1>11, <1>13 DEF PipelineInv

-----------------------------------------------------------------------------
(* The theorems.                                                           *)

\* The database is finalized, or given up.
LEMMA PipelineFinalize ==
  ASSUME PipelineInv, WalkInv', Finalize
  PROVE  PipelineInv'
<1>1. /\ pc = "complete" /\ UNCHANGED <<vars, memory, directories, files>>
      /\ \/ /\ file' = "complete" /\ Writer!Valid(Root, finished)
            /\ meta' = Writer!Metadata(Root, finished)
         \/ file' = "deleted"
  BY DEF Finalize, Writer!Finalize, Writer!Abort
<1>2. /\ fs' = fs /\ pc' = pc /\ stack' = stack /\ finished' = finished
      /\ directories' = directories /\ files' = files
  BY <1>1 DEF vars
<1>3. Rows /\ Hanging /\ Accounted /\ Built
  BY <1>1 DEF PipelineInv, Going
<1>4. Rows' /\ Built'
  BY <1>1, <1>2, <1>3, RowsStay, BuiltStays
<1>5. Finalized'
  BY <1>1, <1>2 DEF Finalized, Writer!Valid, Writer!Metadata, Writer!Of,
     Writer!Paths, Writer!Reachable
<1>6. Kept' = Kept /\ Opened' = Opened /\ Depths' = Depths /\ Reached' = Reached
  BY <1>2 DEF Kept, Opened, Reached, Depths
<1>7. Hanging' /\ Accounted'
  BY <1>2, <1>3, <1>6 DEF Hanging, Accounted, Numbers
<1> QED
  BY <1>4, <1>5, <1>7 DEF PipelineInv

\* The invariant holds at first and every step preserves it.
LEMMA PipelineInductive ==
  /\ PipelineInit => PipelineInv
  /\ PipelineInv /\ [PipelineNext]_all => PipelineInv'
<1>1. ASSUME PipelineInit PROVE PipelineInv
  <2>1. /\ Init /\ pc = "start" /\ stack = <<>> /\ finished = 0
        /\ file = "open" /\ directories = {} /\ files = {}
        /\ tree = [p \in {} |-> None] /\ pending = [p \in Path |-> {}]
    BY <1>1 DEF PipelineInit, Init, Writer!WriterInit, Builder!BuilderInit
  <2>2. WalkInv
    BY <2>1, WalkInductive
  <2>3. Kept = {} /\ Depths = {} /\ Reached = {}
    <3>1. Len(stack) = 0
      BY <2>1
    <3> QED
      BY <2>1, <3>1 DEF Kept, Depths, Opened, Reached, Writer!Paths
  <2>4. Rows /\ Finalized
    BY <2>1, FS_EmptySet DEF Rows, Finalized
  <2>5. Hanging /\ Accounted
    BY <2>1, <2>3, FS_EmptySet DEF Hanging, Accounted
  <2>6. Built
    BY <2>1, <2>3 DEF Built, Children
  <2> QED
    BY <2>2, <2>4, <2>5, <2>6 DEF PipelineInv
<1>2. ASSUME PipelineInv, [PipelineNext]_all PROVE PipelineInv'
  <2>1. WalkInv'
    <3>1. [Next]_vars
      BY <1>2 DEF PipelineNext, Walk, Interrupt, Finalize, all, Next
    <3> QED
      BY <1>2, <3>1, WalkInductive DEF PipelineInv
  <2>2. CASE Walk
    <3>1. Step /\ Stored
      BY <2>2 DEF Walk
    <3>2. CASE pc' \in {"cancelled", "limit", "failed"}
      BY <1>2, <2>1, <3>1, <3>2, PipelineRaises
    <3>3. CASE pc' \notin {"cancelled", "limit", "failed"}
      <4>1. CASE Start \/ StartMissing
        BY <1>2, <2>1, <3>1, <4>1, PipelineStart
      <4>2. CASE Leave
        BY <1>2, <2>1, <3>1, <3>3, <4>2, PipelineLeave
      <4>3. CASE Stop
        BY <3>3, <4>3 DEF Stop
      <4>4. ASSUME NEW n \in Node, Visit(n) PROVE PipelineInv'
        <5>1. CASE Exclude(n) \/ Miss(n) \/ TooMuch(n)
          <6>1. PathsUnmoved
            BY <1>2, <3>3, <5>1, WalkPassed DEF PipelineInv, Unmoved, PathsUnmoved
          <6>2. emitted' = None /\ pc = "walk"
            BY <5>1 DEF Exclude, Miss, TooMuch, Visitable, Walking
          <6>3. UNCHANGED <<database, memory>>
            BY <3>1, <3>3, <6>2 DEF Stored
          <6> QED
            BY <1>2, <2>1, <6>1, <6>2, <6>3, PipelineUnmoved DEF Going
        <5>2. CASE Descend(n)
          BY <1>2, <2>1, <3>1, <5>2, PipelineDescend
        <5>3. CASE Measure(n)
          BY <1>2, <2>1, <3>1, <3>3, <5>3, PipelineMeasure
        <5> QED
          BY <4>4, <5>1, <5>2, <5>3 DEF Visit
      <4> QED
        BY <3>1, <4>1, <4>2, <4>3, <4>4 DEF Step
    <3> QED
      BY <3>2, <3>3
  <2>3. CASE Interrupt \/ UNCHANGED all
    <3>1. /\ UNCHANGED <<database, memory, stack, fs, pc, finished>>
          /\ Cancel \/ UNCHANGED all
      BY <2>3 DEF Interrupt, Cancel, all, vars
    <3>2. CASE Going /\ pc # "complete"
      <4>1. PathsUnmoved
        BY <3>1 DEF PathsUnmoved
      <4> QED
        BY <1>2, <2>1, <3>1, <3>2, <4>1, PipelineUnmoved
    <3>3. CASE ~ (Going /\ pc # "complete")
      <4>1. UNCHANGED all
        BY <3>1, <3>3 DEF Cancel, Going
      <4>2. /\ fs' = fs /\ pc' = pc /\ stack' = stack /\ finished' = finished
            /\ directories' = directories /\ files' = files /\ file' = file
            /\ meta' = meta /\ tree' = tree /\ pending' = pending
        BY <4>1 DEF all, vars, database, memory
      <4>3. Rows'
        BY <1>2, <4>2, RowsStay DEF PipelineInv
      <4>4. Finalized'
        BY <1>2, <4>2 DEF PipelineInv, Finalized, Writer!Valid, Writer!Metadata,
           Writer!Of, Writer!Paths, Writer!Reachable
      <4>5. Kept' = Kept /\ Opened' = Opened /\ Depths' = Depths /\ Reached' = Reached
        BY <4>2 DEF Kept, Opened, Reached, Depths
      <4>6. Hanging /\ Accounted /\ Built => Hanging' /\ Accounted' /\ Built'
        BY <4>2, <4>5, BuiltStays DEF Hanging, Accounted, Numbers, memory
      <4> QED
        BY <1>2, <2>1, <4>2, <4>3, <4>4, <4>6 DEF PipelineInv, Going
    <3> QED
      BY <3>2, <3>3
  <2>4. CASE Finalize
    BY <1>2, <2>1, <2>4, PipelineFinalize
  <2> QED
    BY <1>2, <2>2, <2>3, <2>4 DEF PipelineNext
<1> QED
  BY <1>1, <1>2

\* With its consumers, too, the walk keeps within its types and its limits:
\* no directory, entry or link is counted beyond the limits, whatever the file
\* system does and wherever the walk stops.
THEOREM PipelineTyped == PipelineSpec => []TypeOK
<1>1. PipelineInv => TypeOK
  BY DEF PipelineInv, WalkInv
<1> QED
  BY <1>1, PipelineInductive, PTL DEF PipelineSpec

\* The consumers count as the walk does.
LEMMA SameCardinality ==
  \A S : /\ Writer!Cardinality(S) = Cardinality(S)
         /\ Reader!Cardinality(S) = Cardinality(S)
         /\ Builder!Cardinality(S) = Cardinality(S)
<1>1. ASSUME NEW S PROVE Writer!Cardinality(S) = Cardinality(S)
  BY Zenon DEF Writer!Cardinality, Cardinality
<1>2. ASSUME NEW S PROVE Reader!Cardinality(S) = Cardinality(S)
  BY Zenon DEF Reader!Cardinality, Cardinality
<1>3. ASSUME NEW S PROVE Builder!Cardinality(S) = Cardinality(S)
  BY Zenon DEF Builder!Cardinality, Cardinality
<1> QED
  BY <1>1, <1>2, <1>3

\* As many paths of directories as rows of them.
LEMMA PathsCounted ==
  ASSUME Rows, NEW rows, rows \subseteq directories
  PROVE  /\ IsFiniteSet(Writer!Paths(rows))
         /\ Cardinality(Writer!Paths(rows)) = Cardinality(rows)
<1> DEFINE f == [row \in rows |-> row.path]
<1>1. IsFiniteSet(rows)
  BY FS_Subset DEF Rows
<1>2. f \in Bijection(rows, Writer!Paths(rows))
  <2>1. f \in [rows -> Writer!Paths(rows)]
    BY DEF Writer!Paths
  <2>2. f \in Injection(rows, Writer!Paths(rows))
    BY <2>1 DEF Injection, IsInjective, Rows
  <2>3. f \in Surjection(rows, Writer!Paths(rows))
    BY <2>1 DEF Surjection, Writer!Paths
  <2> QED
    BY <2>2, <2>3 DEF Bijection
<1> HIDE DEF f
<1> QED
  BY <1>1, <1>2, FS_Bijection DEF ExistsBijection

\* Opening a database succeeds if and only if its scan completed and was
\* finalized, and then every row of it can be served: the check that opening
\* makes, by metadata, never contradicts the one that finalizing made.
THEOREM OpensCorrect == PipelineSpec => []OpensWhenComplete
<1>1. ASSUME PipelineInv PROVE OpensWhenComplete
  <2>1. ASSUME file = "complete"
        PROVE  /\ Reader!Opens
               /\ \A row \in directories : Reader!RowLegal(row)
               /\ \A row \in files : Reader!FileRowLegal(row)
    <3>1. /\ Writer!Valid(Root, finished) /\ meta = Writer!Metadata(Root, finished)
          /\ Rows /\ finished \in 0..MaxDirectories
      BY <1>1, <2>1 DEF PipelineInv, Finalized, WalkInv, TypeOK
    <3>2. /\ meta.root = Root /\ meta.directories = finished
          /\ meta.files = Cardinality(files) /\ meta # None
      <4>1. meta = [root |-> Root, directories |-> finished,
                    files |-> Cardinality(files)]
        BY <3>1, SameCardinality DEF Writer!Metadata
      <4>2. Cardinality(files) \in Nat /\ finished \in Nat
        BY <3>1, FS_CardinalityType DEF Rows
      <4> QED
        BY <4>1, <4>2, MetadataAssumption
    <3>3. PICK root \in directories : root.path = Root
      BY <3>1 DEF Writer!Valid
    <3>4. Cardinality(directories) = finished /\ finished \in 1..MaxDirectories
      <4>1. directories # {} /\ IsFiniteSet(directories)
        BY <3>1, <3>3 DEF Rows
      <4>2. Cardinality(directories) # 0
        BY <4>1, FS_EmptySet
      <4> QED
        BY <3>1, <4>2, SameCardinality DEF Writer!Valid
    <3>5. Cardinality({row \in directories : row.path = meta.root}) = 1
      <4>1. {row \in directories : row.path = meta.root} = {root}
        BY <3>1, <3>2, <3>3 DEF Rows
      <4> QED
        BY <4>1, FS_Singleton
    <3>6. Reader!Opens
      BY <2>1, <3>2, <3>4, <3>5, SameCardinality DEF Reader!Opens
    <3>7. ASSUME NEW row \in directories PROVE Reader!RowLegal(row)
      BY <3>1, <3>2 DEF Writer!Valid, Reader!RowLegal, Rows, DirectoryRecord
    <3>8. ASSUME NEW row \in files PROVE Reader!FileRowLegal(row)
      <4>1. row.parent \in Path /\ row.bytes \in Nat
        BY <3>1 DEF Rows, FileRecord
      <4> QED
        BY <4>1, PathAssumption DEF Reader!FileRowLegal, Path
    <3> QED
      BY <3>6, <3>7, <3>8
  <2>2. Reader!Opens => file = "complete"
    BY DEF Reader!Opens
  <2> QED
    BY <2>1, <2>2 DEF OpensWhenComplete
<1> QED
  BY <1>1, PipelineInductive, PTL DEF PipelineSpec

\* A walk that returned a root is accepted by both consumers, and they agree
\* on the tree, whatever was missing, unreadable, cut short or listed twice.
THEOREM WalksAccepted == PipelineSpec => []CompleteWalksAccepted
<1>1. ASSUME PipelineInv, pc = "complete", directories # {}
      PROVE  /\ Writer!Valid(Root, finished)
             /\ Builder!Accepts(Root, finished)
             /\ Builder!Known = Writer!Paths(directories)
  <2>1. /\ Rows /\ Hanging /\ Accounted /\ Built /\ TypeOK
        /\ stack = <<>> /\ Root \in Kept
    BY <1>1 DEF PipelineInv, WalkInv, Going, Hanging
  <2>2. Opened = {} /\ Reached = Kept /\ None \notin Path
    <3>1. Len(stack) = 0
      BY <2>1
    <3> QED
      BY <3>1, PathAssumption DEF Depths, Opened, Reached, Path
  <2>3. /\ \A row \in directories : row.path \in Kept /\ row.path \in Path
        /\ \A p \in Kept : \E row \in directories : row.path = p
        /\ Kept \subseteq Path
    BY <2>1 DEF Kept, Writer!Paths, Rows, DirectoryRecord
  <2>4. \A row \in directories : row.path # Root => row.parent \in Kept
    BY <2>1, <2>2, <2>3 DEF Rows, Hanging, Parent
  <2>5. \A S \in SUBSET (Kept \ {Root}) :
          S # {} => \E p \in S : fs.parent[p] \in Kept \ S
    <3>1. ASSUME NEW S \in SUBSET (Kept \ {Root}), S # {}
          PROVE  \E p \in S : fs.parent[p] \in Kept \ S
      <4>1. PICK p \in S : fs.parent[p] \notin S
        BY <2>1, <2>2, <3>1 DEF Hanging
      <4> QED
        BY <2>1, <2>2, <4>1 DEF Hanging
    <3> QED
      BY <3>1
  <2>6. Writer!Valid(Root, finished)
    <3>1. \A row \in directories : row.parent = None <=> row.path = Root
      BY <2>1, <2>3, ParentTyped DEF Rows
    <3>2. \A row \in directories \cup files :
            row.parent # None => row.parent \in Writer!Paths(directories)
      BY <2>1, <2>2, <2>4, <3>1 DEF Hanging, Kept
    <3>3. \A row \in directories :
            /\ row.children = Cardinality(Writer!Of(directories, row.path))
            /\ row.files = Cardinality(Writer!Of(files, row.path))
      BY <2>1, <2>2 DEF Accounted, Numbers
    <3>4. Writer!Reachable(Root)
      <4>1. ASSUME NEW S \in SUBSET (Kept \ {Root}), S # {}
            PROVE  \E row \in directories : row.path \in S /\ row.parent \notin S
        <5>1. PICK p \in S : fs.parent[p] \in Kept \ S
          BY <2>5, <4>1
        <5>2. PICK row \in directories : row.path = p
          BY <2>3
        <5>3. row.parent = fs.parent[p]
          BY <2>1, <5>2 DEF Rows, Parent
        <5> QED
          BY <5>1, <5>2, <5>3
      <4> QED
        BY <4>1 DEF Writer!Reachable, Kept
    <3>5. Writer!Paths(directories) \cap Writer!Paths(files) = {}
      <4>1. ASSUME NEW d \in directories, NEW f \in files, d.path = f.path
            PROVE  FALSE
        <5>1. f.path \in Node /\ fs.kind[f.path] = "file"
          BY <2>1 DEF Rows, FileRecord
        <5>2. d.path # Root
          BY <4>1, <5>1, PathAssumption
        <5> QED
          BY <2>1, <4>1, <5>1, <5>2 DEF Rows
      <4> QED
        BY <4>1 DEF Writer!Paths
    <3>6. Cardinality(directories) = finished /\ \E row \in directories : row.path = Root
      BY <2>1, <2>3 DEF Hanging
    <3> QED
      BY <3>1, <3>2, <3>3, <3>4, <3>5, <3>6, SameCardinality DEF Writer!Valid
  <2>7. Builder!Known = Kept
    BY <2>1 DEF Built, Builder!Known
  <2>8. ASSUME NEW p \in Path PROVE pending[p] = {}
    <3>1. CASE p \in Kept
      BY <2>1, <3>1 DEF Built
    <3>2. CASE p \notin Kept
      <4>1. Children(p) = {}
        BY <2>1, <2>2, <2>3, <3>2 DEF Children, Parent, Hanging
      <4> QED
        BY <2>1, <3>2, <4>1 DEF Built
    <3> QED
      BY <3>1, <3>2
  <2>9. \A p \in Kept : Root \notin tree[p].children
    BY <2>1, <2>2, <2>3 DEF Built, Children, Parent
  <2>10. ASSUME NEW p \in Kept
         PROVE  Cardinality(tree[p].children) = tree[p].count
    <3>1. PICK row \in directories : row.path = p
      BY <2>3
    <3>2. tree[p].count = Cardinality(Writer!Of(directories, p))
      BY <2>1, <2>2, <3>1 DEF Built, Accounted, Numbers
    <3>3. Writer!Of(directories, p) \subseteq directories
      BY DEF Writer!Of
    <3>4. tree[p].children = Writer!Paths(Writer!Of(directories, p))
      <4>1. tree[p].children = {q \in Kept : Parent(q) = p}
        BY <2>1 DEF Built, Children
      <4> QED
        BY <2>1, <4>1 DEF Writer!Paths, Writer!Of, Kept, Rows
    <3> QED
      BY <2>1, <3>2, <3>3, <3>4, PathsCounted
  <2>11. Builder!Visited(Root)
    <3>1. ASSUME NEW S \in SUBSET (Kept \ {Root}), S # {}
          PROVE  \E p \in S : \E q \in Kept \ S : p \in tree[q].children
      <4>1. PICK p \in S : fs.parent[p] \in Kept \ S
        BY <2>5, <3>1
      <4>2. p \in tree[fs.parent[p]].children
        BY <2>1, <4>1 DEF Built, Children, Parent
      <4> QED
        BY <4>1, <4>2
    <3> QED
      BY <2>7, <3>1 DEF Builder!Visited
  <2>12. Cardinality(Kept) = finished
    BY <2>1, PathsCounted DEF Hanging, Kept
  <2>13. Builder!Accepts(Root, finished)
    BY <2>1, <2>7, <2>8, <2>9, <2>10, <2>11, <2>12, SameCardinality
       DEF Builder!Accepts
  <2> QED
    BY <2>6, <2>7, <2>13 DEF Kept
<1>2. PipelineInv => CompleteWalksAccepted
  BY <1>1 DEF CompleteWalksAccepted
<1> QED
  BY <1>2, PipelineInductive, PTL DEF PipelineSpec

-----------------------------------------------------------------------------
(* Sums. MapThenSumSet takes the members of a set in an order of its own;  *)
(* a sum that grows with its set must be shown not to depend on it. What   *)
(* is shown by induction is shown of the least number that would refute it.*)

\* The member of a set that a sum takes first, and the sums of all subsets.
Picked(s) == CHOOSE x \in s : TRUE
Summing(size, f) ==
  \A s \in DOMAIN f :
    f[s] = IF s = {} THEN 0 ELSE size[Picked(s)] + f[s \ {Picked(s)}]
Numbered(size, S) == IsFiniteSet(S) /\ \A x \in S : size[x] \in Nat

\* What is left without one member.
LEMMA Smaller ==
  ASSUME NEW s, IsFiniteSet(s), NEW x \in s
  PROVE  /\ Cardinality(s) \in Nat /\ Cardinality(s) > 0
         /\ IsFiniteSet(s \ {x}) /\ Cardinality(s \ {x}) = Cardinality(s) - 1
BY FS_RemoveElement, FS_CardinalityType, FS_EmptySet

\* It is a member.
LEMMA PickedInside == ASSUME NEW s, s # {} PROVE Picked(s) \in s
BY DEF Picked

\* There are such sums, for subsets of any size up to n.
UpTo(S, n) == {s \in SUBSET S : Cardinality(s) <= n}
LEMMA SumsUpTo ==
  ASSUME NEW size, NEW S, Numbered(size, S), NEW n \in Nat
  PROVE  \E f \in [UpTo(S, n) -> Nat] : Summing(size, f)
<1> DEFINE Level(k) == {s \in SUBSET S : Cardinality(s) <= k}
           Can(k) == \E f \in [Level(k) -> Nat] : Summing(size, f)
           T == {k \in Nat : ~ Can(k)}
<1>1. \A s \in SUBSET S : IsFiniteSet(s) /\ Cardinality(s) \in Nat
  BY FS_Subset, FS_CardinalityType DEF Numbered
<1>2. Can(0)
  <2> DEFINE f == [s \in Level(0) |-> 0]
  <2>1. \A s \in Level(0) : s = {}
    BY <1>1, FS_EmptySet
  <2>2. f \in [Level(0) -> Nat] /\ Summing(size, f)
    BY <2>1 DEF Summing
  <2> QED
    BY <2>2
<1>3. ASSUME NEW k \in Nat, Can(k) PROVE Can(k + 1)
  <2> PICK f \in [Level(k) -> Nat] : Summing(size, f)
    BY <1>3
  <2> DEFINE next(s) == IF s = {} THEN 0 ELSE size[Picked(s)] + f[s \ {Picked(s)}]
             g == [s \in Level(k + 1) |-> next(s)]
  <2>1. ASSUME NEW s \in Level(k + 1), s # {}
        PROVE  s \ {Picked(s)} \in Level(k) /\ size[Picked(s)] \in Nat
    <3>1. Picked(s) \in s
      BY <2>1, PickedInside
    <3>2. Cardinality(s \ {Picked(s)}) = Cardinality(s) - 1
      BY <1>1, <3>1, Smaller
    <3> QED
      BY <1>1, <3>1, <3>2 DEF Numbered
  <2>2. \A s \in Level(k) : s \in Level(k + 1) /\ f[s] = next(s)
    BY <1>1 DEF Summing
  <2>3. g \in [Level(k + 1) -> Nat]
    BY <2>1
  <2>4. \A s \in Level(k) : g[s] = f[s]
    BY <2>2
  <2>5. Summing(size, g)
    <3>1. ASSUME NEW s \in Level(k + 1)
          PROVE  g[s] = IF s = {} THEN 0 ELSE size[Picked(s)] + g[s \ {Picked(s)}]
      BY <2>1, <2>4
    <3> QED
      BY <3>1 DEF Summing
  <2> HIDE DEF g
  <2> QED
    BY <2>3, <2>5
<1> HIDE DEF Can
<1>4. T = {}
  <2> SUFFICES ASSUME T # {} PROVE FALSE
    OBVIOUS
  <2>1. PICK k \in T : \A j \in T : k <= j
    BY LeastNumber
  <2>2. k # 0
    BY <1>2
  <2>3. k - 1 \in Nat /\ k - 1 \notin T
    BY <2>1, <2>2
  <2>4. Can(k - 1 + 1)
    BY <1>3, <2>3
  <2>5. k - 1 + 1 = k
    BY <2>1
  <2> QED
    BY <2>4, <2>5
<1>5. Can(n)
  BY <1>4
<1> QED
  BY <1>5 DEF Can, UpTo

\* Sums are the same wherever the sizes are, whatever else is summed.
LEMMA SumsAgree ==
  ASSUME NEW S, IsFiniteSet(S), NEW a, NEW b, \A x \in S : a[x] = b[x],
         NEW f, Summing(a, f), SUBSET S \subseteq DOMAIN f,
         NEW g, Summing(b, g), SUBSET S \subseteq DOMAIN g
  PROVE  \A s \in SUBSET S : f[s] = g[s]
<1> DEFINE T == {n \in Nat : \E s \in SUBSET S : Cardinality(s) = n /\ f[s] # g[s]}
<1>1. \A s \in SUBSET S : IsFiniteSet(s) /\ Cardinality(s) \in Nat
  BY FS_Subset, FS_CardinalityType
<1>2. T = {}
  <2> SUFFICES ASSUME T # {} PROVE FALSE
    OBVIOUS
  <2>1. PICK n \in T : \A k \in T : n <= k
    BY LeastNumber
  <2>2. PICK s \in SUBSET S : Cardinality(s) = n /\ f[s] # g[s]
    BY <2>1
  <2>3. s # {}
    BY <2>2 DEF Summing
  <2> DEFINE x == Picked(s)
  <2>4. x \in s
    BY <2>3, PickedInside
  <2>5. f[s] = a[x] + f[s \ {x}] /\ g[s] = b[x] + g[s \ {x}] /\ a[x] = b[x]
    BY <2>3, <2>4 DEF Summing
  <2> HIDE DEF x
  <2>6. f[s \ {x}] # g[s \ {x}]
    BY <2>2, <2>5
  <2>7. Cardinality(s \ {x}) = n - 1 /\ n - 1 \in Nat
    BY <1>1, <2>2, <2>4, Smaller
  <2>8. n - 1 \in T
    BY <2>6, <2>7
  <2> QED
    BY <2>1, <2>7, <2>8
<1> QED
  BY <1>1, <1>2

\* And so for all.
LEMMA SumsExist ==
  ASSUME NEW size, NEW S, Numbered(size, S)
  PROVE  \E f \in [SUBSET S -> Nat] : Summing(size, f) /\ Total(size, S) = f[S]
<1> DEFINE Rec(f) == [s \in SUBSET S |->
             IF s = {} THEN 0 ELSE size[Picked(s)] + f[s \ {Picked(s)}]]
           sums == CHOOSE f : f = Rec(f)
<1>1. PICK n \in Nat : n = Cardinality(S)
  BY FS_CardinalityType DEF Numbered
<1>2. UpTo(S, n) = SUBSET S
  BY <1>1, FS_Subset DEF Numbered, UpTo
<1>3. PICK f \in [SUBSET S -> Nat] : Summing(size, f)
  <2>1. \E f \in [UpTo(S, n) -> Nat] : Summing(size, f)
    BY ONLY SumsUpTo, Numbered(size, S)
  <2>2. \E f \in [SUBSET S -> Nat] : Summing(size, f)
    BY ONLY <1>2, <2>1
  <2> QED
    BY <2>2
<1>4. f = Rec(f)
  BY <1>3 DEF Summing
<1>5. sums = Rec(sums)
  BY <1>4
<1>6. Summing(size, sums) /\ DOMAIN sums = SUBSET S
  BY <1>5 DEF Summing
<1>7. Total(size, S) = sums[S]
  BY DEF Total, MapThenSumSet, MapThenFoldSet, Picked
<1>8. \A s \in SUBSET S : sums[s] = f[s]
  BY <1>3, <1>6, SumsAgree DEF Numbered
<1>9. sums \in [SUBSET S -> Nat]
  BY <1>3, <1>5, <1>8
<1> QED
  BY <1>6, <1>7, <1>9

\* The order of a sum does not matter.
InAnyOrder(size, f) ==
  \A s \in DOMAIN f : \A x \in s : f[s] = f[s \ {x}] + size[x]
LEMMA AnyOrder ==
  ASSUME NEW size, NEW S, Numbered(size, S),
         NEW f \in [SUBSET S -> Nat], Summing(size, f)
  PROVE  InAnyOrder(size, f)
<1> DEFINE Off(s, x) == f[s] # f[s \ {x}] + size[x]
           T == {n \in Nat : \E s \in SUBSET S : Cardinality(s) = n /\ \E x \in s : Off(s, x)}
<1>1. \A s \in SUBSET S : IsFiniteSet(s) /\ Cardinality(s) \in Nat
  BY FS_Subset, FS_CardinalityType DEF Numbered
<1>2. T = {}
  <2> SUFFICES ASSUME T # {} PROVE FALSE
    OBVIOUS
  <2>1. PICK n \in T : \A k \in T : n <= k
    BY LeastNumber
  <2>2. PICK s \in SUBSET S : Cardinality(s) = n /\ \E x \in s : Off(s, x)
    BY <2>1
  <2>3. PICK x \in s : f[s] # f[s \ {x}] + size[x]
    BY <2>2
  <2>4. PICK y \in s : f[s] = size[y] + f[s \ {y}]
    BY <2>3, PickedInside DEF Summing
  <2>5. x # y
    <3>1. PICK u \in Nat : u = f[s \ {y}]
      OBVIOUS
    <3>2. PICK v \in Nat : v = size[y]
      BY DEF Numbered
    <3>3. u + v = v + u
      OBVIOUS
    <3> QED
      BY <2>3, <2>4, <3>1, <3>2, <3>3
  <2>6. Cardinality(s \ {y}) = n - 1 /\ n - 1 \in Nat
    BY <1>1, <2>2, Smaller
  <2>7. Cardinality(s \ {x}) = n - 1
    BY <1>1, <2>2, Smaller
  <2>8. n - 1 \notin T
    BY <2>1, <2>6
  <2>9. f[s \ {y}] = f[(s \ {y}) \ {x}] + size[x]
    BY <2>5, <2>6, <2>8
  <2>10. f[s \ {x}] = f[(s \ {x}) \ {y}] + size[y]
    BY <2>5, <2>6, <2>7, <2>8
  <2>11. (s \ {y}) \ {x} = (s \ {x}) \ {y}
    OBVIOUS
  <2>12. PICK u \in Nat : u = f[(s \ {x}) \ {y}]
    OBVIOUS
  <2>13. PICK v \in Nat, w \in Nat : v = size[x] /\ w = size[y]
    BY DEF Numbered
  <2>14. f[s] = w + (u + v) /\ f[s \ {x}] + size[x] = (u + w) + v
    BY <2>4, <2>9, <2>10, <2>11, <2>12, <2>13
  <2>15. w + (u + v) = (u + w) + v
    OBVIOUS
  <2> QED
    BY <2>3, <2>14, <2>15
<1> QED
  BY <1>1, <1>2 DEF InAnyOrder

\* The sum of nothing.
LEMMA TotalNone == ASSUME NEW size PROVE Total(size, {}) = 0
<1>1. Numbered(size, {})
  BY FS_EmptySet DEF Numbered
<1>2. PICK f \in [SUBSET {} -> Nat] : Summing(size, f) /\ Total(size, {}) = f[{}]
  BY <1>1, SumsExist
<1> QED
  BY <1>2 DEF Summing

\* A sum is a number, and one that does not look further than its set.
LEMMA TotalSame ==
  ASSUME NEW a, NEW b, NEW S, Numbered(a, S), \A x \in S : a[x] = b[x]
  PROVE  Total(a, S) \in Nat /\ Total(a, S) = Total(b, S)
<1>1. Numbered(b, S)
  BY DEF Numbered
<1>2. PICK f \in [SUBSET S -> Nat] : Summing(a, f) /\ Total(a, S) = f[S]
  BY SumsExist
<1>3. PICK g \in [SUBSET S -> Nat] : Summing(b, g) /\ Total(b, S) = g[S]
  BY <1>1, SumsExist
<1>4. IsFiniteSet(S)
  BY DEF Numbered
<1>5. \A s \in SUBSET S : f[s] = g[s]
  BY <1>2, <1>3, <1>4, SumsAgree
<1> QED
  BY <1>2, <1>3, <1>5

\* One member more.
LEMMA TotalMore ==
  ASSUME NEW size, NEW S, NEW x, x \notin S, Numbered(size, S \cup {x})
  PROVE  Total(size, S \cup {x}) = Total(size, S) + size[x]
<1> DEFINE U == S \cup {x}
<1>1. IsFiniteSet(S) /\ Numbered(size, S) /\ U \ {x} = S /\ Numbered(size, U)
  BY FS_Subset DEF Numbered
<1>2. PICK f \in [SUBSET U -> Nat] : Summing(size, f) /\ Total(size, U) = f[U]
  BY <1>1, SumsExist
<1>3. PICK g \in [SUBSET S -> Nat] : Summing(size, g) /\ Total(size, S) = g[S]
  BY <1>1, SumsExist
<1> HIDE DEF U
<1>4. f[S] = g[S]
  <2>1. SUBSET S \subseteq DOMAIN f /\ SUBSET S \subseteq DOMAIN g
    BY DEF U
  <2>2. \A s \in SUBSET S : f[s] = g[s]
    BY <1>1, <1>2, <1>3, <2>1, SumsAgree
  <2> QED
    BY <2>2
<1>5. InAnyOrder(size, f)
  BY <1>1, <1>2, AnyOrder
<1>6. U \in DOMAIN f /\ x \in U
  BY DEF U
<1>7. f[U] = f[U \ {x}] + size[x]
  BY <1>5, <1>6 DEF InAnyOrder
<1> QED
  BY <1>1, <1>2, <1>3, <1>4, <1>7 DEF U

\* The bytes of rows, when one row is added.
LEMMA BytesMore ==
  ASSUME NEW rows, IsFiniteSet(rows), \A r \in rows : r.bytes \in Nat,
         NEW row, row \notin rows, row.bytes \in Nat
  PROVE  Bytes(rows) \in Nat /\ Bytes(rows \cup {row}) = Bytes(rows) + row.bytes
<1> DEFINE a == [r \in rows |-> r.bytes]
           b == [r \in rows \cup {row} |-> r.bytes]
<1>1. Numbered(a, rows) /\ Numbered(b, rows \cup {row})
  BY FS_AddElement DEF Numbered
<1>2. \A r \in rows : a[r] = b[r]
  OBVIOUS
<1>3. b[row] = row.bytes
  OBVIOUS
<1>4. Bytes(rows) = Total(a, rows) /\ Bytes(rows \cup {row}) = Total(b, rows \cup {row})
  BY DEF Bytes
<1> HIDE DEF a, b
<1>5. Total(a, rows) \in Nat /\ Total(a, rows) = Total(b, rows)
  BY <1>1, <1>2, TotalSame
<1>6. Total(b, rows \cup {row}) = Total(b, rows) + b[row]
  BY <1>1, TotalMore
<1> QED
  BY <1>3, <1>4, <1>5, <1>6

\* The bytes of no rows.
LEMMA BytesNone == Bytes({}) = 0
BY TotalNone DEF Bytes

\* What the first frames of a stack hold together.
Held(s, n) == Total([i \in 1..n |-> s[i].bytes], 1..n)

\* One frame more.
LEMMA HeldMore ==
  ASSUME NEW s, NEW n \in Nat, \A i \in 1..(n + 1) : s[i].bytes \in Nat
  PROVE  Held(s, n) \in Nat /\ Held(s, n + 1) = Held(s, n) + s[n + 1].bytes
<1> DEFINE a == [i \in 1..n |-> s[i].bytes]
           b == [i \in 1..(n + 1) |-> s[i].bytes]
<1>1. 1..(n + 1) = (1..n) \cup {n + 1} /\ n + 1 \notin 1..n
  OBVIOUS
<1>2. IsFiniteSet(1..n) /\ IsFiniteSet(1..(n + 1))
  BY FS_Interval
<1>3. Numbered(a, 1..n) /\ Numbered(b, (1..n) \cup {n + 1})
  BY <1>1, <1>2 DEF Numbered
<1>4. \A i \in 1..n : a[i] = b[i]
  OBVIOUS
<1>5. b[n + 1] = s[n + 1].bytes
  OBVIOUS
<1>6. Held(s, n) = Total(a, 1..n) /\ Held(s, n + 1) = Total(b, (1..n) \cup {n + 1})
  BY <1>1 DEF Held
<1> HIDE DEF a, b
<1>7. Total(a, 1..n) \in Nat /\ Total(a, 1..n) = Total(b, 1..n)
  BY <1>3, <1>4, TotalSame
<1>8. Total(b, (1..n) \cup {n + 1}) = Total(b, 1..n) + b[n + 1]
  <2>1. PICK m : m = n + 1
    OBVIOUS
  <2>2. m \notin 1..n /\ Numbered(b, (1..n) \cup {m})
    BY <1>1, <1>3, <2>1
  <2>3. Total(b, (1..n) \cup {m}) = Total(b, 1..n) + b[m]
    BY <2>2, TotalMore
  <2> QED
    BY <2>1, <2>3
<1> QED
  BY <1>5, <1>6, <1>7, <1>8

\* Frames that hold the same.
LEMMA HeldSame ==
  ASSUME NEW s, NEW t, NEW n \in Nat, \A i \in 1..n : s[i].bytes = t[i].bytes
  PROVE  Held(s, n) = Held(t, n)
<1>1. [i \in 1..n |-> s[i].bytes] = [i \in 1..n |-> t[i].bytes]
  OBVIOUS
<1> QED
  BY <1>1 DEF Held

\* No frames hold nothing.
LEMMA HeldNone == ASSUME NEW s PROVE Held(s, 0) = 0
<1>1. 1..0 = {}
  OBVIOUS
<1> QED
  BY <1>1, TotalNone DEF Held

-----------------------------------------------------------------------------
(* The sizes, on top of the invariant of the consumers. A directory's      *)
(* number, on the stack or in its row, is its own size, what it measured   *)
(* directly and the rows below it; the frames of the stack hold together   *)
(* what the scan has counted; and the rows of files have one file for each *)
(* inode that counted.                                                     *)

Adds(p, total, direct) ==
  total = fs.size[p] + direct + Bytes(Writer!Of(directories, p))
SubtreesAdded ==
  /\ \A i \in Depths : stack[i].path \notin Kept =>
       Adds(stack[i].path, stack[i].bytes, stack[i].direct)
  /\ \A row \in directories : row.path \notin Opened =>
       Adds(row.path, row.bytes, row.direct)

TotalKept ==
  /\ pc \in {"start", "walk"} => bytes = Held(stack, Len(stack))
  /\ pc = "complete" => \A row \in directories : row.path = Root => row.bytes = bytes

LinkedFiles == {row \in files : row.path \in fs.linked}
Measured == Inodes(LinkedFiles)
LinksCounted ==
  /\ Measured \subseteq seen
  /\ EmitFiles => seen \subseteq Measured
  /\ Bytes(LinkedFiles) = Total(fs.size, Measured)
  /\ \A row \in files \ LinkedFiles : row.bytes = fs.size[row.path]

SizesInv == Going => SubtreesAdded /\ TotalKept /\ LinksCounted

\* What a frame holds are numbers.
LEMMA FramesTyped ==
  ASSUME NEW s \in Seq(Frame)
  PROVE  /\ Len(s) \in Nat
         /\ \A i \in 1..Len(s) :
              s[i].path \in Path /\ s[i].bytes \in Nat /\ s[i].direct \in Nat
<1>1. Len(s) \in Nat
  OBVIOUS
<1>2. \A i \in 1..Len(s) : s[i] \in Frame
  OBVIOUS
<1> QED
  BY <1>1, <1>2 DEF Frame

\* What is claimed of the files stays while they, and the inodes met, do.
LEMMA LinksStay ==
  ASSUME LinksCounted, UNCHANGED <<fs, files, seen>>
  PROVE  LinksCounted'
<1>1. LinkedFiles' = LinkedFiles /\ Measured' = Measured
  BY DEF Measured, LinkedFiles, Inodes
<1> QED
  BY <1>1 DEF LinksCounted

\* A step that leaves the rows, the numbers of the frames and the counters.
LEMMA SizesStay ==
  ASSUME TypeOK, SizesInv, pc' = pc,
         UNCHANGED <<fs, directories, files, seen, bytes>>,
         Len(stack') = Len(stack),
         \A i \in Depths : /\ stack'[i].path = stack[i].path
                           /\ stack'[i].bytes = stack[i].bytes
                           /\ stack'[i].direct = stack[i].direct
  PROVE  SizesInv'
<1> SUFFICES ASSUME Going PROVE (SubtreesAdded /\ TotalKept /\ LinksCounted)'
  BY DEF SizesInv, Going
<1>1. SubtreesAdded /\ TotalKept /\ LinksCounted
  BY DEF SizesInv
<1>2. Kept' = Kept /\ Depths' = Depths
  BY DEF Kept, Depths
<1>3. Opened' = Opened
  BY <1>2 DEF Opened
<1>4. SubtreesAdded'
  <2>1. \A p, t, d : Adds(p, t, d)' <=> Adds(p, t, d)
    BY DEF Adds
  <2> QED
    BY <1>1, <1>2, <1>3, <2>1 DEF SubtreesAdded, Adds
<1>5. TotalKept'
  <2>1. Len(stack) \in Nat
    BY FramesTyped DEF TypeOK
  <2>2. Held(stack', Len(stack)) = Held(stack, Len(stack))
    BY <2>1, HeldSame DEF Depths
  <2> QED
    BY <1>1, <2>2 DEF TotalKept
<1> QED
  BY <1>1, <1>4, <1>5, LinksStay

\* The walk begins, or ends at once.
LEMMA SizesStart ==
  ASSUME PipelineInv, SizesInv, Start \/ StartMissing, Stored
  PROVE  SizesInv'
<1>1. /\ pc = "start" /\ stack = <<>> /\ emitted = None /\ TypeOK
      /\ directories = {} /\ files = {} /\ TotalKept /\ LinksCounted
  BY DEF Start, StartMissing, PipelineInv, WalkInv, Fresh, Hanging, Going, SizesInv
<1>2. fs' = fs /\ emitted' = None /\ pc' \in {"walk", "complete"}
  BY <1>1 DEF Start, StartMissing
<1>3. directories' = {} /\ files' = {}
  BY <1>1, <1>2 DEF Stored, database
<1>4. bytes = 0
  <2>1. Len(stack) = 0
    BY <1>1
  <2> QED
    BY <1>1, <2>1, HeldNone DEF TotalKept
<1>5. ~ Linked(Root) /\ fs.size[Root] \in Nat
  BY <1>1, TreeTyped, PathAssumption DEF Linked, Path
<1>6. seen' = seen /\ Counted(Root) = fs.size[Root]
  BY <1>5 DEF Start, StartMissing, Account, Counted
<1>7. LinksCounted'
  BY <1>1, <1>2, <1>3, <1>6, LinksStay
<1>8. CASE StartMissing
  <2>1. pc' = "complete" /\ Len(stack') = 0
    BY <1>1, <1>8 DEF StartMissing
  <2>2. Depths' = {}
    BY <2>1 DEF Depths
  <2> QED
    BY <1>3, <1>7, <2>1, <2>2 DEF SizesInv, SubtreesAdded, TotalKept
<1>9. CASE Start
  <2>1. PICK failures \in Failures : stack' = <<Open(Root, failures)>>
    BY <1>9 DEF Start
  <2>2. pc' = "walk" /\ bytes' = fs.size[Root]
    BY <1>4, <1>5, <1>6, <1>9 DEF Start, Account
  <2>3. /\ Len(stack') = 1 /\ stack'[1].path = Root
        /\ stack'[1].bytes = fs.size[Root] /\ stack'[1].direct = 0
    BY <1>5, <1>6, <2>1 DEF Open
  <2>4. Held(stack', 1) = fs.size[Root]
    <3>1. \A i \in 1..(0 + 1) : stack'[i].bytes \in Nat
      BY <1>5, <2>3
    <3>2. Held(stack', 0 + 1) = Held(stack', 0) + stack'[0 + 1].bytes
      BY <3>1, HeldMore
    <3> QED
      BY <1>5, <2>3, <3>2, HeldNone
  <2>5. Bytes(Writer!Of(directories', Root)) = 0
    <3>1. Writer!Of(directories', Root) = {}
      BY <1>3 DEF Writer!Of
    <3> QED
      BY <3>1, BytesNone
  <2>6. fs.size[Root] = fs'.size[Root] + 0 + Bytes(Writer!Of(directories', Root))
    BY <1>2, <1>5, <2>5
  <2>7. SubtreesAdded'
    <3>1. \A i \in Depths' : i = 1
      BY <2>3 DEF Depths
    <3> QED
      BY <1>3, <2>3, <2>6, <3>1 DEF SubtreesAdded, Adds
  <2> QED
    BY <1>7, <2>2, <2>3, <2>4, <2>7 DEF SizesInv, TotalKept
<1> QED
  BY <1>8, <1>9

\* A directory is entered: nothing is known below it.
LEMMA SizesDescend ==
  ASSUME PipelineInv, SizesInv, NEW n \in Node, Descend(n), Stored
  PROVE  SizesInv'
<1>1. /\ pc = "walk" /\ Going /\ pc' = pc /\ fs' = fs /\ emitted' = None
      /\ fs.kind[n] = "directory"
  BY DEF Descend, Visitable, Walking, Going
<1>2. directories' = directories /\ files' = files
  BY <1>1 DEF Stored, database
<1>3. WalkInv /\ TypeOK /\ SubtreesAdded /\ TotalKept /\ LinksCounted /\ Rows
  BY <1>1 DEF PipelineInv, WalkInv, SizesInv
<1>4. /\ Len(stack') = Len(stack) + 1 /\ stack' \in Seq(Frame)
      /\ \A i \in Depths :
           /\ stack[i].path # n /\ stack'[i].path = stack[i].path
           /\ stack'[i].bytes = stack[i].bytes
           /\ stack'[i].direct = stack[i].direct
      /\ stack'[Len(stack')].path = n
      /\ stack'[Len(stack')].bytes = Counted(n) /\ stack'[Len(stack')].direct = 0
  BY <1>3, WalkDescend DEF WalkInv, TypeOK
<1>5. /\ Counted(n) = fs.size[n] /\ fs.size[n] \in Nat
      /\ seen' = seen /\ bytes' = bytes + fs.size[n]
  <2>1. ~ Linked(n) /\ fs.size[n] \in Nat
    BY <1>1, <1>3, TreeTyped DEF Linked, Path
  <2> QED
    BY <2>1 DEF Counted, Descend, Account
<1>6. Len(stack) \in Nat /\ Kept' = Kept
  BY <1>2, <1>3, FramesTyped DEF TypeOK, Kept
<1>7. Depths' = Depths \cup {Len(stack')}
  BY <1>4, <1>6 DEF Depths
<1>8. Opened \subseteq Opened' /\ n \notin Opened
  BY <1>4, <1>7 DEF Opened
<1>9. SubtreesAdded'
  <2>1. \A p, t, d : Adds(p, t, d)' <=> Adds(p, t, d)
    BY <1>1, <1>2 DEF Adds
  <2>2. n \notin Kept => Adds(n, fs.size[n], 0)
    <3>1. ASSUME n \notin Kept PROVE Bytes(Writer!Of(directories, n)) = 0
      <4>1. n \notin Reached /\ n # None
        BY <1>8, <3>1, PathAssumption DEF Reached
      <4>2. Cardinality(Writer!Of(directories, n)) = 0
        BY <1>1, <4>1, NothingBelow DEF Numbers
      <4>3. Writer!Of(directories, n) = {}
        <5>1. Writer!Of(directories, n) \subseteq directories
          BY DEF Writer!Of
        <5> QED
          BY <1>3, <4>2, <5>1, FS_Subset, FS_EmptySet DEF Rows
      <4> QED
        BY <4>3, BytesNone
    <3> QED
      BY <1>5, <3>1 DEF Adds
  <2>3. ASSUME NEW i \in Depths', stack'[i].path \notin Kept
        PROVE  Adds(stack'[i].path, stack'[i].bytes, stack'[i].direct)
    <3>1. CASE i \in Depths
      BY <1>3, <1>4, <2>3, <3>1 DEF SubtreesAdded
    <3>2. CASE i = Len(stack')
      BY <1>4, <1>5, <2>2, <2>3, <3>2
    <3> QED
      BY <1>7, <3>1, <3>2
  <2>4. \A row \in directories : row.path \notin Opened' =>
          Adds(row.path, row.bytes, row.direct)
    BY <1>3, <1>8 DEF SubtreesAdded
  <2> QED
    BY <1>2, <1>6, <2>1, <2>3, <2>4 DEF SubtreesAdded, Adds
<1>10. TotalKept'
  <2>1. \A i \in 1..(Len(stack) + 1) : stack'[i].bytes \in Nat
    BY <1>4, FramesTyped
  <2>2. /\ Held(stack', Len(stack)) \in Nat
        /\ Held(stack', Len(stack) + 1)
             = Held(stack', Len(stack)) + stack'[Len(stack) + 1].bytes
    BY <1>6, <2>1, HeldMore
  <2>3. Held(stack', Len(stack)) = Held(stack, Len(stack))
    BY <1>4, <1>6, HeldSame DEF Depths
  <2>4. bytes = Held(stack, Len(stack))
    BY <1>1, <1>3 DEF TotalKept
  <2> QED
    BY <1>1, <1>4, <1>5, <2>2, <2>3, <2>4 DEF TotalKept
<1> QED
  BY <1>1, <1>2, <1>3, <1>5, <1>9, <1>10, LinksStay DEF SizesInv

\* What rows below a directory add up to is a number.
LEMMA RowsBytes ==
  ASSUME Rows, NEW p
  PROVE  /\ IsFiniteSet(Writer!Of(directories, p))
         /\ \A row \in Writer!Of(directories, p) : row.bytes \in Nat
         /\ Bytes(Writer!Of(directories, p)) \in Nat
<1> DEFINE S == Writer!Of(directories, p)
           a == [row \in S |-> row.bytes]
<1>1. S \subseteq directories
  BY DEF Writer!Of
<1>2. IsFiniteSet(S) /\ \A row \in S : row.bytes \in Nat
  BY <1>1, FS_Subset DEF Rows, DirectoryRecord
<1>3. Numbered(a, S)
  BY <1>2 DEF Numbered
<1>4. Bytes(S) = Total(a, S)
  BY DEF Bytes
<1> HIDE DEF S, a
<1>5. Total(a, S) \in Nat
  BY <1>3, TotalSame
<1> QED
  BY <1>2, <1>4, <1>5 DEF S

\* The inodes of files are entries, and their sizes those of the files.
LEMMA MeasuredTyped ==
  ASSUME TypeOK, Rows
  PROVE  /\ Measured \subseteq Node /\ IsFiniteSet(Node)
         /\ IsFiniteSet(LinkedFiles) /\ \A row \in LinkedFiles : row.bytes \in Nat
         /\ \A S \in SUBSET Node : Numbered(fs.size, S)
<1>1. \A row \in files : row.path \in Node
  BY DEF Rows, FileRecord
<1>2. Measured \subseteq Node
  BY <1>1, TreeTyped DEF Measured, LinkedFiles, Inodes
<1>3. \A S \in SUBSET Node : IsFiniteSet(S) /\ \A x \in S : fs.size[x] \in Nat
  BY PathAssumption, FS_Subset, TreeTyped DEF Path
<1>4. IsFiniteSet(LinkedFiles) /\ \A row \in LinkedFiles : row.bytes \in Nat
  <2>1. LinkedFiles \subseteq files
    BY DEF LinkedFiles
  <2>2. IsFiniteSet(files) /\ \A row \in files : row.bytes \in Nat
    BY DEF Rows, FileRecord
  <2> QED
    BY <2>1, <2>2, FS_Subset
<1> QED
  BY <1>2, <1>3, <1>4, PathAssumption DEF Numbered

\* A file is reported: it adds its size if it is the first of its names.
LEMMA LinksMeasure ==
  ASSUME TypeOK, Rows, LinksCounted, NEW n \in Node, Reported(n), Account(n),
         fs' = fs, n \notin Writer!Paths(files), NEW row, row.path = n,
         row.bytes = Counted(n), files' = files \cup {row}
  PROVE  LinksCounted'
<1> DEFINE i == fs.inode[n]
<1>1. /\ i \in Node /\ fs.kind[n] = "file" /\ EmitFiles
      /\ Counted(n) \in Nat /\ fs.size[i] = fs.size[n] /\ fs.size[n] \in Nat
  BY TreeTyped, CountedTyped, InodeAssumption DEF Reported, Path, TypeOK
<1>2. Linked(n) <=> n \in fs.linked
  BY <1>1 DEF Linked
<1>3. seen' = IF Linked(n) THEN seen \cup {i} ELSE seen
  BY DEF Account
<1>4. row \notin files
  BY DEF Writer!Paths
<1>5. CASE ~ Linked(n)
  <2>1. LinkedFiles' = LinkedFiles
    BY <1>2, <1>5 DEF LinkedFiles
  <2>2. Measured' = Measured
    BY <2>1 DEF Measured, Inodes
  <2>3. row.bytes = fs.size[row.path]
    BY <1>5 DEF Counted
  <2>4. \A r \in files' \ LinkedFiles' : r.bytes = fs'.size[r.path]
    BY <2>1, <2>3 DEF LinksCounted
  <2> QED
    BY <1>3, <1>5, <2>1, <2>2, <2>4 DEF LinksCounted
<1>6. CASE Linked(n)
  <2>1. LinkedFiles' = LinkedFiles \cup {row}
    BY <1>2, <1>6 DEF LinkedFiles
  <2>2. Measured' = Measured \cup {i}
    BY <2>1 DEF Measured, Inodes
  <2>3. /\ Bytes(LinkedFiles) \in Nat
        /\ Bytes(LinkedFiles \cup {row}) = Bytes(LinkedFiles) + Counted(n)
    <3>1. row \notin LinkedFiles
      BY <1>4 DEF LinkedFiles
    <3> QED
      BY <1>1, <3>1, MeasuredTyped, BytesMore
  <2>4. Bytes(LinkedFiles) = Total(fs.size, Measured)
    BY DEF LinksCounted
  <2>5. Bytes(LinkedFiles \cup {row}) = Total(fs.size, Measured \cup {i})
    <3>1. CASE i \in seen
      <4>1. Counted(n) = 0 /\ i \in Measured
        BY <1>1, <1>6, <3>1 DEF Counted, LinksCounted
      <4>2. Measured \cup {i} = Measured
        BY <4>1
      <4> QED
        BY <2>3, <2>4, <4>1, <4>2
    <3>2. CASE i \notin seen
      <4>1. Counted(n) = fs.size[i] /\ i \notin Measured
        BY <1>1, <3>2 DEF Counted, LinksCounted
      <4>2. Measured \cup {i} \in SUBSET Node
        BY <1>1, MeasuredTyped
      <4>3. Numbered(fs.size, Measured \cup {i})
        BY <4>2, MeasuredTyped
      <4> HIDE DEF i
      <4>4. \A S, x : x \notin S /\ Numbered(fs.size, S \cup {x}) =>
              Total(fs.size, S \cup {x}) = Total(fs.size, S) + fs.size[x]
        BY TotalMore
      <4>5. Total(fs.size, Measured \cup {i}) = Total(fs.size, Measured) + fs.size[i]
        BY <4>1, <4>3, <4>4
      <4> QED
        BY <2>3, <2>4, <4>1, <4>5
    <3> QED
      BY <3>1, <3>2
  <2>6. \A r \in files' \ LinkedFiles' : r.bytes = fs'.size[r.path]
    BY <2>1 DEF LinksCounted
  <2> QED
    BY <1>1, <1>3, <1>6, <2>1, <2>2, <2>5, <2>6 DEF LinksCounted
<1> QED
  BY <1>5, <1>6

\* An entry is measured: the deepest directory and the scan count it alike.
LEMMA SizesMeasure ==
  ASSUME PipelineInv, SizesInv, NEW n \in Node, Measure(n), Stored,
         pc' # "failed"
  PROVE  SizesInv'
<1>1. /\ pc = "walk" /\ Going /\ pc' = pc /\ fs' = fs
      /\ Account(n) /\ fs.kind[n] # "directory"
  BY DEF Measure, Visitable, Walking, Going, Refused
<1>2. WalkInv /\ TypeOK /\ Rows /\ SubtreesAdded /\ TotalKept /\ LinksCounted
  BY <1>1 DEF PipelineInv, WalkInv, SizesInv
<1>3. /\ WalkInv' /\ Len(stack') = Len(stack) /\ Len(stack) \in Depths
      /\ \A i \in Depths :
           /\ stack'[i].path = stack[i].path
           /\ i # Len(stack) => /\ stack'[i].bytes = stack[i].bytes
                                /\ stack'[i].direct = stack[i].direct
      /\ stack'[Len(stack)].bytes = Top.bytes + Counted(n)
      /\ stack'[Len(stack)].direct = Top.direct + Counted(n)
      /\ IF Reported(n)
         THEN /\ emitted' = [kind |-> "file", path |-> n, parent |-> Top.path,
                             bytes |-> Counted(n)]
              /\ emitted' \in FileRecord
         ELSE emitted' = None
  BY <1>2, WalkMeasure
<1>4. PICK size \in Nat : size = Counted(n)
  BY <1>2, CountedTyped DEF Path
<1>5. /\ directories' = directories
      /\ IF Reported(n)
         THEN /\ emitted'.path = n /\ emitted'.bytes = Counted(n)
              /\ n \notin Writer!Paths(files) /\ files' = files \cup {emitted'}
         ELSE files' = files
  <2>1. CASE Reported(n)
    <3>1. /\ emitted'.path = n /\ emitted'.bytes = Counted(n)
          /\ emitted'.kind = "file" /\ emitted' # None
      BY <1>3, <2>1, RecordAssumption
    <3>2. Writer!InsertFile(emitted')
      BY <1>1, <3>1 DEF Stored
    <3> QED
      BY <2>1, <3>1, <3>2 DEF Writer!InsertFile
  <2>2. CASE ~ Reported(n)
    BY <1>1, <1>3, <2>2 DEF Stored, database
  <2> QED
    BY <2>1, <2>2
<1>6. LinksCounted'
  <2>1. CASE Reported(n)
    BY <1>1, <1>2, <1>5, <2>1, LinksMeasure
  <2>2. CASE ~ Reported(n)
    <3>1. files' = files /\ LinkedFiles' = LinkedFiles /\ Measured' = Measured
      BY <1>1, <1>5, <2>2 DEF Measured, LinkedFiles, Inodes
    <3>2. seen \subseteq seen' /\ (EmitFiles => seen' = seen)
      BY <1>1, <2>2 DEF Account, Linked, Reported
    <3> QED
      BY <1>1, <1>2, <3>1, <3>2 DEF LinksCounted
  <2> QED
    BY <2>1, <2>2
<1>7. Kept' = Kept /\ Depths' = Depths /\ Opened' = Opened
  <2>1. Kept' = Kept /\ Depths' = Depths
    BY <1>3, <1>5 DEF Kept, Depths
  <2> QED
    BY <1>3, <2>1 DEF Opened
<1>8. /\ stack \in Seq(Frame) /\ stack' \in Seq(Frame)
      /\ Len(stack) \in Nat /\ Top.bytes \in Nat /\ Top.direct \in Nat
      /\ Top.path \in Path
  BY <1>2, <1>3, FramesTyped DEF WalkInv, TypeOK, Top, Depths
<1>9. \A p \in Path : fs.size[p] \in Nat /\ Bytes(Writer!Of(directories, p)) \in Nat
  BY <1>2, TreeTyped, RowsBytes
<1>10. SubtreesAdded'
  <2>1. \A p, t, d : Adds(p, t, d)' <=> Adds(p, t, d)
    BY <1>1, <1>5 DEF Adds
  <2>2. ASSUME Adds(Top.path, Top.bytes, Top.direct)
        PROVE  Adds(Top.path, Top.bytes + size, Top.direct + size)
    <3>1. PICK own \in Nat, below \in Nat :
            own = fs.size[Top.path] /\ below = Bytes(Writer!Of(directories, Top.path))
      BY <1>8, <1>9
    <3>2. PICK t \in Nat, d \in Nat : t = Top.bytes /\ d = Top.direct
      BY <1>8
    <3>3. t = own + d + below
      BY <2>2, <3>1, <3>2 DEF Adds
    <3>4. t + size = own + (d + size) + below
      BY <3>3
    <3> QED
      BY <3>1, <3>2, <3>4 DEF Adds
  <2>3. ASSUME NEW i \in Depths, stack'[i].path \notin Kept
        PROVE  Adds(stack'[i].path, stack'[i].bytes, stack'[i].direct)
    <3>1. CASE i # Len(stack)
      BY <1>2, <1>3, <2>3, <3>1 DEF SubtreesAdded
    <3>2. CASE i = Len(stack)
      <4>1. Adds(Top.path, Top.bytes, Top.direct)
        BY <1>2, <1>3, <2>3, <3>2 DEF SubtreesAdded, Top
      <4> QED
        BY <1>3, <1>4, <2>2, <3>2, <4>1 DEF Top
    <3> QED
      BY <3>1, <3>2
  <2> QED
    BY <1>2, <1>5, <1>7, <2>1, <2>3 DEF SubtreesAdded, Adds
<1>11. TotalKept'
  <2>1. PICK k \in Nat : Len(stack) = k + 1
    <3>1. Len(stack) - 1 \in Nat /\ Len(stack) = (Len(stack) - 1) + 1
      BY <1>3, <1>8 DEF Depths
    <3> QED
      BY <3>1
  <2>2. /\ \A i \in 1..(k + 1) : stack[i].bytes \in Nat
        /\ \A i \in 1..(k + 1) : stack'[i].bytes \in Nat
    BY <1>3, <1>8, <2>1, FramesTyped
  <2>3. /\ Held(stack, k) \in Nat
        /\ Held(stack, Len(stack)) = Held(stack, k) + Top.bytes
    BY <2>1, <2>2, HeldMore DEF Top
  <2>4. Held(stack', Len(stack)) = Held(stack', k) + (Top.bytes + size)
    <3>1. Held(stack', k + 1) = Held(stack', k) + stack'[k + 1].bytes
      BY <2>2, HeldMore
    <3> QED
      BY <1>3, <1>4, <2>1, <3>1
  <2>5. Held(stack', k) = Held(stack, k)
    <3>1. \A i \in 1..k : i \in Depths /\ i # Len(stack)
      BY <2>1 DEF Depths
    <3> QED
      BY <1>3, <3>1, HeldSame
  <2>6. bytes = Held(stack, Len(stack)) /\ bytes' = bytes + size
    BY <1>1, <1>2, <1>4 DEF TotalKept, Account
  <2> QED
    BY <1>1, <1>3, <1>8, <2>3, <2>4, <2>5, <2>6 DEF TotalKept
<1> QED
  BY <1>6, <1>10, <1>11 DEF SizesInv

\* A directory is left: what it adds up to is stored in its row and goes to
\* the directory above it, which has that row below it from then on.
LEMMA SizesLeave ==
  ASSUME PipelineInv, WalkInv', SizesInv, Leave, Stored, pc' # "failed"
  PROVE  SizesInv'
<1> DEFINE row == emitted'  p == Top.path
           Now(q, t, d) == t = fs'.size[q] + d + Bytes(Writer!Of(directories', q))
<1>1. /\ pc = "walk" /\ Going /\ fs' = fs /\ Len(stack) \in Depths
      /\ Len(stack') = Len(stack) - 1 /\ row \in DirectoryRecord
      /\ row.path = p /\ row.bytes = Top.bytes /\ row.direct = Top.direct
      /\ \A i \in Depths' :
           /\ i \in Depths /\ stack'[i].path = stack[i].path
           /\ stack'[i].bytes = IF i = Len(stack') THEN stack[i].bytes + Top.bytes
                                ELSE stack[i].bytes
           /\ stack'[i].direct = stack[i].direct
  BY LeaveFacts
<1>2. /\ p \notin Kept /\ directories' = directories \cup {row} /\ files' = files
      /\ Kept' = Kept \cup {p} /\ Opened = Opened' \cup {p} /\ p \notin Opened'
      /\ row.parent # p /\ p \in Path
      /\ row.parent = None \/ row.parent \in Opened'
      /\ \A i \in Depths' : row.parent = stack[i].path <=> i = Len(stack')
  BY LeaveFacts
<1>3. /\ stack' = <<>> => p = Root
      /\ pc' = "complete" <=> stack' = <<>>
      /\ pc' \in {"walk", "complete"}
  BY LeaveFacts
<1>4. UNCHANGED <<seen, bytes>> /\ p = stack[Len(stack)].path
  BY DEF Leave, Top
<1>5. WalkInv /\ TypeOK /\ Rows /\ SubtreesAdded /\ TotalKept /\ LinksCounted
  BY <1>1 DEF PipelineInv, WalkInv, SizesInv
<1> HIDE DEF row, p
<1>6. /\ stack \in Seq(Frame) /\ stack' \in Seq(Frame) /\ Len(stack) \in Nat
      /\ Len(stack') \in Nat /\ Top.bytes \in Nat
      /\ \A i \in 1..Len(stack) : stack[i].bytes \in Nat /\ stack[i].direct \in Nat
      /\ \A i \in 1..Len(stack') : stack'[i].bytes \in Nat
  <2>1. stack \in Seq(Frame) /\ stack' \in Seq(Frame)
    BY <1>5 DEF WalkInv, TypeOK
  <2> QED
    BY <1>1, <2>1, FramesTyped DEF Top, Depths
<1>7. row.bytes \in Nat /\ row \notin directories /\ Adds(p, row.bytes, row.direct)
  <2>1. Adds(p, Top.bytes, Top.direct)
    BY <1>1, <1>2, <1>4, <1>5 DEF SubtreesAdded, Top
  <2> QED
    BY <1>1, <1>2, <1>6, <2>1 DEF Kept, Writer!Paths
<1>8. ASSUME NEW q, NEW t, NEW d, q # row.parent, Adds(q, t, d)
      PROVE  Now(q, t, d)
  <2>1. Writer!Of(directories', q) = Writer!Of(directories, q)
    BY <1>2, <1>8 DEF Writer!Of
  <2> QED
    BY <1>1, <1>8, <2>1 DEF Adds
<1>9. ASSUME NEW q \in Path, q = row.parent, NEW t \in Nat, NEW d \in Nat,
             Adds(q, t, d)
      PROVE  Now(q, t + row.bytes, d)
  <2> DEFINE below == Writer!Of(directories, q)
  <2>1. Writer!Of(directories', q) = below \cup {row}
    BY <1>2, <1>9 DEF Writer!Of
  <2>2. IsFiniteSet(below) /\ (\A r \in below : r.bytes \in Nat) /\ row \notin below
    BY <1>5, <1>7, RowsBytes DEF Writer!Of
  <2>3. t = fs.size[q] + d + Bytes(below) /\ fs.size[q] \in Nat
    BY <1>5, <1>9, TreeTyped DEF Adds
  <2> HIDE DEF below
  <2>4. Bytes(below) \in Nat /\ Bytes(below \cup {row}) = Bytes(below) + row.bytes
    BY <1>7, <2>2, BytesMore
  <2>5. PICK own \in Nat, held \in Nat, add \in Nat :
          own = fs.size[q] /\ held = Bytes(below) /\ add = row.bytes
    BY <1>7, <2>3, <2>4
  <2>6. t = own + d + held
    BY <2>3, <2>5
  <2>7. t + add = own + d + (held + add)
    BY <1>9, <2>5, <2>6
  <2>8. fs'.size[q] = own /\ Bytes(Writer!Of(directories', q)) = held + add
    BY <1>1, <2>1, <2>4, <2>5
  <2> QED
    BY <2>5, <2>7, <2>8
<1> HIDE DEF Now
<1>10. SubtreesAdded'
  <2>1. ASSUME NEW i \in Depths', stack'[i].path \notin Kept'
        PROVE  Now(stack'[i].path, stack'[i].bytes, stack'[i].direct)
    <3>1. /\ i \in Depths /\ stack'[i].path = stack[i].path
          /\ stack'[i].direct = stack[i].direct
          /\ Adds(stack[i].path, stack[i].bytes, stack[i].direct)
      BY <1>1, <1>2, <1>5, <2>1 DEF SubtreesAdded
    <3>2. CASE i # Len(stack')
      <4>1. stack[i].path # row.parent /\ stack'[i].bytes = stack[i].bytes
        BY <1>1, <1>2, <2>1, <3>2
      <4> QED
        BY <1>8, <3>1, <4>1
    <3>3. CASE i = Len(stack')
      <4>1. /\ stack[i].path = row.parent /\ stack[i].path \in Path
            /\ stack[i].bytes \in Nat /\ stack[i].direct \in Nat
        BY <1>2, <1>6, <2>1, <3>1, <3>3, FramesTyped DEF Depths
      <4>2. stack'[i].bytes = stack[i].bytes + row.bytes
        BY <1>1, <2>1, <3>3
      <4>3. Now(stack[i].path, stack[i].bytes + row.bytes, stack[i].direct)
        BY <1>9, <3>1, <4>1
      <4> QED
        BY <3>1, <4>2, <4>3
    <3> QED
      BY <3>2, <3>3
  <2>2. ASSUME NEW r \in directories', r.path \notin Opened'
        PROVE  Now(r.path, r.bytes, r.direct)
    <3>1. CASE r = row
      BY <1>1, <1>2, <1>7, <1>8, <3>1
    <3>2. CASE r # row
      <4>1. r \in directories /\ r.path \in Kept /\ r.path \in Path
        BY <1>2, <1>5, <2>2, <3>2 DEF Kept, Writer!Paths, Rows, DirectoryRecord
      <4>2. r.path \notin Opened /\ r.path # row.parent
        BY <1>2, <2>2, <4>1, PathAssumption DEF Path
      <4>3. Adds(r.path, r.bytes, r.direct)
        BY <1>5, <4>1, <4>2 DEF SubtreesAdded
      <4> QED
        BY <1>8, <4>2, <4>3
    <3> QED
      BY <3>1, <3>2
  <2> QED
    BY <2>1, <2>2 DEF SubtreesAdded, Adds, Now
<1>11. TotalKept'
  <2>1. PICK k \in Nat : Len(stack) = k + 1 /\ Len(stack') = k
    <3>1. Len(stack) - 1 \in Nat /\ Len(stack) = (Len(stack) - 1) + 1
      BY <1>1, <1>6 DEF Depths
    <3> QED
      BY <1>1, <3>1
  <2>2. /\ Held(stack, k) \in Nat
        /\ bytes = Held(stack, k) + Top.bytes
    <3>1. \A i \in 1..(k + 1) : stack[i].bytes \in Nat
      BY <1>6, <2>1
    <3>2. /\ Held(stack, k) \in Nat
          /\ Held(stack, k + 1) = Held(stack, k) + stack[k + 1].bytes
      BY <3>1, HeldMore
    <3> QED
      BY <1>1, <1>5, <2>1, <3>2 DEF TotalKept, Top
  <2>3. CASE k = 0
    <3>1. stack' = <<>> /\ pc' = "complete" /\ p = Root
      BY <1>3, <1>6, <2>1, <2>3
    <3>2. bytes = row.bytes
      BY <1>1, <1>6, <2>2, <2>3, HeldNone
    <3>3. \A r \in directories' : r.path = Root => r = row
      BY <1>2, <3>1 DEF Kept, Writer!Paths
    <3> QED
      BY <1>4, <3>1, <3>2, <3>3 DEF TotalKept
  <2>4. CASE k # 0
    <3>1. PICK j \in Nat : k = j + 1
      <4>1. k - 1 \in Nat /\ k = (k - 1) + 1
        BY <2>4
      <4> QED
        BY <4>1
    <3>2. pc' = "walk"
      <4>1. Len(stack') # 0
        BY <2>1, <2>4
      <4>2. stack' # <<>>
        BY <4>1
      <4> QED
        BY <1>3, <4>2
    <3>3. Held(stack, j) \in Nat /\ Held(stack, k) = Held(stack, j) + stack[k].bytes
      <4>1. \A i \in 1..(j + 1) : stack[i].bytes \in Nat
        BY <1>6, <2>1, <3>1
      <4> QED
        BY <3>1, <4>1, HeldMore
    <3>4. Held(stack', k) = Held(stack', j) + stack'[k].bytes
      <4>1. \A i \in 1..(j + 1) : stack'[i].bytes \in Nat
        BY <1>6, <2>1, <3>1
      <4> QED
        BY <3>1, <4>1, HeldMore
    <3>5. Held(stack', j) = Held(stack, j)
      <4>1. \A i \in 1..j : i \in Depths' /\ i # Len(stack')
        BY <2>1, <3>1 DEF Depths
      <4> QED
        BY <1>1, <4>1, HeldSame
    <3>6. /\ stack'[k].bytes = stack[k].bytes + Top.bytes
          /\ stack[k].bytes \in Nat
      <4>1. k \in Depths' /\ k = Len(stack') /\ k \in 1..Len(stack)
        BY <2>1, <3>1 DEF Depths
      <4> QED
        BY <1>1, <1>6, <4>1
    <3>7. bytes = Held(stack', k)
      BY <1>6, <2>2, <3>3, <3>4, <3>5, <3>6
    <3> QED
      BY <1>4, <2>1, <3>2, <3>7 DEF TotalKept
  <2> QED
    BY <2>3, <2>4
<1> QED
  BY <1>1, <1>2, <1>4, <1>5, <1>10, <1>11, LinksStay DEF SizesInv

\* The sizes are consistent at first, and every step keeps them so.
LEMMA SizesInductive ==
  /\ PipelineInit => SizesInv
  /\ PipelineInv /\ PipelineInv' /\ SizesInv /\ [PipelineNext]_all => SizesInv'
<1>1. ASSUME PipelineInit PROVE SizesInv
  <2>1. /\ pc = "start" /\ stack = <<>> /\ seen = {} /\ bytes = 0
        /\ directories = {} /\ files = {}
    BY <1>1 DEF PipelineInit, Init, Writer!WriterInit
  <2>2. Len(stack) = 0
    BY <2>1
  <2>3. SubtreesAdded
    BY <2>1, <2>2 DEF SubtreesAdded, Depths
  <2>4. TotalKept
    BY <2>1, <2>2, HeldNone DEF TotalKept
  <2>5. LinksCounted
    <3>1. Measured = {} /\ LinkedFiles = {}
      BY <2>1 DEF Measured, LinkedFiles, Inodes
    <3> QED
      BY <2>1, <3>1, BytesNone, TotalNone DEF LinksCounted
  <2> QED
    BY <2>3, <2>4, <2>5 DEF SizesInv
<1>2. ASSUME PipelineInv, PipelineInv', SizesInv, [PipelineNext]_all PROVE SizesInv'
  <2>1. WalkInv /\ WalkInv' /\ TypeOK
    BY <1>2 DEF PipelineInv, WalkInv
  <2>2. CASE Walk
    <3>1. Step /\ Stored
      BY <2>2 DEF Walk
    <3>2. CASE pc' \in {"cancelled", "limit", "failed"}
      BY <3>2 DEF SizesInv, Going
    <3>3. CASE pc' \notin {"cancelled", "limit", "failed"}
      <4>1. CASE Start \/ StartMissing
        BY <1>2, <3>1, <4>1, SizesStart
      <4>2. CASE Leave
        BY <1>2, <2>1, <3>1, <3>3, <4>2, SizesLeave
      <4>3. CASE Stop
        BY <3>3, <4>3 DEF Stop
      <4>4. ASSUME NEW n \in Node, Visit(n) PROVE SizesInv'
        <5>1. CASE Exclude(n) \/ Miss(n) \/ TooMuch(n)
          <6>1. Unmoved
            BY <2>1, <3>3, <5>1, WalkPassed
          <6>2. emitted' = None
            BY <5>1 DEF Exclude, Miss, TooMuch
          <6>3. UNCHANGED <<directories, files>>
            BY <3>1, <3>3, <6>2 DEF Stored, database
          <6> QED
            BY <1>2, <2>1, <6>1, <6>3, SizesStay DEF Unmoved
        <5>2. CASE Descend(n)
          BY <1>2, <3>1, <5>2, SizesDescend
        <5>3. CASE Measure(n)
          BY <1>2, <3>1, <3>3, <5>3, SizesMeasure
        <5> QED
          BY <4>4, <5>1, <5>2, <5>3 DEF Visit
      <4> QED
        BY <3>1, <4>1, <4>2, <4>3, <4>4 DEF Step
    <3> QED
      BY <3>2, <3>3
  <2>3. CASE ~ Walk
    <3>1. UNCHANGED <<fs, pc, stack, seen, bytes, directories, files>>
      BY <1>2, <2>3 DEF PipelineNext, Interrupt, Cancel, Finalize, Writer!Finalize,
         Writer!Abort, all, vars, database
    <3> QED
      BY <1>2, <2>1, <3>1, SizesStay
  <2> QED
    BY <2>2, <2>3
<1> QED
  BY <1>1, <1>2

\* The sizes of a completed database are consistent: what a directory shows is
\* its own size, what was measured directly in it and what the directories
\* below it show, and what the root shows is the total of the scan. Emitting
\* a directory adds its subtree to the one above exactly once, on whichever
\* path the walk came and whatever it missed.
THEOREM SizesCorrect == PipelineSpec => []SizesAddUp
<1>1. ASSUME PipelineInv, SizesInv PROVE SizesAddUp
  <2>1. SUFFICES ASSUME file = "complete"
        PROVE  /\ \A row \in directories : Adds(row.path, row.bytes, row.direct)
               /\ Row(Root).bytes = bytes
    BY DEF SizesAddUp, Adds
  <2>2. pc = "complete" /\ Writer!Valid(Root, finished)
    BY <1>1, <2>1 DEF PipelineInv, Finalized
  <2>3. SubtreesAdded /\ TotalKept /\ stack = <<>>
    BY <1>1, <2>2 DEF PipelineInv, SizesInv, Going, Hanging
  <2>4. Opened = {}
    <3>1. Len(stack) = 0
      BY <2>3
    <3> QED
      BY <3>1 DEF Depths, Opened
  <2>5. Row(Root) \in directories /\ Row(Root).path = Root
    BY <2>2 DEF Writer!Valid, Row
  <2> QED
    BY <2>2, <2>3, <2>4, <2>5 DEF SubtreesAdded, TotalKept
<1> QED
  BY <1>1, PipelineInductive, SizesInductive, PTL DEF PipelineSpec

\* All the names of a file that showed several links count it once between
\* them, however many a scan meets and in whichever order; a name that showed
\* one link counts it in full.
THEOREM HardlinksCorrect == PipelineSpec => []HardlinksCountOnce
<1>1. ASSUME PipelineInv, SizesInv PROVE HardlinksCountOnce
  <2>1. file = "complete" => LinksCounted
    BY <1>1 DEF PipelineInv, Finalized, SizesInv, Going
  <2> QED
    BY <2>1 DEF HardlinksCountOnce, LinksCounted, Measured, LinkedFiles
<1> QED
  BY <1>1, PipelineInductive, SizesInductive, PTL DEF PipelineSpec
-----------------------------------------------------------------------------
(* What is missing is marked. An entry without a row either has a          *)
(* directory above it, or itself, still to come in a directory on the      *)
(* stack, or else a warning was counted since the directories above it     *)
(* were entered.                                                           *)

Upwards(n) == {n} \cup Below(n)
Unrecorded(n) ==
  /\ n \notin Kept \cup Opened \cup Writer!Paths(files)
  /\ Upwards(n) \cap fs.mounted = {}
  /\ fs.kind[n] = "directory" \/ Reported(n)
Told(n, i) ==
  \/ warnings > stack[i].warningStart
  \/ \E j \in i..Len(stack) : stack[j].left \cap Upwards(n) # {}
MarkedRows(n) == \A row \in directories : row.path \in Below(n) => row.warnings > 0
MarkedFrames(n) == \A i \in Depths : stack[i].path \in Below(n) => Told(n, i)
MarkedInv ==
  Going => \A n \in Node : Unrecorded(n) => MarkedRows(n) /\ MarkedFrames(n)

\* What Below collects, step by step.
LEMMA BelowSteps ==
  ASSUME TypeOK, NEW n \in Node
  PROVE  \E above \in [0..Cardinality(Node) -> SUBSET Path] :
           /\ above[0] = {n} /\ Below(n) = above[Cardinality(Node)] \ {n}
           /\ \A k \in 1..Cardinality(Node) :
                above[k] = above[k-1] \cup {fs.parent[m] : m \in above[k-1] \cap Node}
<1> DEFINE D == SUBSET Path
           C == Cardinality(Node)
           F == [S \in D |-> S \cup {fs.parent[m] : m \in S \cap Node}]
           Rec(f) == [k \in 0..Cardinality(Node) |->
             IF k = 0 THEN {n} ELSE f[k-1] \cup {fs.parent[m] : m \in f[k-1] \cap Node}]
           above == CHOOSE f : f = Rec(f)
<1>1. C \in Nat /\ {n} \in D /\ \A m \in Node : fs.parent[m] \in Path
  BY PathAssumption, FS_CardinalityType, TreeTyped DEF Path
<1>2. F \in [D -> D]
  BY <1>1
<1>3. PICK f \in [0..C -> D] : f[0] = {n} /\ \A k \in 1..C : f[k] = F[f[k - 1]]
  <2> DEFINE x == {n}
  <2>1. x \in D /\ F \in [D -> D] /\ C \in Nat
    BY <1>1, <1>2
  <2> HIDE DEF D, F, C, x
  <2>2. Iterates(D, x, F, C) # {}
    BY <2>1, Iterated
  <2> QED
    BY <2>2 DEF Iterates, x
<1>4. f = Rec(f)
  <2>1. ASSUME NEW k \in 0..C, k # 0
        PROVE  f[k] = f[k-1] \cup {fs.parent[m] : m \in f[k-1] \cap Node}
    <3>1. k \in 1..C /\ k - 1 \in 0..C
      BY <1>1, <2>1
    <3>2. f[k - 1] \in D /\ f[k] = F[f[k - 1]]
      BY <1>3, <3>1
    <3> HIDE DEF D
    <3> QED
      BY <3>2
  <2> QED
    BY <1>3, <2>1
<1>5. above = Rec(above)
  BY <1>4
<1>6. Below(n) = above[C] \ {n}
  BY DEF Below
<1> HIDE DEF above
<1>7. /\ above[0] = {n}
      /\ \A k \in 1..C : above[k] = above[k-1] \cup {fs.parent[m] : m \in above[k-1] \cap Node}
  BY <1>1, <1>5
<1>8. \A k \in 0..C : above[k] \in D
  <2> DEFINE S == {k \in Nat : k <= C => above[k] \in D}
  <2>1. 0 \in S
    BY <1>1, <1>7
  <2>2. ASSUME NEW k \in Nat, k \in S PROVE k + 1 \in S
    <3>1. ASSUME k + 1 <= C PROVE above[k + 1] \in D
      <4>1. k + 1 \in 1..C /\ (k + 1) - 1 = k /\ above[k] \in D
        BY <1>1, <2>2, <3>1
      <4>2. above[k + 1] = above[k] \cup {fs.parent[m] : m \in above[k] \cap Node}
        BY <1>7, <4>1
      <4> QED
        BY <1>1, <4>1, <4>2
    <3> QED
      BY <3>1
  <2> HIDE DEF D
  <2>3. Nat \subseteq S
    <3> HIDE DEF S
    <3> QED
      BY <2>1, <2>2, Induction
  <2> QED
    BY <1>1, <2>3
<1>9. above \in [0..C -> D]
  BY <1>5, <1>8
<1> QED
  BY <1>6, <1>7, <1>9

\* What is above an entry lists the entry or something above it, so it is a
\* directory.
LEMMA BelowListed ==
  ASSUME TypeOK, NEW n \in Node, NEW d \in Below(n)
  PROVE  /\ d \in Path /\ d # n
         /\ \E m \in Upwards(n) \cap Node : fs.parent[m] = d
         /\ d # Root => fs.kind[d] = "directory"
<1> DEFINE C == Cardinality(Node)
<1>1. C \in Nat
  BY PathAssumption, FS_CardinalityType
<1>2. PICK above \in [0..C -> SUBSET Path] :
        /\ above[0] = {n} /\ Below(n) = above[C] \ {n}
        /\ \A k \in 1..C :
             above[k] = above[k-1] \cup {fs.parent[m] : m \in above[k-1] \cap Node}
  BY BelowSteps
<1> HIDE DEF C
<1> DEFINE Listed(k) == \A p \in above[k] :
             p = n \/ \E m \in above[k] \cap Node : fs.parent[m] = p
           S == {k \in Nat : k <= C => Listed(k)}
<1>3. 0 \in S
  BY <1>2
<1>4. ASSUME NEW k \in Nat, k \in S PROVE k + 1 \in S
  <2>1. ASSUME k + 1 <= C PROVE Listed(k + 1)
    <3>1. k + 1 \in 1..C /\ (k + 1) - 1 = k /\ Listed(k)
      BY <1>1, <1>4, <2>1
    <3>2. above[k + 1] = above[k] \cup {fs.parent[m] : m \in above[k] \cap Node}
      BY <1>2, <3>1
    <3> QED
      BY <3>1, <3>2
  <2> QED
    BY <2>1
<1>5. Nat \subseteq S
  <2> HIDE DEF S
  <2> QED
    BY <1>3, <1>4, Induction
<1>6. Listed(C) /\ above[C] \subseteq Path
  BY <1>1, <1>2, <1>5
<1>7. PICK m \in above[C] \cap Node : fs.parent[m] = d
  BY <1>2, <1>6
<1>8. m \in Upwards(n)
  BY <1>2, <1>7 DEF Upwards
<1>9. d # Root => fs.kind[d] = "directory"
  BY <1>7, ListingAssumption DEF TypeOK
<1> QED
  BY <1>2, <1>6, <1>7, <1>8, <1>9

\* A step that takes at most one entry from what the frames have left, and
\* moves no frame: if the entry matters, a warning is counted or the new top
\* has another one to come.
LEMMA FramesTold ==
  ASSUME WalkInv, NEW n \in Node, NEW m, Upwards(n)' = Upwards(n),
         warnings' \in Nat, warnings <= warnings',
         Len(stack') \in Nat, Len(stack) <= Len(stack'),
         \A i \in Depths : /\ stack'[i].path = stack[i].path
                           /\ stack'[i].warningStart = stack[i].warningStart
                           /\ stack[i].left \ {m} \subseteq stack'[i].left,
         \/ m \notin Upwards(n)
         \/ warnings < warnings'
         \/ stack'[Len(stack')].left \cap Upwards(n) # {},
         NEW i \in Depths, Told(n, i)
  PROVE  Told(n, i)'
<1>1. /\ Len(stack) \in Nat /\ i \in 1..Len(stack) /\ warnings \in Nat
      /\ stack[i].warningStart \in Nat /\ stack[i].warningStart <= warnings
  <2>1. stack[i] \in Frame /\ Len(stack) \in Nat
    BY DEF WalkInv, TypeOK, Depths
  <2> QED
    BY <2>1 DEF WalkInv, TypeOK, Chain, Depths, Frame
<1>2. CASE warnings < warnings' \/ warnings > stack[i].warningStart
  <2>1. warnings' > stack[i].warningStart
    BY <1>1, <1>2
  <2> QED
    BY <2>1 DEF Told
<1>3. CASE stack'[Len(stack')].left \cap Upwards(n) # {}
  <2>1. Len(stack') \in i..Len(stack')
    BY <1>1
  <2> QED
    BY <1>3, <2>1 DEF Told
<1>4. CASE m \notin Upwards(n) /\ ~ (warnings > stack[i].warningStart)
  <2>1. PICK j \in i..Len(stack) : stack[j].left \cap Upwards(n) # {}
    BY <1>4 DEF Told
  <2>2. j \in Depths /\ j \in i..Len(stack')
    BY <1>1, <2>1 DEF Depths
  <2>3. stack'[j].left \cap Upwards(n) # {}
    BY <1>4, <2>1, <2>2
  <2> QED
    BY <2>2, <2>3 DEF Told
<1> QED
  BY <1>2, <1>3, <1>4

\* What is above an entry is as long as the file system is.
LEMMA BelowStays ==
  ASSUME fs' = fs, NEW n
  PROVE  Below(n)' = Below(n) /\ Upwards(n)' = Upwards(n)
BY DEF Below, Upwards

\* An entry that has no row after a step had none before.
LEMMA StillUnrecorded ==
  ASSUME NEW n, fs' = fs, Unrecorded(n)', files \subseteq files',
         Kept \cup Opened \subseteq (Kept \cup Opened)'
  PROVE  Unrecorded(n)
<1>1. Upwards(n)' = Upwards(n)
  BY BelowStays
<1>2. Writer!Paths(files) \subseteq Writer!Paths(files')
  BY DEF Writer!Paths
<1>3. Reported(n)' <=> Reported(n)
  BY DEF Reported
<1> QED
  BY <1>1, <1>2, <1>3 DEF Unrecorded, Writer!Paths

\* The walk begins: whatever is in the tree is still to come, or the root
\* could not be read.
LEMMA MarkedStart ==
  ASSUME PipelineInv, WalkInv', Start \/ StartMissing, Stored
  PROVE  MarkedInv'
<1>1. /\ pc = "start" /\ directories = {} /\ emitted = None /\ stack = <<>> /\ WalkInv
  BY DEF Start, StartMissing, PipelineInv, WalkInv, Fresh, Hanging, Going
<1>2. fs' = fs /\ emitted' = None /\ pc' \in {"walk", "complete"}
  BY <1>1 DEF Start, StartMissing
<1>3. directories' = {}
  BY <1>1, <1>2 DEF Stored, database
<1>4. ASSUME NEW n \in Node, NEW i \in Depths', (stack[i].path \in Below(n))'
      PROVE  Told(n, i)'
  <2>1. Start
    <3>1. stack' = <<>> => Depths' = {}
      BY DEF Depths
    <3> QED
      BY <1>1, <1>4, <3>1 DEF StartMissing
  <2>2. PICK failures \in Failures :
          stack' = <<Open(Root, failures)>> /\ warnings' = warnings + failures
    BY <2>1 DEF Start
  <2>3. Len(stack') = 1 /\ stack'[1] = Open(Root, failures) /\ i = 1
    BY <1>4, <2>2 DEF Depths
  <2>4. warnings \in Nat
    BY <1>1 DEF WalkInv, TypeOK
  <2>5. CASE failures = 0
    <3>1. stack'[1].path = Root /\ stack'[1].left = Entries(Root)
      BY <2>3, <2>5 DEF Open
    <3>2. Root \in Below(n) /\ TypeOK
      BY <1>1, <1>2, <1>4, <2>3, <3>1, BelowStays DEF WalkInv
    <3>3. PICK m \in Upwards(n) \cap Node : fs.parent[m] = Root
      BY <3>2, BelowListed
    <3>4. m \in stack'[1].left /\ m \in Upwards(n)'
      BY <1>2, <3>1, <3>3, BelowStays DEF Entries
    <3> QED
      BY <2>3, <3>4 DEF Told
  <2>6. CASE failures = 1
    <3>1. stack'[1].warningStart = warnings
      BY <2>3 DEF Open, WarningStart
    <3> QED
      BY <2>2, <2>3, <2>4, <2>6, <3>1 DEF Told
  <2> QED
    BY <2>5, <2>6 DEF Failures
<1>5. \A n : MarkedRows(n)'
  BY <1>3 DEF MarkedRows
<1>6. \A n \in Node : MarkedFrames(n)'
  BY <1>4 DEF MarkedFrames
<1> QED
  BY <1>5, <1>6 DEF MarkedInv

\* An entry is passed over, or is gone.
LEMMA MarkedPassed ==
  ASSUME PipelineInv, WalkInv', MarkedInv, NEW m \in Node, Exclude(m) \/ Miss(m),
         Unmoved, Stored
  PROVE  MarkedInv'
<1>1. /\ pc = "walk" /\ pc' = pc /\ Going /\ fs' = fs /\ emitted' = None
      /\ Len(stack) \in Depths /\ WalkInv /\ WalkInv'
      /\ stack' = [stack EXCEPT ![Len(stack)].left = @ \ {m}]
  <2>1. Walking /\ stack # <<>> /\ WalkInv
    BY DEF Exclude, Miss, Visitable, Walking, PipelineInv, WalkInv, Bounded
  <2> QED
    BY <2>1, TopTyped DEF Exclude, Miss, Visitable, Walking, Going
<1>2. directories' = directories /\ files' = files
  BY <1>1 DEF Stored, database
<1>3. /\ Len(stack') = Len(stack) /\ Len(stack) \in Nat /\ Depths' = Depths
      /\ \A i \in Depths : /\ stack'[i].path = stack[i].path
                           /\ stack'[i].warningStart = stack[i].warningStart
                           /\ stack[i].left \ {m} \subseteq stack'[i].left
  <2>1. stack \in Seq(Frame)
    BY <1>1 DEF WalkInv, TypeOK
  <2>2. stack[Len(stack)] \in Frame
    BY <1>1, <2>1 DEF Depths
  <2>3. stack'[Len(stack)] = [stack[Len(stack)] EXCEPT !.left = @ \ {m}]
        /\ \A i \in Depths : i # Len(stack) => stack'[i] = stack[i]
    <3>1. \A i \in Depths : i \in DOMAIN stack
      BY <2>1 DEF Depths
    <3> QED
      BY <1>1, <3>1
  <2>4. /\ stack'[Len(stack)].path = stack[Len(stack)].path
        /\ stack'[Len(stack)].warningStart = stack[Len(stack)].warningStart
        /\ stack'[Len(stack)].left = stack[Len(stack)].left \ {m}
    BY <2>2, <2>3 DEF Frame
  <2>5. Len(stack') = Len(stack) /\ Len(stack) \in Nat
    BY <2>1 DEF Unmoved
  <2> QED
    BY <2>3, <2>4, <2>5 DEF Depths
<1>4. Kept' = Kept /\ Opened' = Opened
  BY <1>2, <1>3 DEF Kept, Opened
<1>5. warnings \in Nat /\ warnings' \in Nat /\ warnings <= warnings'
  <2>1. warnings \in Nat
    BY <1>1 DEF WalkInv, TypeOK
  <2> QED
    BY <2>1 DEF Exclude, Miss
<1>6. ASSUME NEW n \in Node, Unrecorded(n)'
      PROVE  (MarkedRows(n) /\ MarkedFrames(n))'
  <2>1. /\ Below(n)' = Below(n) /\ Upwards(n)' = Upwards(n) /\ Unrecorded(n)
    BY <1>1, <1>2, <1>4, <1>6, BelowStays, StillUnrecorded
  <2>2. MarkedRows(n) /\ MarkedFrames(n)
    BY <1>1, <2>1 DEF MarkedInv
  <2>3. m \notin Upwards(n) \/ warnings < warnings'
    <3>1. CASE Exclude(m)
      BY <2>1, <3>1 DEF Exclude, Unrecorded
    <3>2. CASE Miss(m)
      BY <1>5, <3>2 DEF Miss
    <3> QED
      BY <3>1, <3>2
  <2>4. ASSUME NEW i \in Depths, Told(n, i) PROVE Told(n, i)'
    BY <1>1, <1>3, <1>5, <2>1, <2>3, <2>4, FramesTold
  <2> QED
    BY <1>2, <1>3, <2>1, <2>2, <2>4 DEF MarkedRows, MarkedFrames
<1> QED
  BY <1>6 DEF MarkedInv

\* A directory is entered: what led to it now is one of its entries, unless it
\* cannot be read.
LEMMA MarkedDescend ==
  ASSUME PipelineInv, WalkInv', MarkedInv, NEW m \in Node, Descend(m), Stored
  PROVE  MarkedInv'
<1>1. /\ pc = "walk" /\ pc' = pc /\ Going /\ fs' = fs /\ emitted' = None
      /\ m \notin fs.mounted /\ WalkInv /\ TypeOK /\ Len(stack) \in Depths
      /\ Top \in Frame /\ warnings \in Nat /\ warnings' \in Nat
  <2>1. Walking /\ stack # <<>> /\ WalkInv /\ WalkInv'
    BY DEF Descend, Visitable, Walking, PipelineInv, WalkInv, Bounded
  <2> QED
    BY <2>1, TopTyped DEF Descend, Visitable, Walking, Going, WalkInv, TypeOK
<1>2. directories' = directories /\ files' = files
  BY <1>1 DEF Stored, database
<1>3. PICK failures \in Failures, left \in Remaining(m) :
        /\ stack' = Append([stack EXCEPT ![Len(stack)].left = left], Open(m, failures))
        /\ warnings' = warnings + failures
  BY DEF Descend
<1> DEFINE frame == Open(m, failures)
           kept == [stack EXCEPT ![Len(stack)].left = left]
<1>4. /\ Len(stack') = Len(stack) + 1 /\ Len(stack) \in Nat
      /\ Depths' = Depths \cup {Len(stack')}
      /\ stack'[Len(stack')] = frame
      /\ \A i \in Depths : stack'[i] = kept[i]
  <2>1. Len(kept) = Len(stack) /\ Len(stack) \in Nat /\ kept \in Seq(Frame)
    <3>1. stack \in Seq(Frame) /\ left \subseteq Node
      BY <1>1 DEF TypeOK, Remaining, Frame
    <3>2. kept = [stack EXCEPT ![Len(stack)] = [Top EXCEPT !.left = left]]
      BY DEF Top
    <3>3. [Top EXCEPT !.left = left] \in Frame
      BY <1>1, <3>1 DEF Frame
    <3> QED
      BY <1>1, <3>1, <3>2, <3>3 DEF Depths
  <2>2. frame \in Frame
    BY <1>1, OpenTyped DEF Path
  <2>3. stack' = Append(kept, frame)
    BY <1>3
  <2> HIDE DEF kept, frame
  <2> QED
    BY <2>1, <2>2, <2>3 DEF Depths
<1>5. \A i \in Depths : /\ stack'[i].path = stack[i].path
                        /\ stack'[i].warningStart = stack[i].warningStart
                        /\ stack[i].left \ {m} \subseteq stack'[i].left
  <2>1. /\ kept[Len(stack)] = [Top EXCEPT !.left = left]
        /\ \A i \in Depths : i # Len(stack) => kept[i] = stack[i]
    BY <1>1 DEF TypeOK, Top, Depths
  <2>2. /\ [Top EXCEPT !.left = left].path = Top.path
        /\ [Top EXCEPT !.left = left].warningStart = Top.warningStart
        /\ [Top EXCEPT !.left = left].left = left
    BY <1>1 DEF Frame
  <2>3. Top.left \ {m} \subseteq left
    BY DEF Remaining
  <2> HIDE DEF kept
  <2> QED
    BY <1>4, <2>1, <2>2, <2>3 DEF Top
<1>6. /\ frame.path = m
      /\ failures = 0 => frame.left = Entries(m)
      /\ failures = 1 => warnings < warnings'
      /\ frame.warningStart = warnings /\ warnings <= warnings'
      /\ failures \in {0, 1}
  BY <1>1, <1>3 DEF Open, WarningStart, Failures
<1> HIDE DEF frame, kept
<1>7. Kept' = Kept /\ Opened' = Opened \cup {m}
  BY <1>2, <1>4, <1>5, <1>6 DEF Kept, Opened
<1>8. ASSUME NEW n \in Node, Unrecorded(n)'
      PROVE  (MarkedRows(n) /\ MarkedFrames(n))'
  <2>1. /\ Below(n)' = Below(n) /\ Upwards(n)' = Upwards(n) /\ Unrecorded(n)
    BY <1>1, <1>2, <1>7, <1>8, BelowStays, StillUnrecorded
  <2>2. MarkedRows(n) /\ MarkedFrames(n)
    BY <1>1, <2>1 DEF MarkedInv
  <2>3. m # n
    BY <1>7, <1>8 DEF Unrecorded
  <2>4. m \in Below(n) => \/ warnings < warnings'
                          \/ stack'[Len(stack')].left \cap Upwards(n) # {}
    <3>1. CASE failures = 0 /\ m \in Below(n)
      <4>1. PICK c \in Upwards(n) \cap Node : fs.parent[c] = m
        BY <1>1, <3>1, BelowListed
      <4>2. c \in stack'[Len(stack')].left
        BY <1>4, <1>6, <3>1, <4>1 DEF Entries
      <4> QED
        BY <4>1, <4>2
    <3> QED
      BY <1>6, <3>1
  <2>5. m \in Upwards(n) => m \in Below(n)
    BY <2>3 DEF Upwards
  <2>6. Len(stack') \in Nat /\ Len(stack) <= Len(stack')
    BY <1>4
  <2>7. ASSUME NEW i \in Depths, Told(n, i) PROVE Told(n, i)'
    BY <1>1, <1>5, <1>6, <2>1, <2>4, <2>5, <2>6, <2>7, FramesTold
  <2>8. ASSUME NEW i \in Depths', i = Len(stack'), m \in Below(n) PROVE Told(n, i)'
    <3>1. i \in i..Len(stack')
      BY <2>6, <2>8
    <3> QED
      BY <1>4, <1>6, <2>1, <2>4, <2>8, <3>1 DEF Told
  <2>9. MarkedFrames(n)'
    <3>1. ASSUME NEW i \in Depths', stack'[i].path \in Below(n) PROVE Told(n, i)'
      <4>1. CASE i \in Depths
        BY <1>5, <2>2, <2>7, <3>1, <4>1 DEF MarkedFrames
      <4>2. CASE i = Len(stack')
        BY <1>4, <1>6, <2>8, <3>1, <4>2
      <4> QED
        BY <1>4, <4>1, <4>2
    <3> QED
      BY <2>1, <3>1 DEF MarkedFrames
  <2> QED
    BY <1>2, <2>1, <2>2, <2>9 DEF MarkedRows
<1> QED
  BY <1>8 DEF MarkedInv

\* An entry is measured: it gets its row, or is one that never has one. It is
\* above none, since it lists nothing.
LEMMA MarkedMeasure ==
  ASSUME PipelineInv, WalkInv', MarkedInv, NEW m \in Node, Measure(m), Stored,
         pc' # "failed"
  PROVE  MarkedInv'
<1>1. /\ pc = "walk" /\ pc' = pc /\ Going /\ fs' = fs /\ warnings' = warnings
      /\ fs.kind[m] # "directory" /\ m # Root
      /\ WalkInv /\ TypeOK /\ Len(stack) \in Depths /\ Top \in Frame /\ warnings \in Nat
  <2>1. Walking /\ stack # <<>> /\ WalkInv
    BY DEF Measure, Visitable, Walking, PipelineInv, WalkInv, Bounded
  <2> QED
    BY <2>1, TopTyped, PathAssumption DEF Measure, Visitable, Walking, Going,
       WalkInv, TypeOK, Refused
<1>2. /\ directories' = directories /\ files \subseteq files'
      /\ Reported(m) => m \in Writer!Paths(files')
  <2>1. CASE Reported(m)
    <3>1. /\ emitted' = [kind |-> "file", path |-> m, parent |-> Top.path,
                         bytes |-> Counted(m)]
          /\ emitted' \in FileRecord
      BY <1>1, <2>1, WalkMeasure
    <3>2. emitted' # None
      BY <3>1, RecordAssumption
    <3>3. Writer!InsertFile(emitted')
      BY <1>1, <3>1, <3>2 DEF Stored
    <3>4. files' = files \cup {emitted'} /\ directories' = directories
      BY <3>3 DEF Writer!InsertFile
    <3> QED
      BY <3>1, <3>4 DEF Writer!Paths
  <2>2. CASE ~ Reported(m)
    <3>1. emitted' = None
      BY <1>1, <2>2, WalkMeasure
    <3> QED
      BY <1>1, <2>2, <3>1 DEF Stored, database
  <2> QED
    BY <2>1, <2>2
<1>3. PICK left \in Remaining(m) :
        stack' = [stack EXCEPT ![Len(stack)] = Taken(Top, left, m)]
  BY DEF Measure, Top
<1>4. /\ Len(stack') = Len(stack) /\ Len(stack) \in Nat /\ Depths' = Depths
      /\ \A i \in Depths : /\ stack'[i].path = stack[i].path
                           /\ stack'[i].warningStart = stack[i].warningStart
                           /\ stack[i].left \ {m} \subseteq stack'[i].left
  <2>1. /\ Taken(Top, left, m).path = Top.path
        /\ Taken(Top, left, m).warningStart = Top.warningStart
        /\ Taken(Top, left, m).left = left
    <3>1. Counted(m) \in Nat /\ left \subseteq Top.left
      BY <1>1, CountedTyped DEF Path, Remaining
    <3> QED
      BY <1>1, <3>1, TakenTyped
  <2>2. /\ stack'[Len(stack)] = Taken(Top, left, m)
        /\ \A i \in Depths : i # Len(stack) => stack'[i] = stack[i]
        /\ Len(stack') = Len(stack) /\ Len(stack) \in Nat
    BY <1>1, <1>3 DEF TypeOK, Depths
  <2>3. Top.left \ {m} \subseteq left
    BY DEF Remaining
  <2> QED
    BY <2>1, <2>2, <2>3 DEF Top, Depths
<1>5. Kept' = Kept /\ Opened' = Opened
  BY <1>2, <1>4 DEF Kept, Opened
<1>6. ASSUME NEW n \in Node, Unrecorded(n)'
      PROVE  (MarkedRows(n) /\ MarkedFrames(n))'
  <2>1. /\ Below(n)' = Below(n) /\ Upwards(n)' = Upwards(n) /\ Unrecorded(n)
    BY <1>1, <1>2, <1>5, <1>6, BelowStays, StillUnrecorded
  <2>2. MarkedRows(n) /\ MarkedFrames(n)
    BY <1>1, <2>1 DEF MarkedInv
  <2>3. m # n
    BY <1>1, <1>2, <1>6 DEF Unrecorded, Reported, Writer!Paths
  <2>4. m \notin Upwards(n)
    <3>1. m \notin Below(n)
      BY <1>1, BelowListed
    <3> QED
      BY <2>3, <3>1 DEF Upwards
  <2>5. warnings' \in Nat /\ warnings <= warnings'
        /\ Len(stack') \in Nat /\ Len(stack) <= Len(stack')
    BY <1>1, <1>4
  <2>6. ASSUME NEW i \in Depths, Told(n, i) PROVE Told(n, i)'
    BY <1>1, <1>4, <2>1, <2>4, <2>5, <2>6, FramesTold
  <2> QED
    BY <1>2, <1>4, <2>1, <2>2, <2>6 DEF MarkedRows, MarkedFrames
<1> QED
  BY <1>6 DEF MarkedInv

\* A directory is left: it had nothing more to come, so it has been warned of
\* what is missing, or it is cut short, which is a warning.
LEMMA MarkedLeave ==
  ASSUME PipelineInv, WalkInv', MarkedInv, Leave, Stored, pc' # "failed"
  PROVE  MarkedInv'
<1> DEFINE row == emitted'  cut == IF Top.left = {} THEN 0 ELSE 1
<1>1. /\ pc = "walk" /\ Going /\ fs' = fs /\ Len(stack) \in Depths
      /\ Len(stack') = Len(stack) - 1 /\ row.path = Top.path
      /\ directories' = directories \cup {row} /\ files' = files
      /\ Kept' = Kept \cup {Top.path} /\ Opened = Opened' \cup {Top.path}
      /\ Depths = Depths' \cup {Len(stack)}
      /\ \A i \in Depths' : i \in Depths /\ stack'[i].path = stack[i].path
  BY LeaveFacts
<1>2. WalkInv /\ TypeOK /\ warnings \in Nat /\ Len(stack) \in Nat /\ Top \in Frame
      /\ Len(stack') \in Nat
  <2>1. WalkInv /\ TypeOK /\ stack # <<>> /\ Walking
    BY <1>1 DEF PipelineInv, WalkInv, Bounded, Leave
  <2> QED
    BY <2>1, TopTyped DEF WalkInv, TypeOK
<1>3. /\ warnings' = warnings + cut
      /\ row.warnings = warnings + cut - Top.warningStart
      /\ stack' = [i \in 1..(Len(stack) - 1) |->
                    IF i = Len(stack) - 1 THEN Added(stack[i], row) ELSE stack[i]]
  BY DEF Leave
<1> HIDE DEF row
<1>4. \A i \in Depths' : /\ stack'[i].warningStart = stack[i].warningStart
                         /\ stack'[i].left = stack[i].left
  <2>1. \A i \in Depths : stack[i] \in Frame
    BY <1>2 DEF TypeOK, Depths
  <2>2. \A i \in Depths' : i \in 1..(Len(stack) - 1) /\ i \in Depths
    BY <1>1, <1>2 DEF Depths
  <2>3. \A frame \in Frame : /\ Added(frame, row).warningStart = frame.warningStart
                             /\ Added(frame, row).left = frame.left
    BY DEF Added, Frame
  <2> QED
    BY <1>3, <2>1, <2>2, <2>3
<1>5. \A i \in Depths : stack[i].warningStart \in Nat /\ stack[i].warningStart <= warnings
  <2>1. \A i \in Depths : stack[i] \in Frame
    BY <1>2 DEF TypeOK, Depths
  <2> QED
    BY <1>2, <2>1 DEF WalkInv, Chain, Depths, Frame
<1>6. ASSUME NEW n \in Node, Unrecorded(n)'
      PROVE  (MarkedRows(n) /\ MarkedFrames(n))'
  <2>1. /\ Below(n)' = Below(n) /\ Upwards(n)' = Upwards(n) /\ Unrecorded(n)
    BY <1>1, <1>6, BelowStays, StillUnrecorded
  <2>2. MarkedRows(n) /\ MarkedFrames(n)
    BY <1>1, <2>1 DEF MarkedInv
  <2>3. ASSUME row.path \in Below(n) PROVE row.warnings > 0
    <3>1. Told(n, Len(stack))
      BY <1>1, <2>2, <2>3 DEF MarkedFrames, Top
    <3>2. Top.warningStart \in Nat /\ Top.warningStart <= warnings
      BY <1>1, <1>5 DEF Top
    <3>3. cut = 1 \/ warnings > Top.warningStart
      <4>1. CASE Top.left = {}
        <5>1. \A j \in Len(stack)..Len(stack) : stack[j].left = {}
          BY <1>2, <4>1 DEF Top
        <5> QED
          BY <3>1, <5>1 DEF Told, Top
      <4> QED
        BY <4>1
    <3> HIDE DEF cut
    <3>4. cut = 0 \/ cut = 1
      BY DEF cut
    <3> QED
      BY <1>2, <1>3, <3>2, <3>3, <3>4
  <2>4. MarkedRows(n)'
    BY <1>1, <2>1, <2>2, <2>3 DEF MarkedRows
  <2>5. ASSUME NEW i \in Depths', stack[i].path \in Below(n) PROVE Told(n, i)'
    <3>1. i \in Depths /\ Told(n, i) /\ i \in 1..Len(stack')
      BY <1>1, <2>2, <2>5 DEF MarkedFrames, Depths
    <3>2. CASE cut = 1 \/ warnings > stack[i].warningStart
      <4>1. warnings' > stack[i].warningStart
        <5>1. cut = 0 \/ cut = 1
          OBVIOUS
        <5> HIDE DEF cut
        <5> QED
          BY <1>2, <1>3, <1>5, <3>1, <3>2, <5>1
      <4> QED
        BY <1>4, <2>5, <4>1 DEF Told
    <3>3. CASE Top.left = {} /\ ~ (warnings > stack[i].warningStart)
      <4>1. PICK j \in i..Len(stack) : stack[j].left \cap Upwards(n) # {}
        BY <3>1, <3>3 DEF Told
      <4>2. j # Len(stack)
        BY <3>3, <4>1 DEF Top
      <4>3. j \in i..Len(stack') /\ j \in Depths'
        <5>1. PICK k \in Nat : k = Len(stack) /\ Len(stack') = k - 1
          BY <1>1, <1>2
        <5>2. j \in i..k /\ j # k /\ i \in 1..(k - 1)
          BY <3>1, <4>1, <4>2, <5>1
        <5>3. j \in i..(k - 1) /\ j \in 1..(k - 1)
          BY <5>2
        <5> QED
          BY <5>1, <5>3 DEF Depths
      <4>4. stack'[j].left \cap Upwards(n) # {}
        BY <1>4, <4>1, <4>3
      <4> QED
        BY <2>1, <4>3, <4>4 DEF Told
    <3> QED
      BY <3>2, <3>3
  <2> QED
    BY <1>1, <2>1, <2>4, <2>5 DEF MarkedFrames
<1> QED
  BY <1>6 DEF MarkedInv

\* Whatever is missing is marked at first, and every step keeps it so.
LEMMA MarkedInductive ==
  /\ PipelineInit => MarkedInv
  /\ PipelineInv /\ PipelineInv' /\ MarkedInv /\ [PipelineNext]_all => MarkedInv'
<1>1. ASSUME PipelineInit PROVE MarkedInv
  <2>1. directories = {} /\ Len(stack) = 0
    BY <1>1 DEF PipelineInit, Init, Writer!WriterInit
  <2>2. Depths = {}
    BY <2>1 DEF Depths
  <2> QED
    BY <2>1, <2>2 DEF MarkedInv, MarkedRows, MarkedFrames
<1>2. ASSUME PipelineInv, PipelineInv', MarkedInv, [PipelineNext]_all PROVE MarkedInv'
  <2>1. WalkInv /\ WalkInv'
    BY <1>2 DEF PipelineInv
  <2>2. CASE Walk
    <3>1. Step /\ Stored
      BY <2>2 DEF Walk
    <3>2. CASE pc' \in {"cancelled", "limit", "failed"}
      BY <3>2 DEF MarkedInv, Going
    <3>3. CASE pc' \notin {"cancelled", "limit", "failed"}
      <4>1. CASE Start \/ StartMissing
        BY <1>2, <2>1, <3>1, <4>1, MarkedStart
      <4>2. CASE Leave
        BY <1>2, <2>1, <3>1, <3>3, <4>2, MarkedLeave
      <4>3. CASE Stop
        BY <3>3, <4>3 DEF Stop
      <4>4. ASSUME NEW m \in Node, Visit(m) PROVE MarkedInv'
        <5>1. CASE Exclude(m) \/ Miss(m)
          <6>1. Unmoved
            BY <2>1, <3>3, <5>1, WalkPassed
          <6> QED
            BY <1>2, <2>1, <3>1, <5>1, <6>1, MarkedPassed
        <5>2. CASE TooMuch(m)
          BY <3>3, <5>2 DEF TooMuch
        <5>3. CASE Descend(m)
          BY <1>2, <2>1, <3>1, <5>3, MarkedDescend
        <5>4. CASE Measure(m)
          BY <1>2, <2>1, <3>1, <3>3, <5>4, MarkedMeasure
        <5> QED
          BY <4>4, <5>1, <5>2, <5>3, <5>4 DEF Visit
      <4> QED
        BY <3>1, <4>1, <4>2, <4>3, <4>4 DEF Step
    <3> QED
      BY <3>2, <3>3
  <2>3. CASE ~ Walk
    <3>1. UNCHANGED <<fs, pc, stack, warnings, directories, files>>
      BY <1>2, <2>3 DEF PipelineNext, Interrupt, Cancel, Finalize, Writer!Finalize,
         Writer!Abort, all, vars, database
    <3>2. Kept' = Kept /\ Opened' = Opened /\ Depths' = Depths
      BY <3>1 DEF Kept, Opened, Depths
    <3>3. ASSUME NEW n \in Node, Going, Unrecorded(n)'
          PROVE  (MarkedRows(n) /\ MarkedFrames(n))'
      <4>1. Below(n)' = Below(n) /\ Upwards(n)' = Upwards(n) /\ Unrecorded(n)
        BY <3>1, <3>2, <3>3, BelowStays, StillUnrecorded
      <4> QED
        BY <1>2, <3>1, <3>2, <3>3, <4>1 DEF MarkedInv, MarkedRows, MarkedFrames, Told
    <3> QED
      BY <3>1, <3>3 DEF MarkedInv, Going
  <2> QED
    BY <2>2, <2>3
<1> QED
  BY <1>1, <1>2

\* In a completed database every directory below which something was listed
\* and not measured says so, by a warning count that is not zero, whatever
\* vanished, could not be read or was cut short, at any depth.
THEOREM MarkedCorrect == PipelineSpec => []IncompleteIsMarked
<1>1. ASSUME PipelineInv, MarkedInv PROVE IncompleteIsMarked
  <2>1. SUFFICES ASSUME file = "complete", NEW n \in Node,
                        n \notin Writer!Paths(directories \cup files),
                        ({n} \cup Below(n)) \cap fs.mounted = {},
                        fs.kind[n] = "directory" \/ Reported(n)
                 PROVE  MarkedRows(n)
    BY DEF IncompleteIsMarked, MarkedRows
  <2>2. pc = "complete" /\ stack = <<>>
    BY <1>1, <2>1 DEF PipelineInv, Finalized, Hanging, Going
  <2>3. Opened = {}
    <3>1. Len(stack) = 0
      BY <2>2
    <3> QED
      BY <3>1 DEF Depths, Opened
  <2>4. Unrecorded(n)
    BY <2>1, <2>3 DEF Unrecorded, Kept, Upwards, Writer!Paths
  <2> QED
    BY <1>1, <2>2, <2>4 DEF MarkedInv, Going
<1> QED
  BY <1>1, PipelineInductive, MarkedInductive, PTL DEF PipelineSpec

=============================================================================
