-------------------------- MODULE SnapshotBuilder --------------------------
(***************************************************************************)
(* The in-memory tree of the terminal interface (core/snapshot.py):        *)
(* records are linked to their parents as they come, in any order, and the *)
(* tree is shown only if the whole is consistent.                          *)
(***************************************************************************)
EXTENDS Integers, FiniteSets

CONSTANTS
  Path, None,
  MaxRows      \* limits.max_directories

VARIABLES
  tree,        \* _directories: path -> Directory, for the paths added
  pending      \* _pending_children: path -> the children that wait for it

BuilderInit == tree = [p \in {} |-> None] /\ pending = [p \in Path |-> {}]

Known == DOMAIN tree

\* add_directory raises on a path it has, and on one too many.
Takes(row) == row.path \notin Known /\ Cardinality(Known) < MaxRows
Add(row) ==
  /\ Takes(row)
  /\ LET node == [parent |-> row.parent, bytes |-> row.bytes,
                  count |-> row.children, children |-> pending[row.path]]
         grown == [p \in Known \cup {row.path} |->
                    IF p = row.path THEN node ELSE tree[p]]
         waiting == [pending EXCEPT ![row.path] = {}]
     IN IF row.parent \in Known
        THEN /\ tree' = [grown EXCEPT ![row.parent].children = @ \cup {row.path}]
             /\ pending' = waiting
        ELSE /\ tree' = grown
             /\ pending' = IF row.parent = None THEN waiting
                           ELSE [waiting EXCEPT ![row.parent] = @ \cup {row.path}]

\* finalize visits the tree from its root; whatever it cannot reach, reaches
\* twice or finds with other children than announced makes it raise.
Visited(root) ==
  \A S \in SUBSET (Known \ {root}) :
    S # {} => \E p \in S : \E q \in Known \ S : p \in tree[q].children
Accepts(root, expected) ==
  /\ root \in Known
  /\ \A p \in Path : pending[p] = {}
  /\ \A p \in Known : root \notin tree[p].children
  /\ \A p \in Known : Cardinality(tree[p].children) = tree[p].count
  /\ Visited(root)
  /\ Cardinality(Known) = expected
=============================================================================
