-------------------------- MODULE MCSnapshotBroker --------------------------
(* Instances of SnapshotBroker for TLC.                                    *)
EXTENDS SnapshotBroker, TLC

CONSTANTS r1, r2, g1, g2, g3, g4, g5, g6, q1, q2, q3

\* The target r1 has a snapshot from an earlier session, r2 has none; or both
\* have one; or there is none.
OneArchived == (r1 :> g1) @@ (r2 :> None)
BothArchived == (r1 :> g1) @@ (r2 :> g2)
NothingArchived == [r \in Root |-> None]

\* Ids that the archive does not name are interchangeable.
FreshAfterOne == Permutations(Gen \ {g1})
FreshAfterBoth == Permutations(Gen \ {g1, g2})

\* Without an archive all ids are, and so are the searches.
FreshAndSearches == Permutations(Gen) \cup Permutations(Searches)
=============================================================================
