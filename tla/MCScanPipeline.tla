--------------------------- MODULE MCScanPipeline ---------------------------
EXTENDS ScanPipeline
CONSTANTS a, b, c, d

\* Every tree of four entries whose first is a directory of the root, with
\* two names for one file, a mounted directory and a path that is too long.
\* The names show one link or several, as links come and go; files that share
\* no inode here may have names elsewhere.
Parents == {f \in [Node -> Path] : /\ f[a] = Root /\ f[b] \in {Root, a}
                                  /\ f[c] \in {a, b} /\ f[d] \in {Root, a, b}}
Kinds == {f \in [Node -> {"directory", "file", "other"}] :
            /\ f[a] = "directory" /\ f[b] # "other"
            /\ f[c] = "file" /\ f[d] # "directory"}
Sizes == [n \in Path |-> CASE n = Root -> 1 [] n = a -> 2 [] n = b -> 4
                           [] OTHER -> 8]
Own == [n \in Node |-> n]
MCTrees ==
  {t \in [parent : Parents, kind : Kinds, size : {Sizes},
          inode : {Own, [Own EXCEPT ![d] = c]}, linked : SUBSET {c, d},
          mounted : {{}, {b}}, long : {{}, {d}}] :
     \A n \in Node : t.parent[n] # Root => t.kind[t.parent[n]] = "directory"}
=============================================================================
