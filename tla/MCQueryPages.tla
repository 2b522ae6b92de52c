---------------------------- MODULE MCQueryPages ----------------------------
EXTENDS QueryPages

\* Every tree of N entries of two sizes, the names in two orders.
Folds == {[p \in 1..N |-> (p % 2) + 1], [p \in 1..N |-> IF p < N THEN 1 ELSE 2]}
Parents == {f \in [1..N -> Path] : \A p \in 1..N : f[p] < p}
Trees(parent, file, bytes, fold) ==
  [parent |-> parent, file |-> file,
   bytes |-> [p \in Path |-> IF p = 0 THEN N ELSE bytes[p]],
   fold |-> [p \in Path |-> IF p = 0 THEN 1 ELSE fold[p]]]
MCDatabases ==
  {d \in {Trees(parent, file, bytes, fold) :
            parent \in Parents, file \in SUBSET (1..N),
            bytes \in [1..N -> 0..1], fold \in Folds} : Legal(d)}
MCQueries == {{1}, {1, 2}}
=============================================================================
