---------------------------- MODULE MCScanStream ----------------------------
EXTENDS ScanStream
CONSTANTS a, b, c

\* A directory below the root, with a second directory or two files in it.
SizeOf == [n \in Path |-> CASE n = Root -> 1 [] n = a -> 2 [] OTHER -> 4]
MCTrees ==
  {[parent |-> p, kind |-> k, size |-> SizeOf, inode |-> [n \in Node |-> n],
    linked |-> {}, mounted |-> {}, long |-> long] :
     long \in {{}, {c}},
     p \in {f \in [Node -> Path] : f[a] = Root /\ f[b] = a /\ f[c] \in {Root, a}},
     k \in {f \in [Node -> {"directory", "file"}] :
              f[a] = "directory" /\ f[c] = "file"}}
=============================================================================
