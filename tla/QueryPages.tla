----------------------------- MODULE QueryPages -----------------------------
(***************************************************************************)
(* Paging through a completed snapshot (omatree_core/sqlite_query.py).     *)
(* Every answer is one page; where it is cut depends on the row limit and  *)
(* on how many bytes its rows take; a token names where the next one       *)
(* starts. A client lists the children of a directory, the siblings from a *)
(* directory on, the directories that match a query, or the ancestors of a *)
(* path, and may present a token anywhere and after the snapshot has been  *)
(* replaced.                                                               *)
(***************************************************************************)
EXTENDS Integers, Sequences, FiniteSets, SequencesExt

CONSTANTS
  N,             \* paths are 0, the root, and 1..N, in the order of their texts
  Databases,     \* the snapshots considered
  Queries,       \* a search: the folded names it matches
  MaxRows,       \* query_limits.max_rows
  MaxBreadcrumb, \* query_limits.max_breadcrumb_rows
  MaxReplaced,   \* how often the snapshot is replaced
  None

Path == 0..N
Database ==
  [parent: [1..N -> Path], file: SUBSET (1..N), bytes: [Path -> Nat],
   fold: [Path -> Nat]]

\* What the writer has validated, with sizes that add up.
Legal(d) ==
  \A p \in 1..N :
    /\ d.parent[p] < p /\ d.parent[p] \notin d.file
    /\ d.bytes[p] >= MapThenSumSet(LAMBDA q : d.bytes[q],
                                  {q \in 1..N : d.parent[q] = p})

ASSUME DatabaseAssumption == \A d \in Databases : d \in Database /\ Legal(d)
ASSUME PageAssumption == MaxRows \in Nat \ {0} /\ MaxBreadcrumb \in Nat \ {0}
ASSUME PathAssumption == N \in Nat

VARIABLES
  db,     \* the snapshot that is active
  id,     \* its snapshot_id
  walk,   \* what the client asked for first, and of which snapshot
  seen,   \* the paths it was given since, in their order
  token   \* the continuation of the last page, or None

vars == <<db, id, walk, seen, token>>

Token(op, scope, key) == [op |-> op, scope |-> scope, id |-> id, key |-> key]

Operations == {"children", "childrenAt", "search", "ancestors"}
\* childrenAt reads no token: a request that carries one is a First.
Paged == Operations \ {"childrenAt"}
Requests(S) == [op : Operations, scope : S, id : Nat]
Tokens(S) ==
  [op : Operations, scope : S, id : Nat,
   key : Path \cup [group : 0..1, bytes : Nat, fold : Nat, path : Path]]
ASSUME NoneAssumption ==
  /\ None \notin Path /\ None \notin Requests(Path) \cup Requests(Queries)
  /\ None \notin Tokens(Path) \cup Tokens(Queries)

-----------------------------------------------------------------------------
Directories == Path \ db.file
ParentOf(p) == IF p = 0 THEN None ELSE db.parent[p]
ChildrenOf(d) == {p \in 1..N : db.parent[p] = d}
Group(p) == IF p \in db.file THEN 1 ELSE 0

\* The key of a row in the order of its listing: directories first, the
\* largest first, then by folded name and path.
Key(p) == [group |-> Group(p), bytes |-> db.bytes[p], fold |-> db.fold[p],
           path |-> p]
UngroupedKey(p) == [Key(p) EXCEPT !.group = 0]
ChildKey(p) == Key(p)

\* The rows after a key, as the WHERE clauses say it.
SmallerOnly(p, key) == db.bytes[p] < key.bytes
WithinGroup(p, key) ==
  \/ db.bytes[p] < key.bytes
  \/ /\ db.bytes[p] = key.bytes
     /\ \/ db.fold[p] > key.fold
        \/ db.fold[p] = key.fold /\ p > key.path
AfterOrAt(p, key) ==
  Group(p) > key.group \/ WithinGroup(p, key) \/ p = key.path
After(p, key) ==
  \/ Group(p) > key.group
  \/ Group(p) = key.group /\ WithinGroup(p, key)

\* ORDER BY item_kind, allocated_bytes DESC, name_fold, path
Precedes(p, q) ==
  \/ Group(p) < Group(q)
  \/ /\ Group(p) = Group(q)
     /\ \/ db.bytes[p] > db.bytes[q]
        \/ /\ db.bytes[p] = db.bytes[q]
           /\ \/ db.fold[p] < db.fold[q]
              \/ db.fold[p] = db.fold[q] /\ p < q
InOrder(rows) ==
  [i \in 1..Cardinality(rows) |->
     CHOOSE p \in rows : Cardinality({q \in rows : Precedes(q, p)}) = i - 1]

\* _pack: LIMIT max_rows + 1, as many of the first max_rows as the byte budget
\* allows and at least one. last: the row that a token is made of, if any.
Limit(rows, most) == IF Len(rows) > most THEN SubSeq(rows, 1, most) ELSE rows
Pages(rows) ==
  LET raw == Limit(rows, MaxRows + 1)
  IN IF raw = <<>> THEN {[rows |-> raw, last |-> None]}
     ELSE {[rows |-> Limit(raw, k),
            last |-> IF k < Len(raw) THEN raw[k] ELSE None] :
             k \in 1..Len(Limit(raw, MaxRows))}
Answer(page, continuation) ==
  [rows |-> page.rows,
   token |-> IF page.last = None THEN None ELSE continuation]

-----------------------------------------------------------------------------
\* The row of a key must be there: continuation state is in the snapshot.
ChildTokenValid(d, t) ==
  /\ t.op = "children" /\ t.id = id /\ t.scope = d
  /\ \E p \in ChildrenOf(d) : Key(p) = t.key
ChildPages(d, t) ==
  {Answer(page, Token("children", d, ChildKey(page.last))) :
     page \in Pages(InOrder({p \in ChildrenOf(d) :
                              t = None \/ After(p, t.key)}))}

\* children_at looks among the directories only. Its tokens are continued by
\* children, which puts their keys, without a group, into the first one.
SiblingPages(p) ==
  LET d == ParentOf(p) IN
  IF d = None THEN {[rows |-> <<p>>, token |-> None]}
  ELSE {Answer(page, Token("children", d, UngroupedKey(page.last))) :
          page \in Pages(InOrder({q \in ChildrenOf(d) \ db.file :
                                   q = p \/ After(q, Key(p))}))}

Matching(query) == {p \in Directories : db.fold[p] \in query}
SearchTokenValid(query, t) ==
  /\ t.op = "search" /\ t.id = id /\ t.scope = query
  /\ \E p \in Matching(query) : Key(p) = t.key
SearchPages(query, t) ==
  {Answer(page, Token("search", query, Key(page.last))) :
     page \in Pages(InOrder({p \in Matching(query) :
                              t = None \/ After(p, t.key)}))}

\* The chain of a path, from it to the root.
Chain(path) ==
  LET up[k \in 1..(N + 1)] ==
        IF k = 1 THEN <<path>>
        ELSE IF Last(up[k-1]) = 0 THEN up[k-1]
        ELSE Append(up[k-1], ParentOf(Last(up[k-1])))
  IN up[N + 1]

\* An ancestor page names the row that comes next. A page cut by its bytes
\* names the parent of the last row it kept.
NextSkipped(rows) == IF Last(rows) = 0 THEN 0 ELSE ParentOf(ParentOf(Last(rows)))
NextOf(rows) == ParentOf(Last(rows))
AncestorTokenValid(path, t) ==
  /\ t.op = "ancestors" /\ t.id = id /\ t.scope = path
  /\ \E i \in 2..Len(Chain(path)) : Chain(path)[i] = t.key
AncestorPages(path, t) ==
  LET chain == Chain(IF t = None THEN path ELSE t.key)
  IN {[rows |-> Limit(chain, k),
       token |-> IF k < Len(chain)
                 THEN Token("ancestors", path, NextOf(Limit(chain, k)))
                 ELSE None] :
        k \in 1..Len(Limit(Limit(chain, MaxRows), MaxBreadcrumb))}

\* A token is checked before anything else; a wrong one gets no page.
Accepts(op, scope, t) ==
  CASE op = "children" -> ChildTokenValid(scope, t)
    [] op = "search" -> SearchTokenValid(scope, t)
    [] op = "ancestors" -> AncestorTokenValid(scope, t)
Answers(op, scope, t) ==
  CASE op = "children" -> ChildPages(scope, t)
    [] op = "childrenAt" -> SiblingPages(scope)
    [] op = "search" -> SearchPages(scope, t)
    [] op = "ancestors" -> AncestorPages(scope, t)

Scopes(op) == IF op = "search" THEN Queries ELSE Directories

-----------------------------------------------------------------------------
Init ==
  /\ db \in Databases /\ id = 1
  /\ walk = None /\ seen = <<>> /\ token = None

\* The client begins to list something.
First(op, scope) ==
  \E page \in Answers(op, scope, None) :
    /\ walk' = [op |-> op, scope |-> scope, id |-> id]
    /\ seen' = page.rows
    /\ token' = page.token
    /\ UNCHANGED <<db, id>>

\* It presents its token, maybe not where it belongs.
Continue(op, scope) ==
  /\ token # None /\ Accepts(op, scope, token)
  /\ \E page \in Answers(op, scope, token) :
       /\ seen' = seen \o page.rows
       /\ token' = page.token
  /\ UNCHANGED <<db, id, walk>>

\* A rescan replaces the snapshot: one entry has changed its size.
Replace ==
  /\ id <= MaxReplaced
  /\ \E p \in 1..N, bytes \in 0..1 :
       db' = [db EXCEPT !.bytes[p] = bytes]
  /\ Legal(db')
  /\ id' = id + 1
  /\ UNCHANGED <<walk, seen, token>>

Next ==
  \/ \E op \in Operations : \E scope \in Scopes(op) : First(op, scope)
  \/ \E op \in Paged : \E scope \in Scopes(op) : Continue(op, scope)
  \/ Replace
Spec == Init /\ [][Next]_vars

-----------------------------------------------------------------------------
Current == walk # None /\ walk.id = id
Listed == CASE walk.op = "children" -> ChildrenOf(walk.scope)
            [] walk.op = "search" -> Matching(walk.scope)
            [] OTHER -> {}

\* Given so far: every member of the listing once, in its order, and none left
\* out between two of them. Given in the end: all of them.
Follows(members, rows, done) ==
  /\ \A i \in DOMAIN rows : rows[i] \in members
  /\ \A i, j \in DOMAIN rows : i < j => Precedes(rows[i], rows[j])
  /\ \A p \in members \ Range(rows) :
       ~ done /\ \A i \in DOMAIN rows : Precedes(rows[i], p)

\* The pages of a listing, wherever they were cut, are the listing: no entry
\* is missed at the edge of a page or between directories and files, none is
\* given twice, and the pages of two snapshots or listings are never mixed.
PagesAreTheListing ==
  Current /\ walk.op \in {"children", "search"} => Follows(Listed, seen, token = None)

\* Revealing a directory lists it first, and then the directories after it.
RevealListsDirectories ==
  Current /\ walk.op = "childrenAt" /\ walk.scope # 0 =>
    LET from == {p \in ChildrenOf(ParentOf(walk.scope)) :
                   p = walk.scope \/ Precedes(walk.scope, p)}
    IN /\ seen[1] = walk.scope
       /\ Follows(from, seen, FALSE)
       /\ token = None => from \ db.file \subseteq Range(seen)

\* "Directories appear first, followed by files": the listing that reveals a
\* directory goes on to the files beside it, like any other listing. It does
\* not (README, "Divergences without a run"); no run checks this.
RevealListsFiles ==
  Current /\ walk.op = "childrenAt" /\ walk.scope # 0 /\ token = None =>
    ChildrenOf(ParentOf(walk.scope)) \cap db.file \subseteq Range(seen)

\* The pages of an ancestor chain are the chain, up to the root.
PagesAreTheChain ==
  Current /\ walk.op = "ancestors" =>
    /\ IsPrefix(seen, Chain(walk.scope))
    /\ token = None => Last(seen) = 0

\* A listing goes on: of the operations that read a token, the one that a page's
\* token belongs to accepts it as long as the snapshot is active, and no other.
Home == IF walk.op = "childrenAt" THEN <<"children", ParentOf(walk.scope)>>
        ELSE <<walk.op, walk.scope>>
TokensGoOn ==
  walk # None /\ token # None =>
    \A op \in Paged : \A scope \in Scopes(op) :
      Accepts(op, scope, token) <=> Current /\ <<op, scope>> = Home
=============================================================================
