-------------------------- MODULE QueryPagesProofs --------------------------
(***************************************************************************)
(* Proofs about the pages of a snapshot, for every tree, every set of      *)
(* queries, every row limit and every number of replacements.              *)
(***************************************************************************)
EXTENDS QueryPages, Iteration, FiniteSetTheorems, TLAPS

-----------------------------------------------------------------------------
(* The inductive invariant. As long as the snapshot is active, what was    *)
(* given is a beginning of the listing, and the token is the key of its    *)
(* last row or, for ancestors, names the first row that is missing.        *)

Snapshot ==
  /\ db \in Database
  /\ \A p \in 1..N : db.parent[p] < p /\ db.parent[p] \notin db.file
Walking ==
  walk # None =>
    /\ walk.op \in Operations /\ walk.id \in Nat /\ walk.id <= id
    /\ walk.op # "search" => walk.scope \in Directories
    /\ walk.op = "search" => walk.scope \in Queries
Belongs ==
  token # None =>
    /\ walk # None /\ token.id = walk.id
    /\ walk.op = "childrenAt" => walk.scope # 0
    /\ token.op = Home[1] /\ token.scope = Home[2]
PageTyped == Snapshot /\ id \in Nat /\ seen \in Seq(Path) /\ Walking /\ Belongs

NextRow ==
  Current /\ token # None =>
    /\ seen # <<>>
    /\ walk.op # "ancestors" => token.key = Key(Last(seen))
    /\ walk.op = "ancestors" =>
         /\ Len(seen) < Len(Chain(walk.scope))
         /\ token.key = Chain(walk.scope)[Len(seen) + 1]

PageInv ==
  PageTyped /\ NextRow
    /\ PagesAreTheListing /\ RevealListsDirectories /\ PagesAreTheChain

-----------------------------------------------------------------------------
(* The order of a listing.                                                 *)

LEMMA RowsTyped ==
  ASSUME Snapshot, NEW p \in Path
  PROVE  /\ p \in Nat /\ Group(p) \in 0..1 /\ db.bytes[p] \in Nat
         /\ db.fold[p] \in Nat
         /\ p # 0 => db.parent[p] \in Path /\ db.parent[p] < p
         /\ Key(p) \in [group : 0..1, bytes : Nat, fold : Nat, path : Path]
<1>1. db.bytes \in [Path -> Nat] /\ db.fold \in [Path -> Nat] /\ db.parent \in [1..N -> Path]
  BY DEF Snapshot, Database
<1>2. p \in Nat /\ (p # 0 => p \in 1..N)
  BY PathAssumption DEF Path
<1>3. Group(p) \in 0..1
  BY DEF Group
<1> QED
  BY <1>1, <1>2, <1>3 DEF Snapshot, Key

\* Precedes is a strict order in which any two paths are comparable.
LEMMA Ordered ==
  ASSUME Snapshot
  PROVE  /\ \A p \in Path : ~ Precedes(p, p)
         /\ \A p, q, r \in Path : Precedes(p, q) /\ Precedes(q, r) => Precedes(p, r)
         /\ \A p, q \in Path : p = q \/ Precedes(p, q) \/ Precedes(q, p)
<1>1. ASSUME NEW p \in Path PROVE ~ Precedes(p, p)
  BY RowsTyped DEF Precedes
<1>2. ASSUME NEW p \in Path, NEW q \in Path, NEW r \in Path,
             Precedes(p, q), Precedes(q, r)
      PROVE  Precedes(p, r)
  <2>1. /\ Group(p) \in Nat /\ Group(q) \in Nat /\ Group(r) \in Nat
        /\ db.bytes[p] \in Nat /\ db.bytes[q] \in Nat /\ db.bytes[r] \in Nat
        /\ db.fold[p] \in Nat /\ db.fold[q] \in Nat /\ db.fold[r] \in Nat
        /\ p \in Nat /\ q \in Nat /\ r \in Nat
    BY RowsTyped
  <2> QED
    BY <1>2, <2>1 DEF Precedes
<1>3. ASSUME NEW p \in Path, NEW q \in Path
      PROVE  p = q \/ Precedes(p, q) \/ Precedes(q, p)
  <2>1. /\ Group(p) \in Nat /\ Group(q) \in Nat
        /\ db.bytes[p] \in Nat /\ db.bytes[q] \in Nat
        /\ db.fold[p] \in Nat /\ db.fold[q] \in Nat
        /\ p \in Nat /\ q \in Nat
    BY RowsTyped
  <2> QED
    BY <2>1 DEF Precedes
<1> QED
  BY <1>1, <1>2, <1>3

\* The WHERE clauses select the rows that follow the row of the key.
LEMMA AfterKey ==
  ASSUME Snapshot, NEW p \in Path, NEW q \in Path
  PROVE  After(p, Key(q)) <=> Precedes(q, p)
<1>1. /\ Key(q).group = Group(q) /\ Key(q).bytes = db.bytes[q]
      /\ Key(q).fold = db.fold[q] /\ Key(q).path = q
  BY DEF Key
<1>2. /\ Group(p) \in Nat /\ Group(q) \in Nat
      /\ db.bytes[p] \in Nat /\ db.bytes[q] \in Nat
      /\ db.fold[p] \in Nat /\ db.fold[q] \in Nat
      /\ p \in Nat /\ q \in Nat
  BY RowsTyped
<1> QED
  BY <1>1, <1>2 DEF After, WithinGroup, Precedes

\* The paths are finitely many, and so are the rows of a listing.
LEMMA RowsFinite ==
  ASSUME NEW S \in SUBSET Path
  PROVE  IsFiniteSet(S) /\ Cardinality(S) \in Nat
<1>1. IsFiniteSet(Path)
  BY PathAssumption, FS_Interval DEF Path
<1> QED
  BY <1>1, FS_Subset, FS_CardinalityType

Earlier(S, p) == {q \in S : Precedes(q, p)}
Rank(S, p) == Cardinality(Earlier(S, p))

\* The later of two rows has more rows before it, and no row is before all.
LEMMA RankGrows ==
  ASSUME Snapshot, NEW S \in SUBSET Path, NEW p \in S
  PROVE  /\ Rank(S, p) \in 0..(Cardinality(S) - 1)
         /\ \A q \in S : Precedes(p, q) => Rank(S, p) < Rank(S, q)
<1>1. /\ IsFiniteSet(S) /\ Cardinality(S) \in Nat
      /\ \A q \in S : Earlier(S, q) \in SUBSET S /\ IsFiniteSet(Earlier(S, q))
                        /\ Rank(S, q) \in Nat
  <2>1. \A q \in S : Earlier(S, q) \in SUBSET S
    BY DEF Earlier
  <2>2. \A q \in S : Earlier(S, q) \in SUBSET Path
    BY <2>1
  <2> QED
    BY <2>1, <2>2, RowsFinite DEF Rank
<1>2. Earlier(S, p) # S
  BY Ordered DEF Earlier
<1>3. Rank(S, p) <= Cardinality(S) /\ Rank(S, p) # Cardinality(S)
  BY <1>1, <1>2, FS_Subset DEF Rank
<1>4. ASSUME NEW q \in S, Precedes(p, q) PROVE Rank(S, p) < Rank(S, q)
  <2>1. Earlier(S, p) \in SUBSET Earlier(S, q) /\ Earlier(S, p) # Earlier(S, q)
    <3>1. p \in Earlier(S, q) /\ p \notin Earlier(S, p)
      BY <1>4, Ordered DEF Earlier
    <3>2. \A r \in S : Precedes(r, p) => Precedes(r, q)
      BY <1>4, Ordered
    <3> QED
      BY <3>1, <3>2 DEF Earlier
  <2>2. Rank(S, p) <= Rank(S, q) /\ Rank(S, p) # Rank(S, q)
    BY <1>1, <2>1, FS_Subset DEF Rank
  <2> QED
    BY <1>1, <2>2
<1> QED
  <2>1. Rank(S, p) \in Nat
    BY <1>1
  <2> QED
    BY <1>1, <1>3, <1>4, <2>1

\* Every rank up to the number of rows is that of exactly one row.
LEMMA RowOfRank ==
  ASSUME Snapshot, NEW S \in SUBSET Path
  PROVE  /\ \A p, q \in S : Rank(S, p) = Rank(S, q) => p = q
         /\ \A k \in 0..(Cardinality(S) - 1) : \E p \in S : Rank(S, p) = k
<1> DEFINE T == 0..(Cardinality(S) - 1)
           f == [p \in S |-> Rank(S, p)]
<1>1. IsFiniteSet(S) /\ Cardinality(S) \in Nat
  BY RowsFinite
<1>2. f \in [S -> T]
  BY RankGrows
<1>3. ASSUME NEW p \in S, NEW q \in S, Rank(S, p) = Rank(S, q) PROVE p = q
  <2>1. Rank(S, p) \in Nat
    <3>1. Rank(S, p) \in 0..(Cardinality(S) - 1)
      BY RankGrows
    <3> QED
      BY <3>1
  <2>2. ~ Precedes(p, q) /\ ~ Precedes(q, p)
    BY <1>3, <2>1, RankGrows
  <2> QED
    BY <2>2, Ordered
<1>4. f \in Injection(S, T)
  BY <1>2, <1>3 DEF Injection, IsInjective
<1>5. IsFiniteSet(T) /\ Cardinality(T) = Cardinality(S)
  <2>1. 0 \in Int /\ Cardinality(S) - 1 \in Int
    BY <1>1
  <2>2. IsFiniteSet(T) /\ Cardinality(T) = IF 0 > Cardinality(S) - 1 THEN 0
                                           ELSE (Cardinality(S) - 1) - 0 + 1
    BY <2>1, FS_Interval
  <2> QED
    BY <1>1, <2>2
<1>6. f \in Surjection(S, T)
  <2> HIDE DEF f, T
  <2> QED
    BY <1>4, <1>5, FS_Injection
<1> QED
  BY <1>3, <1>6 DEF Surjection

\* InOrder lists every row once, in its order.
LEMMA Enumerated ==
  ASSUME Snapshot, NEW S \in SUBSET Path
  PROVE  LET rows == InOrder(S)
         IN /\ rows \in Seq(Path) /\ Len(rows) = Cardinality(S)
            /\ \A i \in 1..Len(rows) : rows[i] \in S
            /\ \A i, j \in 1..Len(rows) : i < j => Precedes(rows[i], rows[j])
            /\ \A p \in S : \E i \in 1..Len(rows) : rows[i] = p
<1> DEFINE rows == InOrder(S)
           n == Cardinality(S)
<1>1. n \in Nat
  BY RowsFinite
<1>2. rows = [i \in 1..n |-> CHOOSE p \in S : Rank(S, p) = i - 1]
  BY DEF InOrder, Rank, Earlier
<1>3. ASSUME NEW i \in 1..n
      PROVE  rows[i] \in S /\ Rank(S, rows[i]) = i - 1
  <2>1. i - 1 \in 0..(n - 1)
    BY <1>1
  <2>2. \E p \in S : Rank(S, p) = i - 1
    BY <2>1, RowOfRank
  <2> QED
    BY <1>2, <2>2
<1>4. rows \in Seq(Path) /\ Len(rows) = n
  <2>1. \A i \in 1..n : rows[i] \in Path
    BY <1>3
  <2> HIDE DEF n
  <2>2. rows = [i \in 1..n |-> rows[i]]
    BY <1>2
  <2> HIDE DEF rows
  <2>3. rows \in [1..n -> Path]
    BY <2>1, <2>2
  <2> QED
    BY <1>1, <2>3
<1>5. ASSUME NEW i \in 1..n, NEW j \in 1..n, i < j
      PROVE  Precedes(rows[i], rows[j])
  <2>1. rows[i] # rows[j] /\ ~ Precedes(rows[j], rows[i])
    <3>1. Rank(S, rows[i]) < Rank(S, rows[j])
      BY <1>1, <1>3, <1>5
    <3>2. Rank(S, rows[i]) \in Int /\ Rank(S, rows[j]) \in Int
      BY <1>1, <1>3
    <3>3. Precedes(rows[j], rows[i]) => Rank(S, rows[j]) < Rank(S, rows[i])
      BY <1>3, RankGrows
    <3> QED
      BY <3>1, <3>2, <3>3
  <2> QED
    BY <1>3, <2>1, Ordered
<1>6. ASSUME NEW p \in S PROVE \E i \in 1..n : rows[i] = p
  <2>1. Rank(S, p) \in 0..(n - 1)
    BY RankGrows
  <2>2. PICK i \in 1..n : i - 1 = Rank(S, p)
    <3>1. Rank(S, p) + 1 \in 1..n /\ (Rank(S, p) + 1) - 1 = Rank(S, p)
      BY <1>1, <2>1
    <3> QED
      BY <3>1
  <2>3. rows[i] = p
    BY <1>3, <2>2, RowOfRank
  <2> QED
    BY <2>3
<1> HIDE DEF n, rows
<1> QED
  BY <1>3, <1>4, <1>5, <1>6 DEF n, rows
-----------------------------------------------------------------------------
(* The pages of a listing.                                                 *)

\* LIMIT keeps the first rows.
LEMMA Limited ==
  ASSUME NEW rows \in Seq(Path), NEW most \in Nat
  PROVE  /\ Limit(rows, most) \in Seq(Path)
         /\ Len(Limit(rows, most)) = IF Len(rows) > most THEN most ELSE Len(rows)
         /\ \A i \in 1..Len(Limit(rows, most)) : Limit(rows, most)[i] = rows[i]
<1>1. CASE Len(rows) > most
  <2>1. /\ SubSeq(rows, 1, most) \in Seq(Path) /\ Len(SubSeq(rows, 1, most)) = most
        /\ \A i \in 1..most : SubSeq(rows, 1, most)[i] = rows[i]
    BY <1>1
  <2> QED
    BY <1>1, <2>1 DEF Limit
<1>2. CASE ~ (Len(rows) > most)
  BY <1>2 DEF Limit
<1> QED
  BY <1>1, <1>2

\* A page is a beginning of the rows and says whether it is all of them.
LEMMA PageBegins ==
  ASSUME NEW rows \in Seq(Path), NEW page \in Pages(rows)
  PROVE  /\ page.rows \in Seq(Path) /\ Len(page.rows) <= Len(rows)
         /\ \A i \in 1..Len(page.rows) : page.rows[i] = rows[i]
         /\ page.last = None => Len(page.rows) = Len(rows)
         /\ page.last # None => page.rows # <<>> /\ page.last = Last(page.rows)
         /\ rows # <<>> => page.rows # <<>>
<1> DEFINE raw == Limit(rows, MaxRows + 1)
           m == Len(Limit(raw, MaxRows))
<1>1. /\ MaxRows \in Nat /\ MaxRows + 1 \in Nat /\ MaxRows > 0 /\ Len(rows) \in Nat
  BY PageAssumption
<1>2. /\ raw \in Seq(Path)
      /\ Len(raw) = IF Len(rows) > MaxRows + 1 THEN MaxRows + 1 ELSE Len(rows)
      /\ \A i \in 1..Len(raw) : raw[i] = rows[i]
  BY <1>1, Limited
<1> HIDE DEF raw
<1>3. m = IF Len(raw) > MaxRows THEN MaxRows ELSE Len(raw)
  BY <1>1, <1>2, Limited
<1> HIDE DEF m
<1>4. CASE raw = <<>>
  <2>1. page = [rows |-> raw, last |-> None]
    BY <1>4 DEF Pages, raw
  <2>2. Len(raw) = 0 /\ Len(rows) = 0
    BY <1>1, <1>2, <1>4
  <2>3. rows = <<>>
    BY <2>2
  <2> QED
    BY <1>2, <2>1, <2>2, <2>3
<1>5. CASE raw # <<>>
  <2>1. PICK k \in 1..m : page = [rows |-> Limit(raw, k),
                                  last |-> IF k < Len(raw) THEN raw[k] ELSE None]
    BY <1>5 DEF Pages, raw, m
  <2>2. page.rows = Limit(raw, k) /\ page.last = IF k < Len(raw) THEN raw[k] ELSE None
    BY <2>1
  <2>3. /\ Len(raw) \in Nat /\ m \in Nat /\ m <= Len(raw) /\ m <= MaxRows
        /\ k \in Nat /\ 1 <= k /\ k <= m /\ k <= Len(raw) /\ k <= MaxRows
        /\ Len(raw) <= Len(rows)
    <3>1. Len(raw) \in Nat
      BY <1>2
    <3>2. m \in Nat /\ m <= Len(raw) /\ m <= MaxRows
      BY <1>1, <1>3, <3>1
    <3>3. Len(raw) <= Len(rows)
      BY <1>1, <1>2
    <3>4. k \in Nat /\ 1 <= k /\ k <= m
      BY <3>2
    <3>5. k <= Len(raw) /\ k <= MaxRows
      BY <1>1, <3>1, <3>2, <3>4
    <3> QED
      BY <3>1, <3>2, <3>3, <3>4, <3>5
  <2>4. /\ Limit(raw, k) \in Seq(Path) /\ Len(Limit(raw, k)) = k
        /\ \A i \in 1..k : Limit(raw, k)[i] = raw[i]
    <3>1. Len(Limit(raw, k)) = IF Len(raw) > k THEN k ELSE Len(raw)
      BY <1>2, <2>3, Limited
    <3>2. Len(Limit(raw, k)) = k
      BY <2>3, <3>1
    <3> QED
      BY <1>2, <2>3, <3>2, Limited
  <2>5. ASSUME NEW i \in 1..k PROVE Limit(raw, k)[i] = rows[i]
    <3>1. i \in 1..Len(raw)
      BY <2>3
    <3> QED
      BY <1>2, <2>4, <3>1
  <2>6. k < Len(raw) => raw[k] # None /\ raw[k] = Last(Limit(raw, k))
    <3>1. k \in 1..Len(raw) /\ k \in 1..k
      BY <2>3
    <3>2. raw[k] \in Path
      BY <1>2, <3>1
    <3> QED
      BY <2>4, <3>1, <3>2, NoneAssumption DEF Last
  <2>7. page.last = None => k = Len(rows)
    <3>1. page.last = None => k >= Len(raw)
      BY <2>2, <2>3, <2>6
    <3>2. Len(raw) = IF Len(rows) > MaxRows + 1 THEN MaxRows + 1 ELSE Len(rows)
      BY <1>2
    <3>3. k <= MaxRows /\ k <= Len(raw) /\ k \in Nat /\ Len(raw) \in Nat
      BY <2>3
    <3> QED
      BY <1>1, <3>1, <3>2, <3>3
  <2>8. Limit(raw, k) # <<>>
    BY <2>3, <2>4
  <2> QED
    BY <2>2, <2>3, <2>4, <2>5, <2>6, <2>7, <2>8
<1> QED
  BY <1>4, <1>5

\* The first page of a listing.
LEMMA PageFollows ==
  ASSUME Snapshot, NEW S \in SUBSET Path, NEW page \in Pages(InOrder(S))
  PROVE  /\ page.rows \in Seq(Path)
         /\ Follows(S, page.rows, page.last = None)
         /\ page.last # None => page.rows # <<>> /\ page.last = Last(page.rows)
         /\ S # {} => page.rows # <<>>
<1> DEFINE rows == InOrder(S)
           first == page.rows
<1>1. /\ rows \in Seq(Path)
      /\ \A i \in 1..Len(rows) : rows[i] \in S
      /\ \A i, j \in 1..Len(rows) : i < j => Precedes(rows[i], rows[j])
      /\ \A p \in S : \E i \in 1..Len(rows) : rows[i] = p
  BY Enumerated
<1>2. /\ first \in Seq(Path) /\ Len(first) <= Len(rows)
      /\ \A i \in 1..Len(first) : first[i] = rows[i]
      /\ page.last = None => Len(first) = Len(rows)
      /\ page.last # None => first # <<>> /\ page.last = Last(first)
      /\ rows # <<>> => first # <<>>
  BY <1>1, PageBegins
<1> HIDE DEF rows, first
<1>3. Len(rows) \in Nat /\ Len(first) \in Nat /\ DOMAIN first = 1..Len(first)
  BY <1>1, <1>2
<1>4. \A i \in 1..Len(first) : i \in 1..Len(rows)
  BY <1>2, <1>3
<1>5. ASSUME NEW p \in S \ Range(first)
      PROVE  page.last # None /\ \A i \in DOMAIN first : Precedes(first[i], p)
  <2>1. PICK j \in 1..Len(rows) : rows[j] = p
    BY <1>1
  <2>2. j \notin 1..Len(first)
    BY <1>2, <1>3, <1>5, <2>1 DEF Range
  <2>3. \A i \in 1..Len(first) : i < j
    BY <1>3, <2>2
  <2>4. Len(first) # Len(rows)
    BY <2>1, <2>2
  <2> QED
    BY <1>1, <1>2, <1>3, <1>4, <2>1, <2>3, <2>4
<1>6. Follows(S, first, page.last = None)
  <2>1. \A i \in DOMAIN first : first[i] \in S
    BY <1>1, <1>2, <1>3, <1>4
  <2>2. \A i, j \in DOMAIN first : i < j => Precedes(first[i], first[j])
    BY <1>1, <1>2, <1>3, <1>4
  <2> QED
    BY <1>5, <2>1, <2>2 DEF Follows
<1>7. S # {} => first # <<>>
  <2>1. S # {} => rows # <<>>
    BY <1>1
  <2> QED
    BY <1>2, <2>1
<1> QED
  BY <1>2, <1>6, <1>7 DEF first

\* What is left of a listing is what follows its last row.
LEMMA RestFollows ==
  ASSUME Snapshot, NEW S \in SUBSET Path, NEW rows \in Seq(Path), rows # <<>>,
         Follows(S, rows, FALSE)
  PROVE  /\ Last(rows) \in S /\ Last(rows) \in Path
         /\ {p \in S : Precedes(Last(rows), p)} = S \ Range(rows)
<1> DEFINE n == Len(rows)
<1>1. n \in Nat /\ n \in 1..n /\ DOMAIN rows = 1..n /\ \A i \in 1..n : i = n \/ i < n
  BY DEF n
<1> HIDE DEF n
<1>2. rows[n] \in S /\ Last(rows) = rows[n]
  BY <1>1 DEF Follows, Last, n
<1>3. ASSUME NEW p \in S PROVE Precedes(rows[n], p) <=> p \notin Range(rows)
  <2>1. ASSUME p \notin Range(rows) PROVE Precedes(rows[n], p)
    BY <1>1, <2>1 DEF Follows
  <2>2. ASSUME p \in Range(rows) PROVE ~ Precedes(rows[n], p)
    <3>1. PICK i \in 1..n : p = rows[i]
      BY <1>1, <2>2 DEF Range
    <3>2. p = rows[n] \/ Precedes(p, rows[n])
      BY <1>1, <3>1 DEF Follows
    <3> QED
      BY <1>2, <3>2, Ordered
  <2> QED
    BY <2>1, <2>2
<1> QED
  BY <1>2, <1>3

\* A page of what is left continues the listing.
LEMMA PageContinues ==
  ASSUME Snapshot, NEW S \in SUBSET Path, NEW rows \in Seq(Path), NEW more \in Seq(Path),
         NEW done \in BOOLEAN, Follows(S, rows, FALSE), Follows(S \ Range(rows), more, done)
  PROVE  /\ rows \o more \in Seq(Path) /\ Follows(S, rows \o more, done)
         /\ Range(rows \o more) = Range(rows) \cup Range(more)
         /\ more # <<>> => Last(rows \o more) = Last(more)
         /\ rows # <<>> => rows \o more # <<>> /\ (rows \o more)[1] = rows[1]
<1> DEFINE n == Len(rows)
           m == Len(more)
           all == rows \o more
<1>1. /\ n \in Nat /\ m \in Nat /\ DOMAIN rows = 1..n /\ DOMAIN more = 1..m
      /\ all \in Seq(Path) /\ Len(all) = n + m /\ DOMAIN all = 1..(n + m)
      /\ \A i \in 1..n : all[i] = rows[i]
      /\ \A i \in 1..m : all[n + i] = more[i]
  OBVIOUS
<1>2. (more # <<>> => m > 0) /\ (rows # <<>> => n > 0)
  OBVIOUS
<1>3. Last(more) = more[m] /\ Last(all) = all[n + m]
  BY <1>1 DEF Last
<1> HIDE DEF n, m, all
<1>4. ASSUME NEW i \in 1..(n + m), i \notin 1..n
      PROVE  \E k \in 1..m : i = n + k /\ all[i] = more[k]
  <2>1. i - n \in 1..m /\ i = n + (i - n)
    BY <1>1, <1>4
  <2> QED
    BY <1>1, <2>1
<1>5. Range(all) = Range(rows) \cup Range(more)
  <2>1. ASSUME NEW p \in Range(all) PROVE p \in Range(rows) \cup Range(more)
    <3>1. PICK i \in 1..(n + m) : p = all[i]
      BY <1>1, <2>1 DEF Range
    <3> QED
      BY <1>1, <1>4, <3>1 DEF Range
  <2>2. ASSUME NEW p \in Range(rows) PROVE p \in Range(all)
    <3>1. PICK i \in 1..n : p = rows[i]
      BY <1>1, <2>2 DEF Range
    <3>2. i \in 1..(n + m)
      BY <1>1
    <3> QED
      BY <1>1, <3>1, <3>2 DEF Range
  <2>3. ASSUME NEW p \in Range(more) PROVE p \in Range(all)
    <3>1. PICK i \in 1..m : p = more[i]
      BY <1>1, <2>3 DEF Range
    <3>2. n + i \in 1..(n + m)
      BY <1>1
    <3> QED
      BY <1>1, <3>1, <3>2 DEF Range
  <2> QED
    BY <2>1, <2>2, <2>3
<1>6. Follows(S, all, done)
  <2>1. ASSUME NEW i \in 1..(n + m) PROVE all[i] \in S
    <3>1. CASE i \in 1..n
      BY <1>1, <3>1 DEF Follows
    <3>2. CASE i \notin 1..n
      BY <1>1, <1>4, <3>2 DEF Follows
    <3> QED
      BY <3>1, <3>2
  <2>2. ASSUME NEW i \in 1..(n + m), NEW j \in 1..(n + m), i < j
        PROVE  Precedes(all[i], all[j])
    <3>1. CASE j \in 1..n
      <4>1. i \in 1..n
        BY <1>1, <2>2, <3>1
      <4> QED
        BY <1>1, <2>2, <3>1, <4>1 DEF Follows
    <3>2. CASE i \in 1..n /\ j \notin 1..n
      <4>1. PICK k \in 1..m : j = n + k /\ all[j] = more[k]
        BY <1>4, <3>2
      <4>2. more[k] \in S \ Range(rows)
        BY <1>1 DEF Follows
      <4>3. Precedes(rows[i], more[k])
        BY <1>1, <3>2, <4>2 DEF Follows
      <4> QED
        BY <1>1, <3>2, <4>1, <4>3
    <3>3. CASE i \notin 1..n /\ j \notin 1..n
      <4>1. PICK k \in 1..m : i = n + k /\ all[i] = more[k]
        BY <1>4, <3>3
      <4>2. PICK l \in 1..m : j = n + l /\ all[j] = more[l]
        BY <1>4, <3>3
      <4>3. k < l
        BY <1>1, <2>2, <4>1, <4>2
      <4>4. Precedes(more[k], more[l])
        BY <1>1, <4>3 DEF Follows
      <4> QED
        BY <4>1, <4>2, <4>4
    <3> QED
      BY <3>1, <3>2, <3>3
  <2>3. ASSUME NEW p \in S \ Range(all)
        PROVE  ~ done /\ \A i \in 1..(n + m) : Precedes(all[i], p)
    <3>1. p \in S \ Range(rows) /\ p \in (S \ Range(rows)) \ Range(more)
      BY <1>5
    <3>2. ~ done /\ \A i \in 1..m : Precedes(more[i], p)
      BY <1>1, <3>1 DEF Follows
    <3>3. \A i \in 1..n : Precedes(rows[i], p)
      BY <1>1, <3>1 DEF Follows
    <3>4. ASSUME NEW i \in 1..(n + m) PROVE Precedes(all[i], p)
      <4>1. CASE i \in 1..n
        BY <1>1, <3>3, <4>1
      <4>2. CASE i \notin 1..n
        BY <1>4, <3>2, <4>2
      <4> QED
        BY <4>1, <4>2
    <3> QED
      BY <3>2, <3>4
  <2> QED
    BY <1>1, <2>1, <2>2, <2>3 DEF Follows
<1>7. more # <<>> => all[n + m] = more[m]
  <2>1. more # <<>> => m \in 1..m
    BY <1>1, <1>2
  <2> QED
    BY <1>1, <2>1
<1>8. rows # <<>> => all # <<>> /\ all[1] = rows[1]
  <2>1. rows # <<>> => 1 \in 1..n /\ Len(all) > 0
    BY <1>1, <1>2
  <2>2. Len(all) > 0 => all # <<>>
    OBVIOUS
  <2> QED
    BY <1>1, <2>1, <2>2
<1> QED
  BY <1>1, <1>3, <1>5, <1>6, <1>7, <1>8 DEF all
-----------------------------------------------------------------------------
(* The chain of ancestors.                                                 *)

\* From a path up to the root, which is met at the end and only there.
Climbs(rows) ==
  /\ rows \in Seq(Path) /\ rows # <<>>
  /\ \A i \in 1..Len(rows) : rows[i] = 0 <=> i = Len(rows)
  /\ \A i \in 1..(Len(rows) - 1) : rows[i + 1] = db.parent[rows[i]]

\* What Chain computes step by step.
LEMMA ChainSteps ==
  ASSUME Snapshot, NEW path \in Path
  PROVE  \E up \in [1..(N + 1) -> Seq(Path)] :
           /\ up[1] = <<path>> /\ Chain(path) = up[N + 1]
           /\ \A k \in 1..N : up[k + 1] = IF Last(up[k]) = 0 THEN up[k]
                                ELSE Append(up[k], ParentOf(Last(up[k])))
<1> DEFINE D == Seq(Path) \ {<<>>}
           F == [s \in D |-> IF Last(s) = 0 THEN s ELSE Append(s, ParentOf(Last(s)))]
           Rec(g) == [k \in 1..(N + 1) |->
             IF k = 1 THEN <<path>>
             ELSE IF Last(g[k-1]) = 0 THEN g[k-1]
             ELSE Append(g[k-1], ParentOf(Last(g[k-1])))]
           up == CHOOSE g : g = Rec(g)
           x == <<path>>
<1>1. N \in Nat
  BY PathAssumption
<1>2. x \in D
  OBVIOUS
<1>3. F \in [D -> D]
  <2>1. ASSUME NEW s \in D, Last(s) # 0 PROVE Append(s, ParentOf(Last(s))) \in D
    <3>1. Len(s) \in 1..Len(s)
      OBVIOUS
    <3>2. Last(s) \in Path
      BY <3>1 DEF Last
    <3>3. ParentOf(Last(s)) \in Path
      BY <2>1, <3>2, RowsTyped DEF ParentOf
    <3> HIDE DEF x, F, Rec, up
    <3> QED
      BY <3>3
  <2> QED
    BY <2>1
<1>4. PICK f \in [0..N -> D] : f[0] = x /\ \A k \in 1..N : f[k] = F[f[k - 1]]
  <2> HIDE DEF D, F, x
  <2>1. Iterates(D, x, F, N) # {}
    BY <1>1, <1>2, <1>3, Iterated
  <2> QED
    BY <2>1 DEF Iterates
<1>5. \E g : g = Rec(g)
  <2> DEFINE g == [k \in 1..(N + 1) |-> f[k - 1]]
  <2>1. ASSUME NEW k \in 1..(N + 1), k # 1
        PROVE  g[k] = IF Last(g[k-1]) = 0 THEN g[k-1]
                      ELSE Append(g[k-1], ParentOf(Last(g[k-1])))
    <3>1. k - 1 \in 1..N /\ k - 1 \in 1..(N + 1) /\ (k - 1) - 1 \in 0..N /\ k - 1 \in 0..N
      BY <1>1, <2>1
    <3>2. g[k] = F[f[(k - 1) - 1]] /\ g[k - 1] = f[(k - 1) - 1] /\ f[(k - 1) - 1] \in D
      BY <1>4, <3>1
    <3> HIDE DEF D, g
    <3> QED
      BY <3>2
  <2>2. 1 \in 1..(N + 1) => g[1] = <<path>>
    BY <1>4
  <2>3. g = [k \in 1..(N + 1) |-> g[k]]
    OBVIOUS
  <2> HIDE DEF g, D, F
  <2>4. g = Rec(g)
    BY <2>1, <2>2, <2>3
  <2> QED
    BY <2>4
<1>6. up = Rec(up)
  BY <1>5
<1>7. Chain(path) = up[N + 1]
  BY DEF Chain
<1> HIDE DEF up
<1>8. /\ up[1] = <<path>>
      /\ \A k \in 1..N : up[k + 1] = IF Last(up[k]) = 0 THEN up[k]
                           ELSE Append(up[k], ParentOf(Last(up[k])))
  <2>1. 1 \in 1..(N + 1)
    BY <1>1
  <2>2. up[1] = <<path>>
    BY <1>6, <2>1
  <2>3. ASSUME NEW k \in 1..N
        PROVE  up[k + 1] = IF Last(up[k]) = 0 THEN up[k]
                           ELSE Append(up[k], ParentOf(Last(up[k])))
    <3>1. k + 1 \in 1..(N + 1) /\ k + 1 # 1 /\ (k + 1) - 1 = k
      BY <1>1
    <3>2. up[k + 1] = IF Last(up[(k + 1) - 1]) = 0 THEN up[(k + 1) - 1]
                      ELSE Append(up[(k + 1) - 1], ParentOf(Last(up[(k + 1) - 1])))
      BY <1>6, <3>1
    <3> QED
      BY <3>1, <3>2
  <2> QED
    BY <2>2, <2>3
<1>9. \A k \in 1..(N + 1) : up[k] \in D
  <2> DEFINE S == {k \in Nat : k <= N => up[k + 1] \in D}
  <2>1. 0 \in S
    <3>1. up[0 + 1] = x
      BY <1>8
    <3> HIDE DEF x, D
    <3> QED
      BY <1>2, <3>1
  <2>2. ASSUME NEW k \in Nat, k \in S PROVE k + 1 \in S
    <3>1. ASSUME k + 1 <= N PROVE up[(k + 1) + 1] \in D
      <4>1. k + 1 \in 1..N /\ up[k + 1] \in D
        BY <1>1, <2>2, <3>1
      <4>2. up[(k + 1) + 1] = F[up[k + 1]]
        <5>1. up[(k + 1) + 1] = IF Last(up[k + 1]) = 0 THEN up[k + 1]
                                ELSE Append(up[k + 1], ParentOf(Last(up[k + 1])))
          BY <1>8, <4>1
        <5> HIDE DEF D
        <5> QED
          BY <4>1, <5>1
      <4> HIDE DEF D, F
      <4> QED
        BY <1>3, <4>1, <4>2
    <3> QED
      BY <3>1
  <2> HIDE DEF S
  <2>3. Nat \subseteq S
    BY <2>1, <2>2, Induction
  <2>4. ASSUME NEW k \in 1..(N + 1) PROVE up[k] \in D
    <3>1. k - 1 \in Nat /\ k - 1 <= N /\ (k - 1) + 1 = k
      BY <1>1
    <3>2. k - 1 \in S
      BY <2>3, <3>1
    <3>3. up[(k - 1) + 1] \in D
      BY <3>1, <3>2 DEF S
    <3> QED
      BY <3>1, <3>3
  <2> QED
    BY <2>4
<1>10. up \in [1..(N + 1) -> Seq(Path)]
  BY <1>6, <1>9
<1> QED
  BY <1>7, <1>8, <1>10

\* A chain climbs from its path to the root: each step up leads to a path that
\* is smaller, so after N steps it has arrived.
LEMMA ChainClimbs ==
  ASSUME Snapshot, NEW path \in Path
  PROVE  Climbs(Chain(path)) /\ Chain(path)[1] = path
<1>1. N \in Nat
  BY PathAssumption
<1>2. PICK up \in [1..(N + 1) -> Seq(Path)] :
        /\ up[1] = <<path>> /\ Chain(path) = up[N + 1]
        /\ \A k \in 1..N : up[k + 1] = IF Last(up[k]) = 0 THEN up[k]
                             ELSE Append(up[k], ParentOf(Last(up[k])))
  BY ChainSteps
<1> DEFINE Up(s) ==
      /\ s # <<>> /\ s[1] = path
      /\ \A i \in 1..(Len(s) - 1) : s[i] # 0 /\ s[i + 1] = db.parent[s[i]]
<1>3. ASSUME NEW s \in Seq(Path), Up(s), Last(s) # 0
      PROVE  LET t == Append(s, ParentOf(Last(s)))
             IN Up(t) /\ Last(t) < Last(s)
  <2> DEFINE n == Len(s)
             t == Append(s, ParentOf(Last(s)))
  <2>1. n \in Nat /\ n > 0 /\ n \in 1..n
    BY <1>3
  <2>2. Last(s) = s[n] /\ s[n] \in Path
    BY <2>1 DEF Last
  <2>3. ParentOf(Last(s)) = db.parent[s[n]] /\ db.parent[s[n]] \in Path /\ db.parent[s[n]] < s[n]
    BY <1>3, <2>2, RowsTyped DEF ParentOf
  <2>4. /\ t \in Seq(Path) /\ Len(t) = n + 1 /\ t[n + 1] = db.parent[s[n]]
        /\ \A i \in 1..n : t[i] = s[i]
    BY <2>3
  <2> HIDE DEF t, n
  <2>5. t # <<>> /\ t[1] = path
    <3>1. 1 \in 1..n
      BY <2>1
    <3>2. t[1] = path
      BY <1>3, <2>4, <3>1
    <3>3. Len(t) # 0
      BY <2>1, <2>4
    <3> QED
      BY <3>2, <3>3
  <2>6. ASSUME NEW i \in 1..(Len(t) - 1) PROVE t[i] # 0 /\ t[i + 1] = db.parent[t[i]]
    <3>1. i \in 1..n
      BY <2>1, <2>4
    <3>2. CASE i = n
      BY <1>3, <2>2, <2>4, <3>1, <3>2
    <3>3. CASE i # n
      <4>1. i \in 1..(n - 1) /\ i + 1 \in 1..n
        BY <2>1, <3>1, <3>3
      <4>2. s[i] # 0 /\ s[i + 1] = db.parent[s[i]]
        BY <1>3, <4>1 DEF n
      <4> QED
        BY <2>4, <3>1, <4>1, <4>2
    <3> QED
      BY <3>2, <3>3
  <2>7. Last(t) < Last(s)
    BY <2>2, <2>3, <2>4 DEF Last
  <2> QED
    BY <2>5, <2>6, <2>7 DEF t
<1>4. ASSUME NEW s \in Seq(Path), s # <<>> PROVE Last(s) \in Path /\ Last(s) \in Nat
  <2>1. Len(s) \in 1..Len(s)
    BY <1>4
  <2>2. s[Len(s)] \in Path
    BY <2>1
  <2> QED
    BY <2>2, RowsTyped DEF Last
<1> DEFINE S == {k \in Nat : k <= N => Up(up[k + 1]) /\ Last(up[k + 1]) <= N - k}
<1>5. 0 \in S
  <2>1. up[0 + 1] = <<path>> /\ Last(<<path>>) = path /\ path <= N
    BY <1>1, <1>2 DEF Last, Path
  <2>2. Up(<<path>>)
    OBVIOUS
  <2> HIDE DEF Up
  <2> QED
    BY <1>1, <2>1, <2>2
<1>6. ASSUME NEW k \in Nat, k \in S PROVE k + 1 \in S
  <2>1. ASSUME k + 1 <= N
        PROVE  Up(up[(k + 1) + 1]) /\ Last(up[(k + 1) + 1]) <= N - (k + 1)
    <3> DEFINE s == up[k + 1]
               t == Append(s, ParentOf(Last(s)))
               u == up[(k + 1) + 1]
    <3>1. k + 1 \in 1..N /\ k + 1 \in 1..(N + 1) /\ (k + 1) + 1 \in 1..(N + 1)
      BY <1>1, <2>1
    <3>2. s \in Seq(Path) /\ u \in Seq(Path) /\ u = IF Last(s) = 0 THEN s ELSE t
      BY <1>2, <3>1
    <3>3. Up(s) /\ Last(s) <= N - k /\ s # <<>> /\ (Up(u) => u # <<>>)
      BY <1>1, <1>6, <2>1
    <3>4. Last(s) \in Nat
      BY <1>4, <3>2, <3>3
    <3> HIDE DEF s, t, u
    <3>5. CASE Last(s) = 0
      <4>1. u = s /\ 0 <= N - (k + 1)
        BY <1>1, <2>1, <3>2, <3>5
      <4> HIDE DEF Up
      <4> QED
        BY <3>3, <3>5, <4>1 DEF u
    <3>6. CASE Last(s) # 0
      <4>1. Up(t) /\ Last(t) < Last(s) /\ u = t
        <5> HIDE DEF Up
        <5> QED
          BY <1>3, <3>2, <3>3, <3>6 DEF t
      <4>2. Last(u) \in Nat
        BY <1>4, <3>2, <3>3, <4>1
      <4>3. Last(u) <= N - (k + 1)
        <5> HIDE DEF Up
        <5> QED
          BY <1>1, <3>3, <3>4, <4>1, <4>2
      <4> HIDE DEF Up
      <4> QED
        BY <4>1, <4>3 DEF u
    <3> QED
      BY <3>5, <3>6
  <2> HIDE DEF Up
  <2> QED
    BY <2>1
<1> HIDE DEF S
<1>7. N \in S
  <2>1. Nat \subseteq S
    BY <1>5, <1>6, Induction
  <2> QED
    BY <1>1, <2>1
<1> DEFINE c == Chain(path)
<1>8. Up(c) /\ Last(c) <= 0 /\ c \in Seq(Path)
  <2>1. Up(up[N + 1]) /\ Last(up[N + 1]) <= N - N
    <3> HIDE DEF Up
    <3> QED
      BY <1>1, <1>7 DEF S
  <2>2. up[N + 1] \in Seq(Path)
    BY <1>1, <1>2
  <2> HIDE DEF Up
  <2> QED
    BY <1>1, <1>2, <2>1, <2>2
<1> HIDE DEF c
<1>9. Last(c) = 0 /\ Len(c) \in Nat /\ Len(c) \in 1..Len(c)
  <2>1. Last(c) \in Nat
    BY <1>4, <1>8
  <2> QED
    BY <1>8, <2>1
<1>10. ASSUME NEW i \in 1..Len(c) PROVE c[i] = 0 <=> i = Len(c)
  <2>1. i # Len(c) => i \in 1..(Len(c) - 1)
    BY <1>9
  <2> QED
    BY <1>8, <1>9, <2>1 DEF Last
<1> QED
  BY <1>8, <1>10 DEF Climbs, c

\* There is one way up.
LEMMA OneWayUp ==
  ASSUME NEW s, NEW t, Climbs(s), Climbs(t), s[1] = t[1]
  PROVE  s = t
<1> DEFINE n == Len(s)
           m == Len(t)
           S == {k \in Nat : k + 1 <= n /\ k + 1 <= m => s[k + 1] = t[k + 1]}
<1>1. /\ s \in Seq(Path) /\ t \in Seq(Path) /\ n \in Nat /\ m \in Nat
      /\ n > 0 /\ m > 0
      /\ \A i \in 1..n : s[i] = 0 <=> i = n
      /\ \A i \in 1..m : t[i] = 0 <=> i = m
      /\ \A i \in 1..(n - 1) : s[i + 1] = db.parent[s[i]]
      /\ \A i \in 1..(m - 1) : t[i + 1] = db.parent[t[i]]
  BY DEF Climbs
<1> HIDE DEF n, m
<1>2. 0 \in S
  OBVIOUS
<1>3. ASSUME NEW k \in Nat, k \in S PROVE k + 1 \in S
  <2>1. ASSUME (k + 1) + 1 <= n, (k + 1) + 1 <= m
        PROVE  s[(k + 1) + 1] = t[(k + 1) + 1]
    <3>1. k + 1 \in 1..(n - 1) /\ k + 1 \in 1..(m - 1) /\ k + 1 <= n /\ k + 1 <= m
      BY <1>1, <2>1
    <3>2. s[k + 1] = t[k + 1]
      BY <1>3, <3>1
    <3> QED
      BY <1>1, <3>1, <3>2
  <2> QED
    BY <2>1
<1>4. \A i \in Nat : 1 <= i /\ i <= n /\ i <= m => s[i] = t[i]
  <2> HIDE DEF S
  <2>1. Nat \subseteq S
    BY <1>2, <1>3, Induction
  <2>2. ASSUME NEW i \in Nat, 1 <= i, i <= n, i <= m PROVE s[i] = t[i]
    <3>1. i - 1 \in Nat /\ (i - 1) + 1 = i
      BY <2>2
    <3>2. i - 1 \in S
      BY <2>1, <3>1
    <3> QED
      BY <2>2, <3>1, <3>2 DEF S
  <2> QED
    BY <2>2
<1>5. n = m
  <2>1. ~ (n < m)
    <3>1. ASSUME n < m PROVE FALSE
      <4>1. n \in 1..n /\ n \in 1..m /\ n # m
        BY <1>1, <3>1
      <4>2. s[n] = t[n]
        BY <1>1, <1>4, <4>1
      <4> QED
        BY <1>1, <4>1, <4>2
    <3> QED
      BY <3>1
  <2>2. ~ (m < n)
    <3>1. ASSUME m < n PROVE FALSE
      <4>1. m \in 1..n /\ m \in 1..m /\ n # m
        BY <1>1, <3>1
      <4>2. s[m] = t[m]
        BY <1>1, <1>4, <4>1
      <4> QED
        BY <1>1, <4>1, <4>2
    <3> QED
      BY <3>1
  <2> QED
    BY <1>1, <2>1, <2>2
<1>6. \A i \in 1..n : s[i] = t[i]
  BY <1>1, <1>4, <1>5
<1> QED
  BY <1>1, <1>5, <1>6 DEF n, m

\* The chain of an ancestor is the rest of the chain.
LEMMA ChainRest ==
  ASSUME Snapshot, NEW path \in Path, NEW k \in 1..Len(Chain(path))
  PROVE  LET chain == Chain(path)
             rest == Chain(chain[k])
         IN /\ rest \in Seq(Path) /\ Len(rest) = Len(chain) - k + 1
            /\ \A i \in 1..Len(rest) : rest[i] = chain[k + i - 1]
<1> DEFINE c == Chain(path)
           n == Len(c)
           r == SubSeq(c, k, n)
           m == n - k + 1
<1>1. /\ c \in Seq(Path) /\ n \in Nat /\ k \in 1..n
      /\ \A i \in 1..n : c[i] = 0 <=> i = n
      /\ \A i \in 1..(n - 1) : c[i + 1] = db.parent[c[i]]
  BY ChainClimbs DEF Climbs
<1> HIDE DEF c
<1>10. c[k] \in Path
  BY <1>1
<1>2. /\ r \in Seq(Path) /\ Len(r) = m
      /\ \A i \in 1..m : r[i] = c[k + i - 1]
  BY <1>1
<1> HIDE DEF n, r
<1>3. m \in Nat /\ m >= 1 /\ k \in Nat
  BY <1>1
<1>4. ASSUME NEW i \in 1..m PROVE r[i] = 0 <=> i = m
  <2>1. k + i - 1 \in 1..n /\ (k + i - 1 = n <=> i = m)
    BY <1>1, <1>3
  <2> QED
    BY <1>1, <1>2, <2>1
<1>5. ASSUME NEW i \in 1..(m - 1) PROVE r[i + 1] = db.parent[r[i]]
  <2>1. /\ i \in 1..m /\ i + 1 \in 1..m
        /\ k + i - 1 \in 1..(n - 1) /\ k + (i + 1) - 1 = (k + i - 1) + 1
    BY <1>1, <1>3
  <2>2. r[i] = c[k + i - 1] /\ r[i + 1] = c[k + (i + 1) - 1]
    BY <1>2, <2>1
  <2> QED
    BY <1>1, <2>1, <2>2
<1>6. r # <<>> /\ r[1] = c[k]
  <2>1. 1 \in 1..m /\ k + 1 - 1 = k
    BY <1>1, <1>3
  <2>2. Len(r) # 0
    BY <1>2, <1>3
  <2> QED
    BY <1>2, <2>1, <2>2
<1> HIDE DEF m
<1>7. Climbs(r)
  BY <1>2, <1>4, <1>5, <1>6 DEF Climbs
<1>8. Climbs(Chain(c[k])) /\ Chain(c[k])[1] = c[k]
  BY <1>10, ChainClimbs
<1>9. Chain(c[k]) = r
  BY <1>6, <1>7, <1>8, OneWayUp
<1> QED
  BY <1>2, <1>9 DEF c, m, n
-----------------------------------------------------------------------------
(* The answers of the four listings.                                       *)

\* A page of some rows with a token of its last one.
LEMMA Answered ==
  ASSUME Snapshot, id \in Nat, NEW op \in Operations, NEW scope \in Path \cup Queries,
         NEW S \in SUBSET Path, NEW page \in Pages(InOrder(S)),
         NEW answer, answer = Answer(page, Token(op, scope, Key(page.last)))
  PROVE  /\ answer.rows \in Seq(Path)
         /\ Follows(S, answer.rows, answer.token = None)
         /\ answer.token # None =>
              /\ answer.rows # <<>> /\ Last(answer.rows) \in S
              /\ answer.token = Token(op, scope, Key(Last(answer.rows)))
         /\ S # {} => answer.rows # <<>>
<1>1. answer.rows = page.rows
  BY DEF Answer
<1>2. /\ page.rows \in Seq(Path)
      /\ Follows(S, page.rows, page.last = None)
      /\ page.last # None => page.rows # <<>> /\ page.last = Last(page.rows)
      /\ S # {} => page.rows # <<>>
  BY PageFollows
<1>3. ASSUME page.rows # <<>> PROVE Last(page.rows) \in S
  <2>1. Len(page.rows) \in DOMAIN page.rows
    BY <1>2, <1>3
  <2> QED
    BY <1>2, <2>1 DEF Follows, Last
<1>4. ASSUME NEW p \in Path PROVE Token(op, scope, Key(p)) # None
  <2>1. Key(p) \in [group : 0..1, bytes : Nat, fold : Nat, path : Path]
    BY RowsTyped
  <2> DEFINE k == Key(p)
  <2> HIDE DEF k
  <2>2. Token(op, scope, k) \in Tokens(Path) \cup Tokens(Queries)
    BY <2>1 DEF Token, Tokens, k
  <2> QED
    BY <2>2, NoneAssumption DEF k
<1>5. CASE page.last = None
  <2>1. answer.token = None
    BY <1>5 DEF Answer
  <2> QED
    BY <1>1, <1>2, <1>5, <2>1
<1>6. CASE page.last # None
  <2>1. answer.token = Token(op, scope, Key(Last(page.rows))) /\ Last(page.rows) \in S
    BY <1>2, <1>3, <1>6 DEF Answer
  <2>2. answer.token # None
    BY <1>4, <2>1
  <2>3. (answer.token = None) = (page.last = None)
    BY <1>6, <2>2
  <2> QED
    BY <1>1, <1>2, <1>6, <2>1, <2>3
<1> QED
  BY <1>5, <1>6

\* The first page of children, and the next one.
LEMMA ChildrenAnswered ==
  ASSUME Snapshot, id \in Nat, NEW d \in Path, NEW t, NEW S,
         S = {p \in ChildrenOf(d) : t = None \/ After(p, t.key)},
         NEW answer \in ChildPages(d, t)
  PROVE  /\ answer.rows \in Seq(Path)
         /\ Follows(S, answer.rows, answer.token = None)
         /\ answer.token # None =>
              /\ answer.rows # <<>> /\ Last(answer.rows) \in S
              /\ answer.token = Token("children", d, Key(Last(answer.rows)))
<1>1. S \in SUBSET Path /\ "children" \in Operations /\ d \in Path \cup Queries
  BY PathAssumption DEF ChildrenOf, Path, Operations
<1>2. PICK page \in Pages(InOrder(S)) :
        answer = Answer(page, Token("children", d, Key(page.last)))
  BY DEF ChildPages, ChildKey
<1> QED
  BY <1>1, <1>2, Answered

LEMMA SearchAnswered ==
  ASSUME Snapshot, id \in Nat, NEW query \in Queries, NEW t, NEW S,
         S = {p \in Matching(query) : t = None \/ After(p, t.key)},
         NEW answer \in SearchPages(query, t)
  PROVE  /\ answer.rows \in Seq(Path)
         /\ Follows(S, answer.rows, answer.token = None)
         /\ answer.token # None =>
              /\ answer.rows # <<>> /\ Last(answer.rows) \in S
              /\ answer.token = Token("search", query, Key(Last(answer.rows)))
<1>1. S \in SUBSET Path /\ "search" \in Operations /\ query \in Path \cup Queries
  BY DEF Matching, Directories, Operations
<1>2. PICK page \in Pages(InOrder(S)) :
        answer = Answer(page, Token("search", query, Key(page.last)))
  BY DEF SearchPages
<1> QED
  BY <1>1, <1>2, Answered

\* What the listing that reveals a directory goes through.
From(p) == {q \in ChildrenOf(ParentOf(p)) : q = p \/ Precedes(p, q)}

\* Its first page: directories only, from the revealed one on.
LEMMA SiblingsAnswered ==
  ASSUME Snapshot, id \in Nat, NEW p \in Directories, p # 0,
         NEW answer \in SiblingPages(p)
  PROVE  /\ answer.rows \in Seq(Path)
         /\ answer.rows # <<>> /\ answer.rows[1] = p
         /\ Follows(From(p), answer.rows, FALSE)
         /\ answer.token = None => From(p) \ db.file \subseteq Range(answer.rows)
         /\ answer.token # None =>
              answer.token = Token("children", ParentOf(p), Key(Last(answer.rows)))
<1> DEFINE d == ParentOf(p)
           S == From(p) \ db.file
           first == answer.rows
<1>1. /\ p \in Path /\ p \in 1..N /\ d = db.parent[p] /\ d \in Path /\ d # None
      /\ p \notin db.file
  <2>1. p \in Path /\ p \notin db.file
    BY DEF Directories
  <2>2. d = db.parent[p] /\ db.parent[p] \in Path
    BY <2>1, RowsTyped DEF ParentOf
  <2>3. p \in 1..N
    BY <2>1, PathAssumption DEF Path
  <2> QED
    BY <2>1, <2>2, <2>3, NoneAssumption
<1>2. From(p) \in SUBSET Path /\ S \in SUBSET Path /\ p \in S /\ p \in From(p)
  BY <1>1 DEF From, ChildrenOf, Path
<1>3. {q \in ChildrenOf(d) \ db.file : q = p \/ After(q, Key(p))} = S
  <2>1. \A q \in ChildrenOf(d) : q \in Path
    BY DEF ChildrenOf, Path
  <2>2. \A q \in ChildrenOf(d) : After(q, Key(p)) <=> Precedes(p, q)
    BY <1>1, <2>1, AfterKey
  <2> QED
    BY <2>2 DEF From
<1>4. PICK page \in Pages(InOrder(S)) :
        answer = Answer(page, Token("children", d, UngroupedKey(page.last)))
  <2>1. SiblingPages(p) =
          {Answer(page, Token("children", d, UngroupedKey(page.last))) :
             page \in Pages(InOrder(S))}
    BY <1>1, <1>3 DEF SiblingPages
  <2> QED
    BY <2>1
<1>5. page.last # None => page.last \in S /\ UngroupedKey(page.last) = Key(page.last)
  <2>1. ASSUME page.last # None PROVE page.last \in S
    <3>1. /\ page.rows \in Seq(Path) /\ page.rows # <<>> /\ page.last = Last(page.rows)
          /\ Follows(S, page.rows, page.last = None)
      BY <1>2, <2>1, PageFollows
    <3>2. Len(page.rows) \in DOMAIN page.rows
      BY <3>1
    <3> QED
      BY <3>1, <3>2 DEF Follows, Last
  <2>2. ASSUME NEW q \in S PROVE UngroupedKey(q) = Key(q)
    BY DEF UngroupedKey, Key, Group
  <2> HIDE DEF S
  <2> QED
    BY <2>1, <2>2
<1>6. answer = Answer(page, Token("children", d, Key(page.last)))
  <2>1. CASE page.last = None
    BY <1>4, <2>1 DEF Answer
  <2>2. CASE page.last # None
    BY <1>4, <1>5, <2>2
  <2> QED
    BY <2>1, <2>2
<1>7. /\ first \in Seq(Path) /\ first # <<>>
      /\ Follows(S, first, answer.token = None)
      /\ answer.token # None => answer.token = Token("children", d, Key(Last(first)))
  <2>1. "children" \in Operations /\ d \in Path \cup Queries /\ S # {}
    BY <1>1, <1>2 DEF Operations
  <2> HIDE DEF S, d
  <2> QED
    BY <1>2, <1>6, <2>1, Answered
<1> HIDE DEF first
<1>8. 1 \in DOMAIN first /\ \A i \in DOMAIN first : i = 1 \/ 1 < i
  <2>1. Len(first) > 0 /\ DOMAIN first = 1..Len(first)
    BY <1>7
  <2> QED
    BY <2>1
<1>9. first[1] = p
  <2>1. first[1] \in S /\ first[1] \in Path
    BY <1>2, <1>7, <1>8 DEF Follows
  <2>2. first[1] = p \/ Precedes(p, first[1])
    BY <2>1 DEF From
  <2>3. first[1] = p \/ Precedes(first[1], p)
    <3>1. CASE p \notin Range(first)
      BY <1>2, <1>7, <1>8, <3>1 DEF Follows
    <3>2. CASE p \in Range(first)
      <4>1. PICK i \in DOMAIN first : first[i] = p
        BY <3>2 DEF Range
      <4> QED
        BY <1>7, <1>8, <4>1 DEF Follows
    <3> QED
      BY <3>1, <3>2
  <2> QED
    BY <1>1, <2>1, <2>2, <2>3, Ordered
<1>10. Follows(From(p), first, FALSE)
  <2>1. \A i \in DOMAIN first : first[i] \in S
    BY <1>7 DEF Follows
  <2>2. ASSUME NEW q \in From(p) \ Range(first), NEW i \in DOMAIN first
        PROVE  Precedes(first[i], q)
    <3>1. CASE q \in db.file
      <4>1. Group(first[i]) = 0 /\ Group(q) = 1
        BY <2>1, <3>1 DEF Group
      <4> QED
        BY <4>1 DEF Precedes
    <3>2. CASE q \notin db.file
      BY <1>7, <2>2, <3>2 DEF Follows
    <3> QED
      BY <3>1, <3>2
  <2>3. \A i, j \in DOMAIN first : i < j => Precedes(first[i], first[j])
    BY <1>7 DEF Follows
  <2> QED
    BY <2>1, <2>2, <2>3 DEF Follows
<1>11. answer.token = None => S \subseteq Range(first)
  BY <1>7 DEF Follows
<1> QED
  BY <1>7, <1>9, <1>10, <1>11 DEF first

\* A page of ancestors.
LEMMA AncestorsAnswered ==
  ASSUME Snapshot, id \in Nat, NEW path \in Path, NEW t, NEW from \in Path,
         from = (IF t = None THEN path ELSE t.key),
         NEW answer \in AncestorPages(path, t)
  PROVE  LET chain == Chain(from)
             k == Len(answer.rows)
         IN /\ answer.rows \in Seq(Path) /\ k >= 1 /\ k <= Len(chain)
            /\ \A i \in 1..k : answer.rows[i] = chain[i]
            /\ answer.token = None => k = Len(chain)
            /\ answer.token # None =>
                 /\ k < Len(chain)
                 /\ answer.token = Token("ancestors", path, chain[k + 1])
<1> DEFINE c == Chain(from)
           n == Len(c)
           cut == Len(Limit(Limit(c, MaxRows), MaxBreadcrumb))
<1>1. /\ c \in Seq(Path) /\ c # <<>> /\ Climbs(c)
  BY ChainClimbs DEF Climbs
<1>2. n \in Nat /\ n >= 1
  BY <1>1
<1>3. PICK k \in 1..cut :
        answer = [rows |-> Limit(c, k),
                  token |-> IF k < n THEN Token("ancestors", path, NextOf(Limit(c, k)))
                            ELSE None]
  BY DEF AncestorPages
<1>4. cut \in Nat /\ cut <= n
  <2>1. MaxRows \in Nat /\ MaxBreadcrumb \in Nat
    BY PageAssumption
  <2> HIDE DEF c
  <2>2. Limit(c, MaxRows) \in Seq(Path) /\ Len(Limit(c, MaxRows)) <= n /\ Len(Limit(c, MaxRows)) \in Nat
    BY <1>1, <1>2, <2>1, Limited
  <2>3. /\ Limit(Limit(c, MaxRows), MaxBreadcrumb) \in Seq(Path)
        /\ cut = IF Len(Limit(c, MaxRows)) > MaxBreadcrumb THEN MaxBreadcrumb
                 ELSE Len(Limit(c, MaxRows))
    BY <2>1, <2>2, Limited
  <2> HIDE DEF n, cut
  <2> QED
    BY <1>2, <2>1, <2>2, <2>3
<1> HIDE DEF cut, c, n
<1>5. k \in Nat /\ 1 <= k /\ k <= n
  BY <1>2, <1>4
<1>6. /\ Limit(c, k) \in Seq(Path) /\ Len(Limit(c, k)) = k
      /\ \A i \in 1..k : Limit(c, k)[i] = c[i]
  <2>1. Len(Limit(c, k)) = IF n > k THEN k ELSE n
    BY <1>1, <1>5, Limited DEF n
  <2>2. Len(Limit(c, k)) = k
    BY <1>2, <1>5, <2>1
  <2> QED
    BY <1>1, <1>5, <2>2, Limited
<1>7. ASSUME k < n PROVE NextOf(Limit(c, k)) = c[k + 1] /\ c[k + 1] \in Path
  <2>1. k \in 1..k /\ k \in 1..n /\ k # n /\ k \in 1..(n - 1) /\ k + 1 \in 1..n
    BY <1>2, <1>5, <1>7
  <2>2. Last(Limit(c, k)) = c[k]
    BY <1>6, <2>1 DEF Last
  <2>3. c[k] # 0 /\ c[k + 1] = db.parent[c[k]]
    BY <1>1, <2>1 DEF Climbs, n
  <2>4. c[k + 1] \in Path
    BY <1>1, <2>1 DEF n
  <2> QED
    BY <2>2, <2>3, <2>4 DEF NextOf, ParentOf
<1>8. ASSUME NEW q \in Path PROVE Token("ancestors", path, q) # None
  <2>1. Token("ancestors", path, q) \in Tokens(Path)
    BY DEF Token, Tokens, Operations
  <2> QED
    BY <2>1, NoneAssumption
<1>9. answer.rows = Limit(c, k)
  BY <1>3
<1>10. CASE k < n
  <2>1. answer.token = Token("ancestors", path, c[k + 1]) /\ answer.token # None
    BY <1>3, <1>7, <1>8, <1>10
  <2> QED
    BY <1>5, <1>6, <1>9, <1>10, <2>1 DEF c, n
<1>11. CASE ~ (k < n)
  <2>1. answer.token = None /\ k = n
    BY <1>2, <1>3, <1>5, <1>11
  <2> QED
    BY <1>5, <1>6, <1>9, <2>1 DEF c, n
<1> QED
  BY <1>10, <1>11
-----------------------------------------------------------------------------
(* Every step preserves the invariant.                                     *)

\* What the invariant says of a walk through the active snapshot.
Fits(w, rows, t) ==
  /\ w # None /\ w.op \in Operations /\ w.id = id /\ rows \in Seq(Path)
  /\ w.op # "search" => w.scope \in Directories
  /\ w.op = "search" => w.scope \in Queries
  /\ w.op = "children" => Follows(ChildrenOf(w.scope), rows, t = None)
  /\ w.op = "search" => Follows(Matching(w.scope), rows, t = None)
  /\ w.op = "childrenAt" /\ w.scope # 0 =>
       /\ rows[1] = w.scope /\ Follows(From(w.scope), rows, FALSE)
       /\ t = None => From(w.scope) \ db.file \subseteq Range(rows)
  /\ w.op = "ancestors" =>
       /\ IsPrefix(rows, Chain(w.scope))
       /\ t = None => Last(rows) = 0
  /\ t # None =>
       /\ rows # <<>> /\ t.id = id
       /\ w.op = "childrenAt" =>
            w.scope # 0 /\ t.op = "children" /\ t.scope = ParentOf(w.scope)
       /\ w.op # "childrenAt" => t.op = w.op /\ t.scope = w.scope
       /\ w.op # "ancestors" => t.key = Key(Last(rows))
       /\ w.op = "ancestors" =>
            /\ Len(rows) < Len(Chain(w.scope))
            /\ t.key = Chain(w.scope)[Len(rows) + 1]

LEMMA CurrentFits ==
  ASSUME PageInv, Current
  PROVE  Fits(walk, seen, token)
<1>1. /\ walk # None /\ walk.op \in Operations /\ walk.id = id /\ seen \in Seq(Path)
      /\ walk.op # "search" => walk.scope \in Directories
      /\ walk.op = "search" => walk.scope \in Queries
  BY DEF PageInv, PageTyped, Walking, Current
<1>2. /\ walk.op = "children" => Follows(ChildrenOf(walk.scope), seen, token = None)
      /\ walk.op = "search" => Follows(Matching(walk.scope), seen, token = None)
  BY DEF PageInv, PagesAreTheListing, Listed
<1>3. walk.op = "childrenAt" /\ walk.scope # 0 =>
        /\ seen[1] = walk.scope /\ Follows(From(walk.scope), seen, FALSE)
        /\ token = None => From(walk.scope) \ db.file \subseteq Range(seen)
  BY DEF PageInv, RevealListsDirectories, From
<1>4. walk.op = "ancestors" =>
        /\ IsPrefix(seen, Chain(walk.scope))
        /\ token = None => Last(seen) = 0
  BY DEF PageInv, PagesAreTheChain
<1>5. token # None =>
        /\ seen # <<>> /\ token.id = id
        /\ walk.op = "childrenAt" =>
             walk.scope # 0 /\ token.op = "children" /\ token.scope = ParentOf(walk.scope)
        /\ walk.op # "childrenAt" => token.op = walk.op /\ token.scope = walk.scope
        /\ walk.op # "ancestors" => token.key = Key(Last(seen))
        /\ walk.op = "ancestors" =>
             /\ Len(seen) < Len(Chain(walk.scope))
             /\ token.key = Chain(walk.scope)[Len(seen) + 1]
  BY DEF PageInv, PageTyped, Belongs, Home, NextRow, Current
<1> QED
  BY <1>1, <1>2, <1>3, <1>4, <1>5 DEF Fits

\* The operators of the model mean the same as long as the snapshot is.
LEMMA SameSnapshot ==
  ASSUME db' = db
  PROVE  /\ Directories' = Directories /\ Snapshot' = Snapshot
         /\ \A p : Key(p)' = Key(p) /\ ParentOf(p)' = ParentOf(p)
         /\ \A p : Chain(p)' = Chain(p)
         /\ \A d : ChildrenOf(d)' = ChildrenOf(d)
         /\ \A q : Matching(q)' = Matching(q)
         /\ \A p, q : Precedes(p, q)' = Precedes(p, q)
<1>1. Directories' = Directories /\ Snapshot' = Snapshot
  BY DEF Directories, Snapshot
<1>2. \A p : Key(p)' = Key(p) /\ ParentOf(p)' = ParentOf(p)
  BY DEF Key, Group, ParentOf
<1>3. \A p : Chain(p)' = Chain(p)
  BY DEF Chain, ParentOf
<1>4. \A d : ChildrenOf(d)' = ChildrenOf(d)
  BY DEF ChildrenOf
<1>5. \A q : Matching(q)' = Matching(q)
  BY DEF Matching, Directories
<1>6. \A p, q : Precedes(p, q)' = Precedes(p, q)
  BY DEF Precedes, Group
<1> QED
  BY <1>1, <1>2, <1>3, <1>4, <1>5, <1>6

LEMMA FitsKept ==
  ASSUME Snapshot, id \in Nat, db' = db, id' = id, Fits(walk', seen', token')
  PROVE  PageInv'
<1>1. PageTyped'
  <2>1. Walking'
    BY DEF Fits, Walking, Directories
  <2>2. Belongs'
    BY DEF Fits, Belongs, Home, ParentOf
  <2> QED
    BY <2>1, <2>2 DEF Fits, PageTyped, Snapshot
<1>2. NextRow'
  <2>1. CASE token' = None
    BY <2>1 DEF NextRow
  <2>2. CASE token' # None /\ walk'.op # "ancestors"
    <3>1. seen' # <<>> /\ token'.key = Key(Last(seen'))
      BY <2>2 DEF Fits
    <3> QED
      BY <2>2, <3>1 DEF NextRow, Key, Group
  <2>3. CASE token' # None /\ walk'.op = "ancestors"
    BY <2>3, SameSnapshot DEF Fits, NextRow
  <2> QED
    BY <2>1, <2>2, <2>3
<1>3. PagesAreTheListing'
  <2>1. CASE walk'.op = "children"
    <3>1. Follows(ChildrenOf(walk'.scope), seen', token' = None)
      BY <2>1 DEF Fits
    <3> QED
      BY <2>1, <3>1 DEF PagesAreTheListing, Listed, ChildrenOf, Follows, Precedes, Group
  <2>2. CASE walk'.op = "search"
    <3>1. Follows(Matching(walk'.scope), seen', token' = None)
      BY <2>2 DEF Fits
    <3> QED
      BY <2>2, <3>1 DEF PagesAreTheListing, Listed, Matching, Directories, Follows, Precedes, Group
  <2>3. CASE walk'.op \notin {"children", "search"}
    BY <2>3 DEF PagesAreTheListing
  <2> QED
    BY <2>1, <2>2, <2>3
<1>4. RevealListsDirectories'
  <2>1. CASE walk'.op = "childrenAt" /\ walk'.scope # 0
    <3>1. /\ seen'[1] = walk'.scope /\ Follows(From(walk'.scope), seen', FALSE)
          /\ token' = None => From(walk'.scope) \ db.file \subseteq Range(seen')
      BY <2>1 DEF Fits
    <3> QED
      BY <3>1 DEF RevealListsDirectories, From, ChildrenOf, ParentOf, Follows, Precedes, Group
  <2>2. CASE ~ (walk'.op = "childrenAt" /\ walk'.scope # 0)
    BY <2>2 DEF RevealListsDirectories
  <2> QED
    BY <2>1, <2>2
<1>5. PagesAreTheChain'
  <2>1. CASE walk'.op = "ancestors"
    BY <2>1, SameSnapshot DEF Fits, PagesAreTheChain
  <2>2. CASE walk'.op # "ancestors"
    BY <2>2 DEF PagesAreTheChain
  <2> QED
    BY <2>1, <2>2
<1> QED
  BY <1>1, <1>2, <1>3, <1>4, <1>5 DEF PageInv
\* A prefix agrees with what it is a prefix of.
LEMMA PrefixOf ==
  ASSUME NEW s \in Seq(Path), NEW t \in Seq(Path)
  PROVE  IsPrefix(s, t) <=> Len(s) <= Len(t) /\ \A i \in 1..Len(s) : s[i] = t[i]
<1> DEFINE n == Len(s)
<1>1. n \in Nat /\ s = SubSeq(s, 1, n)
  OBVIOUS
<1>2. CASE ~ (n <= Len(t))
  BY <1>2 DEF IsPrefix
<1>3. CASE n <= Len(t)
  <2> DEFINE u == SubSeq(t, 1, n)
  <2>1. u \in Seq(Path) /\ Len(u) = n /\ \A i \in 1..n : u[i] = t[i]
    BY <1>3
  <2> HIDE DEF u
  <2>2. s = u <=> \A i \in 1..n : s[i] = u[i]
    BY <2>1
  <2> QED
    BY <1>1, <1>3, <2>1, <2>2 DEF IsPrefix, u
<1> QED
  BY <1>2, <1>3

\* The rows after the last one are the rest of a listing.
LEMMA RestOf ==
  ASSUME Snapshot, NEW S \in SUBSET Path, NEW rows \in Seq(Path), rows # <<>>,
         Follows(S, rows, FALSE), NEW t, t # None, t.key = Key(Last(rows))
  PROVE  {p \in S : t = None \/ After(p, t.key)} = S \ Range(rows)
<1> DEFINE l == Last(rows)
<1>1. l \in Path /\ {p \in S : Precedes(l, p)} = S \ Range(rows)
  BY RestFollows
<1> HIDE DEF l
<1>2. \A p \in S : After(p, Key(l)) <=> Precedes(l, p)
  BY <1>1, AfterKey
<1>3. t.key = Key(l)
  BY DEF l
<1> QED
  BY <1>1, <1>2, <1>3

\* A new walk begins with a first page.
LEMMA FirstFits ==
  ASSUME Snapshot, id \in Nat, NEW op \in Operations, NEW scope \in Scopes(op),
         NEW page \in Answers(op, scope, None)
  PROVE  Fits([op |-> op, scope |-> scope, id |-> id], page.rows, page.token)
<1> DEFINE w == [op |-> op, scope |-> scope, id |-> id]
           rows == page.rows
           t == page.token
<1>1. /\ w.op = op /\ w.scope = scope /\ w.id = id
      /\ op # "search" => scope \in Directories /\ scope \in Path
      /\ op = "search" => scope \in Queries
  BY DEF Scopes, Directories
<1>2. w # None
  <2>1. w \in Requests(Path) \cup Requests(Queries)
    BY <1>1 DEF Requests
  <2> QED
    BY <2>1, NoneAssumption
<1> HIDE DEF w, rows, t
<1>3. CASE op = "children"
  <2>1. page \in ChildPages(scope, None)
    BY <1>3 DEF Answers
  <2>2. /\ rows \in Seq(Path) /\ Follows(ChildrenOf(scope), rows, t = None)
        /\ t # None => rows # <<>> /\ t = Token("children", scope, Key(Last(rows)))
    <3>1. ChildrenOf(scope) = {p \in ChildrenOf(scope) : None = None \/ After(p, None.key)}
      OBVIOUS
    <3> QED
      BY <1>1, <1>3, <2>1, <3>1, ChildrenAnswered DEF rows, t
  <2>3. t # None => /\ t.op = "children" /\ t.scope = scope /\ t.id = id
                    /\ t.key = Key(Last(rows))
    BY <2>2 DEF Token
  <2> QED
    BY <1>1, <1>2, <1>3, <2>2, <2>3 DEF Fits, w, rows, t
<1>4. CASE op = "search"
  <2>1. page \in SearchPages(scope, None)
    BY <1>4 DEF Answers
  <2>2. /\ rows \in Seq(Path) /\ Follows(Matching(scope), rows, t = None)
        /\ t # None => rows # <<>> /\ t = Token("search", scope, Key(Last(rows)))
    <3>1. Matching(scope) = {p \in Matching(scope) : None = None \/ After(p, None.key)}
      OBVIOUS
    <3> QED
      BY <1>1, <1>4, <2>1, <3>1, SearchAnswered DEF rows, t
  <2>3. t # None => /\ t.op = "search" /\ t.scope = scope /\ t.id = id
                    /\ t.key = Key(Last(rows))
    BY <2>2 DEF Token
  <2> QED
    BY <1>1, <1>2, <1>4, <2>2, <2>3 DEF Fits, w, rows, t
<1>5. CASE op = "childrenAt" /\ scope = 0
  <2>1. page \in SiblingPages(scope)
    BY <1>5 DEF Answers
  <2>2. page = [rows |-> <<scope>>, token |-> None]
    BY <1>5, <2>1 DEF SiblingPages, ParentOf
  <2>3. rows = <<scope>> /\ rows \in Seq(Path) /\ t = None
    BY <1>1, <1>5, <2>2 DEF rows, t
  <2> QED
    BY <1>1, <1>2, <1>5, <2>3 DEF Fits, w, rows, t
<1>6. CASE op = "childrenAt" /\ scope # 0
  <2>1. page \in SiblingPages(scope)
    BY <1>6 DEF Answers
  <2>2. /\ rows \in Seq(Path) /\ rows # <<>> /\ rows[1] = scope
        /\ Follows(From(scope), rows, FALSE)
        /\ t = None => From(scope) \ db.file \subseteq Range(rows)
        /\ t # None => t = Token("children", ParentOf(scope), Key(Last(rows)))
    BY <1>1, <1>6, <2>1, SiblingsAnswered DEF rows, t
  <2>3. t # None => /\ t.op = "children" /\ t.scope = ParentOf(scope) /\ t.id = id
                    /\ t.key = Key(Last(rows))
    BY <2>2 DEF Token
  <2> QED
    BY <1>1, <1>2, <1>6, <2>2, <2>3 DEF Fits, w, rows, t
<1>7. CASE op = "ancestors"
  <2> DEFINE c == Chain(scope)
             k == Len(rows)
  <2>1. page \in AncestorPages(scope, None)
    BY <1>7 DEF Answers
  <2>2. /\ rows \in Seq(Path) /\ k >= 1 /\ k <= Len(c)
        /\ \A i \in 1..k : rows[i] = c[i]
        /\ t = None => k = Len(c)
        /\ t # None => k < Len(c) /\ t = Token("ancestors", scope, c[k + 1])
    BY <1>1, <1>7, <2>1, AncestorsAnswered DEF rows, t
  <2>3. c \in Seq(Path) /\ \A i \in 1..Len(c) : c[i] = 0 <=> i = Len(c)
    BY <1>1, <1>7, ChainClimbs DEF Climbs
  <2> HIDE DEF c
  <2>4. IsPrefix(rows, c)
    BY <2>2, <2>3, PrefixOf
  <2>5. t = None => Last(rows) = 0
    <3>1. k \in 1..k /\ (t = None => k \in 1..Len(c))
      BY <2>2
    <3> QED
      BY <2>2, <2>3, <3>1 DEF Last
  <2>6. rows # <<>>
    BY <2>2
  <2>7. t # None => /\ t.op = "ancestors" /\ t.scope = scope /\ t.id = id
                    /\ t.key = c[k + 1] /\ k < Len(c)
    BY <2>2 DEF Token
  <2> QED
    BY <1>1, <1>2, <1>7, <2>2, <2>4, <2>5, <2>6, <2>7 DEF Fits, w, rows, t, c
<1> QED
  BY <1>3, <1>4, <1>5, <1>6, <1>7 DEF Operations

\* A token is accepted only by the walk that it belongs to.
LEMMA AcceptedHome ==
  ASSUME PageInv, token # None, NEW op \in Paged, NEW scope \in Scopes(op),
         Accepts(op, scope, token)
  PROVE  /\ Current
         /\ walk.op = "childrenAt" =>
              op = "children" /\ scope = ParentOf(walk.scope) /\ walk.scope # 0
         /\ walk.op # "childrenAt" => op = walk.op /\ scope = walk.scope
<1>1. token.op = op /\ token.scope = scope /\ token.id = id /\ op # "childrenAt"
  BY DEF Accepts, Paged, Operations, ChildTokenValid, SearchTokenValid, AncestorTokenValid
<1>2. /\ walk # None /\ token.id = walk.id
      /\ walk.op = "childrenAt" => walk.scope # 0
      /\ token.op = Home[1] /\ token.scope = Home[2]
  BY DEF PageInv, PageTyped, Belongs
<1> QED
  BY <1>1, <1>2 DEF Current, Home

\* The next page continues the walk.
LEMMA ContinueFits ==
  ASSUME PageInv, token # None, NEW op \in Paged, NEW scope \in Scopes(op),
         Accepts(op, scope, token), NEW page \in Answers(op, scope, token)
  PROVE  Fits(walk, seen \o page.rows, page.token)
<1> DEFINE more == page.rows
           t == page.token
           all == seen \o more
<1>1. /\ Snapshot /\ id \in Nat /\ Fits(walk, seen, token)
      /\ walk.op = "childrenAt" =>
           op = "children" /\ scope = ParentOf(walk.scope) /\ walk.scope # 0
      /\ walk.op # "childrenAt" => op = walk.op /\ scope = walk.scope
  BY AcceptedHome, CurrentFits DEF PageInv, PageTyped
<1>2. /\ walk # None /\ walk.op \in Operations /\ walk.id = id
      /\ walk.op # "search" => walk.scope \in Directories /\ walk.scope \in Path
      /\ walk.op = "search" => walk.scope \in Queries
      /\ seen \in Seq(Path) /\ seen # <<>>
      /\ walk.op # "ancestors" => token.key = Key(Last(seen))
  BY <1>1 DEF Fits, Directories
<1> HIDE DEF more, t, all
<1>3. CASE walk.op = "children"
  <2> DEFINE S == ChildrenOf(scope)
             T == {p \in S : token = None \/ After(p, token.key)}
  <2>1. scope \in Path /\ S \in SUBSET Path /\ page \in ChildPages(scope, token)
    BY <1>1, <1>2, <1>3 DEF Answers, ChildrenOf, Path
  <2>2. Follows(S, seen, FALSE)
    BY <1>1, <1>3 DEF Fits, Follows
  <2>3. T = S \ Range(seen)
    BY <1>1, <1>2, <1>3, <2>1, <2>2, RestOf
  <2>4. /\ more \in Seq(Path) /\ Follows(T, more, t = None)
        /\ t # None => more # <<>> /\ t = Token("children", scope, Key(Last(more)))
    BY <1>1, <2>1, ChildrenAnswered DEF more, t
  <2> HIDE DEF S, T
  <2>5. /\ all \in Seq(Path) /\ Follows(S, all, t = None) /\ all # <<>>
        /\ more # <<>> => Last(all) = Last(more)
    BY <1>1, <1>2, <2>1, <2>2, <2>3, <2>4, PageContinues DEF all
  <2>6. t # None => /\ t.op = "children" /\ t.scope = scope /\ t.id = id
                    /\ t.key = Key(Last(all))
    BY <2>4, <2>5 DEF Token
  <2> QED
    BY <1>1, <1>2, <1>3, <2>5, <2>6 DEF Fits, S, all, more, t
<1>4. CASE walk.op = "search"
  <2> DEFINE S == Matching(scope)
             T == {p \in S : token = None \/ After(p, token.key)}
  <2>1. scope \in Queries /\ S \in SUBSET Path /\ page \in SearchPages(scope, token)
    BY <1>1, <1>2, <1>4 DEF Answers, Matching, Directories
  <2>2. Follows(S, seen, FALSE)
    BY <1>1, <1>4 DEF Fits, Follows
  <2>3. T = S \ Range(seen)
    BY <1>1, <1>2, <1>4, <2>1, <2>2, RestOf
  <2>4. /\ more \in Seq(Path) /\ Follows(T, more, t = None)
        /\ t # None => more # <<>> /\ t = Token("search", scope, Key(Last(more)))
    BY <1>1, <2>1, SearchAnswered DEF more, t
  <2> HIDE DEF S, T
  <2>5. /\ all \in Seq(Path) /\ Follows(S, all, t = None) /\ all # <<>>
        /\ more # <<>> => Last(all) = Last(more)
    BY <1>1, <1>2, <2>1, <2>2, <2>3, <2>4, PageContinues DEF all
  <2>6. t # None => /\ t.op = "search" /\ t.scope = scope /\ t.id = id
                    /\ t.key = Key(Last(all))
    BY <2>4, <2>5 DEF Token
  <2> QED
    BY <1>1, <1>2, <1>4, <2>5, <2>6 DEF Fits, S, all, more, t
<1>5. CASE walk.op = "childrenAt"
  <2> DEFINE p == walk.scope
             S == From(p)
             T == {q \in ChildrenOf(scope) : token = None \/ After(q, token.key)}
  <2>1. /\ p # 0 /\ p \in Path /\ p \in Directories /\ scope = ParentOf(p) /\ scope \in Path
        /\ page \in ChildPages(scope, token)
    BY <1>1, <1>2, <1>5, RowsTyped DEF Answers, ParentOf
  <2>2. /\ seen[1] = p /\ Follows(S, seen, FALSE)
        /\ S \in SUBSET Path /\ S \subseteq ChildrenOf(scope)
    <3>1. seen[1] = p /\ Follows(S, seen, FALSE)
      BY <1>1, <1>5, <2>1 DEF Fits
    <3>2. S \subseteq ChildrenOf(scope)
      BY <2>1 DEF From
    <3>3. ChildrenOf(scope) \subseteq Path
      BY DEF ChildrenOf, Path
    <3> QED
      BY <3>1, <3>2, <3>3
  <2>3. T = S \ Range(seen)
    <3> DEFINE l == Last(seen)
    <3>1. l \in S /\ l \in Path /\ {q \in S : Precedes(l, q)} = S \ Range(seen)
      BY <1>1, <1>2, <2>2, RestFollows
    <3>2. \A q \in ChildrenOf(scope) : q \in Path
      BY DEF ChildrenOf, Path
    <3> HIDE DEF l
    <3>3. \A q \in ChildrenOf(scope) : After(q, Key(l)) <=> Precedes(l, q)
      BY <1>1, <3>1, <3>2, AfterKey
    <3>4. l = p \/ Precedes(p, l)
      BY <3>1 DEF From
    <3>5. \A q \in ChildrenOf(scope) : Precedes(l, q) => Precedes(p, q)
      BY <1>1, <2>1, <3>1, <3>2, <3>4, Ordered
    <3>6. \A q \in ChildrenOf(scope) : Precedes(l, q) => q \in S
      BY <2>1, <3>5 DEF From
    <3>7. token.key = Key(l)
      BY <1>2, <1>5 DEF l
    <3>8. T = {q \in ChildrenOf(scope) : Precedes(l, q)}
      BY <3>3, <3>7
    <3> HIDE DEF T, S
    <3> QED
      BY <2>2, <3>1, <3>6, <3>8
  <2>4. /\ more \in Seq(Path) /\ Follows(T, more, t = None)
        /\ t # None => more # <<>> /\ t = Token("children", scope, Key(Last(more)))
    BY <1>1, <2>1, ChildrenAnswered DEF more, t
  <2> HIDE DEF S, T, p
  <2>5. /\ all \in Seq(Path) /\ Follows(S, all, t = None) /\ all # <<>>
        /\ all[1] = seen[1]
        /\ more # <<>> => Last(all) = Last(more)
    BY <1>1, <1>2, <2>2, <2>3, <2>4, PageContinues DEF all
  <2>6. t # None => /\ t.op = "children" /\ t.scope = scope /\ t.id = id
                    /\ t.key = Key(Last(all))
    BY <2>4, <2>5 DEF Token
  <2>7. Follows(S, all, FALSE) /\ (t = None => S \ db.file \subseteq Range(all))
    BY <2>5 DEF Follows
  <2> QED
    BY <1>1, <1>2, <1>5, <2>1, <2>2, <2>5, <2>6, <2>7 DEF Fits, S, p, all, more, t
<1>6. CASE walk.op = "ancestors"
  <2> DEFINE c == Chain(scope)
             m == Len(seen)
             k == Len(more)
             rest == Chain(token.key)
  <2>1. /\ scope \in Path /\ scope = walk.scope /\ page \in AncestorPages(scope, token)
    BY <1>1, <1>2, <1>6 DEF Answers
  <2>2. /\ IsPrefix(seen, c) /\ m < Len(c) /\ token.key = c[m + 1]
    BY <1>1, <1>6, <2>1 DEF Fits
  <2>3. c \in Seq(Path) /\ \A i \in 1..Len(c) : c[i] = 0 <=> i = Len(c)
    BY <1>1, <2>1, ChainClimbs DEF Climbs
  <2>4. m \in Nat /\ m >= 1 /\ Len(c) \in Nat /\ m + 1 \in 1..Len(c)
    <3>1. m \in Nat /\ m # 0
      BY <1>2
    <3> HIDE DEF m, c
    <3> QED
      BY <2>2, <2>3, <3>1
  <2>5. c[m + 1] \in Path
    <3> HIDE DEF c
    <3> QED
      BY <2>3, <2>4
  <2>6. /\ more \in Seq(Path) /\ k >= 1 /\ k <= Len(rest)
        /\ \A i \in 1..k : more[i] = rest[i]
        /\ t = None => k = Len(rest)
        /\ t # None => k < Len(rest) /\ t = Token("ancestors", scope, rest[k + 1])
    BY <1>1, <2>1, <2>2, <2>5, AncestorsAnswered DEF more, t
  <2>7. /\ rest \in Seq(Path) /\ Len(rest) = Len(c) - (m + 1) + 1
        /\ \A i \in 1..Len(rest) : rest[i] = c[(m + 1) + i - 1]
    <3>1. c[m + 1] = token.key
      BY <2>2
    <3> HIDE DEF m
    <3>2. /\ Chain(c[m + 1]) \in Seq(Path) /\ Len(Chain(c[m + 1])) = Len(c) - (m + 1) + 1
          /\ \A i \in 1..Len(Chain(c[m + 1])) :
               Chain(c[m + 1])[i] = c[(m + 1) + i - 1]
      BY <1>1, <2>1, <2>4, ChainRest
    <3> QED
      BY <3>1, <3>2
  <2>8. \A i \in 1..m : seen[i] = c[i]
    BY <1>2, <2>2, <2>3, PrefixOf
  <2>9. /\ all \in Seq(Path) /\ Len(all) = m + k /\ k \in Nat
        /\ \A i \in 1..m : all[i] = seen[i]
        /\ \A i \in 1..k : all[m + i] = more[i]
    BY <1>2, <2>6 DEF all
  <2> HIDE DEF c, m, k, rest
  <2>10. Len(rest) = Len(c) - m /\ Len(rest) \in Nat
    BY <2>4, <2>7
  <2>11. \A i \in 1..Len(rest) : rest[i] = c[m + i]
    <3>1. \A i \in 1..Len(rest) : (m + 1) + i - 1 = m + i
      BY <2>4, <2>10
    <3> QED
      BY <2>7, <3>1
  <2>12. ASSUME NEW i \in 1..(m + k) PROVE all[i] = c[i]
    <3>1. CASE i \in 1..m
      BY <2>8, <2>9, <3>1
    <3>2. CASE i \notin 1..m
      <4>1. i - m \in 1..k /\ i - m \in 1..Len(rest) /\ m + (i - m) = i
        BY <2>4, <2>6, <2>9, <2>10, <3>2
      <4>2. all[m + (i - m)] = more[i - m] /\ more[i - m] = rest[i - m]
            /\ rest[i - m] = c[m + (i - m)]
        BY <2>6, <2>9, <2>11, <4>1
      <4> QED
        BY <4>1, <4>2
    <3> QED
      BY <3>1, <3>2
  <2>13. m + k <= Len(c) /\ m + k >= 1 /\ m + k \in 1..(m + k)
    BY <2>4, <2>6, <2>9, <2>10
  <2>14. IsPrefix(all, c)
    <3>1. \A i \in 1..Len(all) : all[i] = c[i]
      BY <2>9, <2>12
    <3>2. Len(all) <= Len(c)
      BY <2>9, <2>13
    <3> QED
      BY <2>3, <2>9, <3>1, <3>2, PrefixOf
  <2>15. all # <<>>
    BY <2>9, <2>13
  <2>16. t = None => Last(all) = 0
    <3>1. ASSUME t = None PROVE m + k = Len(c) /\ m + k \in 1..Len(c)
      BY <2>4, <2>6, <2>10, <2>13, <3>1
    <3>2. Last(all) = c[m + k]
      BY <2>9, <2>12, <2>13 DEF Last
    <3> QED
      BY <2>3, <3>1, <3>2
  <2>17. t # None => /\ t.op = "ancestors" /\ t.scope = scope /\ t.id = id
                     /\ Len(all) < Len(c) /\ t.key = c[Len(all) + 1]
    <3>1. ASSUME t # None PROVE Len(all) < Len(c) /\ rest[k + 1] = c[Len(all) + 1]
      <4>1. k < Len(rest) /\ k + 1 \in 1..Len(rest) /\ m + (k + 1) = Len(all) + 1
        <5>1. k < Len(rest)
          BY <2>6, <3>1
        <5> QED
          BY <2>4, <2>9, <2>10, <5>1
      <4>2. Len(all) < Len(c)
        BY <2>4, <2>9, <2>10, <4>1
      <4> QED
        BY <2>11, <4>1, <4>2
    <3> QED
      BY <2>6, <3>1 DEF Token
  <2> QED
    BY <1>1, <1>2, <1>6, <2>1, <2>9, <2>14, <2>15, <2>16, <2>17 DEF Fits, c, all, more, t
<1> QED
  BY <1>2, <1>3, <1>4, <1>5, <1>6 DEF Operations
\* After a rescan nothing is current; what is left to keep is typed.
LEMMA ReplaceKeeps ==
  ASSUME PageInv, Replace
  PROVE  PageInv'
<1>1. PageTyped
  BY DEF PageInv
<1>2. PICK p \in 1..N, bytes \in 0..1 : db' = [db EXCEPT !.bytes[p] = bytes]
  BY DEF Replace
<1>3. /\ db' \in Database /\ db'.parent = db.parent /\ db'.file = db.file
  <2>1. db \in Database
    BY <1>1 DEF PageTyped, Snapshot
  <2>2. p \in Path /\ bytes \in Nat
    BY PathAssumption DEF Path
  <2>3. [db.bytes EXCEPT ![p] = bytes] \in [Path -> Nat]
    BY <2>1, <2>2 DEF Database
  <2>4. db' = [db EXCEPT !.bytes = [db.bytes EXCEPT ![p] = bytes]]
    BY <1>2
  <2> QED
    BY <2>1, <2>3, <2>4 DEF Database
<1>4. Snapshot'
  BY <1>1, <1>3 DEF PageTyped, Snapshot
<1>5. /\ id' = id + 1 /\ walk' = walk /\ seen' = seen /\ token' = token
      /\ id \in Nat /\ id' \in Nat
  BY <1>1 DEF Replace, PageTyped
<1>6. Walking'
  <2>1. Directories' = Directories
    BY <1>3 DEF Directories
  <2>2. walk # None => walk.id <= id'
    BY <1>1, <1>5 DEF PageTyped, Walking
  <2> QED
    BY <1>1, <1>5, <2>1, <2>2 DEF PageTyped, Walking
<1>7. Belongs'
  <2>1. ParentOf(walk.scope)' = ParentOf(walk.scope)
    BY <1>3, <1>5 DEF ParentOf
  <2>2. Home' = Home
    BY <1>3, <1>5 DEF Home, ParentOf
  <2> QED
    BY <1>1, <1>5, <2>2 DEF PageTyped, Belongs
<1>8. ~ Current'
  BY <1>1, <1>5 DEF PageTyped, Walking, Current
<1> QED
  BY <1>1, <1>4, <1>5, <1>6, <1>7, <1>8
  DEF PageInv, PageTyped, NextRow, PagesAreTheListing, RevealListsDirectories, PagesAreTheChain

LEMMA StutterKeeps ==
  ASSUME PageInv, UNCHANGED vars
  PROVE  PageInv'
<1>1. /\ db' = db /\ id' = id /\ walk' = walk /\ seen' = seen /\ token' = token
      /\ PageTyped
  BY DEF vars, PageInv
<1>2. CASE Current
  <2>1. Fits(walk, seen, token)
    BY <1>2, CurrentFits
  <2> QED
    BY <1>1, <2>1, FitsKept DEF PageTyped
<1>3. CASE ~ Current
  <2>1. ~ Current'
    BY <1>1, <1>3 DEF Current
  <2>2. PageTyped'
    BY <1>1 DEF PageTyped, Snapshot, Walking, Directories, Belongs, Home, ParentOf
  <2> QED
    BY <2>1, <2>2
    DEF PageInv, NextRow, PagesAreTheListing, RevealListsDirectories, PagesAreTheChain
<1> QED
  BY <1>2, <1>3

\* The invariant is inductive: a first page starts its listing, a token is
\* accepted by its own walk only and continues it after the last row given, and
\* a rescan ends it.
THEOREM PagesInductive == Spec => []PageInv
<1>1. Init => PageInv
  <2>1. SUFFICES ASSUME Init PROVE PageInv
    OBVIOUS
  <2>2. db \in Database /\ Legal(db) /\ id = 1 /\ walk = None /\ seen = <<>> /\ token = None
    BY <2>1, DatabaseAssumption DEF Init
  <2>3. Snapshot
    BY <2>2 DEF Snapshot, Legal
  <2>4. ~ Current
    BY <2>2 DEF Current
  <2>5. PageTyped
    BY <2>2, <2>3 DEF PageTyped, Walking, Belongs
  <2> QED
    BY <2>4, <2>5
    DEF PageInv, NextRow, PagesAreTheListing, RevealListsDirectories, PagesAreTheChain
<1>2. PageInv /\ [Next]_vars => PageInv'
  <2>1. SUFFICES ASSUME PageInv, [Next]_vars PROVE PageInv'
    OBVIOUS
  <2>2. Snapshot /\ id \in Nat
    BY <2>1 DEF PageInv, PageTyped
  <2>3. ASSUME NEW op \in Operations, NEW scope \in Scopes(op), First(op, scope)
        PROVE  PageInv'
    <3>1. PICK page \in Answers(op, scope, None) :
            /\ walk' = [op |-> op, scope |-> scope, id |-> id]
            /\ seen' = page.rows /\ token' = page.token /\ db' = db /\ id' = id
      BY <2>3 DEF First
    <3>2. Fits(walk', seen', token')
      BY <2>2, <3>1, FirstFits
    <3> QED
      BY <2>2, <3>1, <3>2, FitsKept
  <2>4. ASSUME NEW op \in Paged, NEW scope \in Scopes(op), Continue(op, scope)
        PROVE  PageInv'
    <3>1. PICK page \in Answers(op, scope, token) :
            /\ seen' = seen \o page.rows /\ token' = page.token
            /\ walk' = walk /\ db' = db /\ id' = id
      BY <2>4 DEF Continue
    <3>2. token # None /\ Accepts(op, scope, token)
      BY <2>4 DEF Continue
    <3>3. Fits(walk', seen', token')
      BY <2>1, <3>1, <3>2, ContinueFits
    <3> QED
      BY <2>2, <3>1, <3>3, FitsKept
  <2>5. CASE Replace
    BY <2>1, <2>5, ReplaceKeeps
  <2>6. CASE UNCHANGED vars
    BY <2>1, <2>6, StutterKeeps
  <2> QED
    BY <2>1, <2>3, <2>4, <2>5, <2>6 DEF Next
<1> QED
  BY <1>1, <1>2, PTL DEF Spec

\* sqlite_query.py, children and search: the pages of a listing, wherever the
\* row limit and the byte budget cut them, are the listing in its order, each
\* entry once and none left out, and never mix two snapshots.
THEOREM ListingCorrect == Spec => []PagesAreTheListing
<1>1. PageInv => PagesAreTheListing
  BY DEF PageInv
<1> QED
  BY <1>1, PagesInductive, PTL

\* children_at: the listing that reveals a directory begins with it and goes on
\* with what follows it, first on its own pages and then on those of children,
\* and ends with no directory left out.
THEOREM RevealCorrect == Spec => []RevealListsDirectories
<1>1. PageInv => RevealListsDirectories
  BY DEF PageInv
<1> QED
  BY <1>1, PagesInductive, PTL

\* ancestors: the pages are the chain of the path and end with the root.
THEOREM ChainCorrect == Spec => []PagesAreTheChain
<1>1. PageInv => PagesAreTheChain
  BY DEF PageInv
<1> QED
  BY <1>1, PagesInductive, PTL

\* A token is accepted by the listing it was given for as long as the snapshot
\* is active, and by nothing else.
THEOREM TokensCorrect == Spec => []TokensGoOn
<1>1. ASSUME PageInv, walk # None, token # None,
             NEW op \in Paged, NEW scope \in Scopes(op)
      PROVE  Accepts(op, scope, token) <=> Current /\ <<op, scope>> = Home
  <2>1. ASSUME Accepts(op, scope, token) PROVE Current /\ <<op, scope>> = Home
    BY <1>1, <2>1, AcceptedHome DEF Home
  <2>2. ASSUME Current, <<op, scope>> = Home PROVE Accepts(op, scope, token)
    <3>1. /\ Fits(walk, seen, token) /\ Snapshot
          /\ walk.op = "childrenAt" => op = "children" /\ scope = ParentOf(walk.scope)
          /\ walk.op # "childrenAt" => op = walk.op /\ scope = walk.scope
      BY <1>1, <2>2, CurrentFits DEF PageInv, PageTyped, Home
    <3>2. /\ walk.op \in Operations /\ seen \in Seq(Path) /\ seen # <<>> /\ token.id = id
          /\ token.op = op /\ token.scope = scope
          /\ walk.op # "ancestors" => token.key = Key(Last(seen))
      BY <1>1, <3>1 DEF Fits
    <3>3. Len(seen) \in DOMAIN seen /\ Last(seen) = seen[Len(seen)]
      BY <3>2 DEF Last
    <3>4. CASE walk.op = "children"
      <4>1. Last(seen) \in ChildrenOf(scope)
        BY <3>1, <3>3, <3>4 DEF Fits, Follows
      <4> QED
        BY <3>1, <3>2, <3>4, <4>1 DEF Accepts, ChildTokenValid
    <3>5. CASE walk.op = "search"
      <4>1. Last(seen) \in Matching(scope)
        BY <3>1, <3>3, <3>5 DEF Fits, Follows
      <4> QED
        BY <3>1, <3>2, <3>5, <4>1 DEF Accepts, SearchTokenValid
    <3>6. CASE walk.op = "childrenAt"
      <4>1. Last(seen) \in From(walk.scope)
        BY <1>1, <3>1, <3>3, <3>6 DEF Fits, Follows
      <4>2. Last(seen) \in ChildrenOf(scope)
        BY <3>1, <3>6, <4>1 DEF From
      <4> QED
        BY <3>1, <3>2, <3>6, <4>2 DEF Accepts, ChildTokenValid
    <3>7. CASE walk.op = "ancestors"
      <4> DEFINE c == Chain(scope)
                 n == Len(seen) + 1
      <4>1. /\ Len(seen) < Len(c) /\ token.key = c[n]
            /\ scope \in Directories
        BY <1>1, <3>1, <3>7 DEF Fits
      <4>2. c \in Seq(Path)
        BY <3>1, <4>1, ChainClimbs DEF Climbs, Directories
      <4> HIDE DEF c
      <4>3. n \in 2..Len(c)
        <5>1. Len(seen) \in Nat /\ Len(seen) # 0 /\ Len(c) \in Nat
          BY <3>2, <4>2
        <5> QED
          BY <4>1, <5>1
      <4>4. \E i \in 2..Len(c) : c[i] = token.key
        BY <4>1, <4>3
      <4> QED
        BY <3>1, <3>2, <3>7, <4>4 DEF Accepts, AncestorTokenValid, c
    <3> QED
      BY <3>2, <3>4, <3>5, <3>6, <3>7 DEF Operations
  <2> QED
    BY <2>1, <2>2
<1>2. PageInv => TokensGoOn
  BY <1>1 DEF TokensGoOn
<1> QED
  BY <1>2, PagesInductive, PTL

=============================================================================
