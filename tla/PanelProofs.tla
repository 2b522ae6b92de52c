---------------------------- MODULE PanelProofs ----------------------------
(***************************************************************************)
(* Proofs about the panel and its broker, for every set of filesystems,    *)
(* every limit and every fault.                                            *)
(***************************************************************************)
EXTENDS Panel, Iteration, FiniteSetTheorems, TLAPS

-----------------------------------------------------------------------------
(* The records that pass between the panel and its broker.                 *)

Number == Nat \ {0}
MaybeRoot == Root \cup {None}
MaybeGen == Nat \cup {None}
Op == {"hello", "snapshotOpen", "scanStart", "scanCancel", "metadata",
       "children", "activationCommit", "activationAbort", "shutdown"}
Type == {"ready", "error", "snapshotAvailable", "snapshotMissing",
         "scanStarted", "scanCancelRequested", "activationCommitted",
         "activationAborted", "snapshotActivated", "scanFailed", "queryResult"}
Request == [id : Number, op : Op, gen : MaybeGen, token : MaybeGen]
Asked == [id : Number, op : Op, root : MaybeRoot, mount : MaybeRoot,
          gen : MaybeGen, asked : BOOLEAN]
Wanted == [op : Op, root : MaybeRoot, mount : MaybeRoot, gen : MaybeGen,
           token : MaybeGen, asked : BOOLEAN]
Said == [id : Number, type : Type, gen : MaybeGen, root : MaybeRoot]
Queued == [id : Number, gen : MaybeGen]
Call == {c \in PutOff : c.call = "launch"}
               \cup [call : {"open"}, current : BOOLEAN, root : Root]
               \cup [call : {"cancel", "start"}, current : BOOLEAN]
PanelRecord ==
  [opened : BOOLEAN, listed : BOOLEAN, discovering : BOOLEAN,
   preferred : MaybeRoot, treeRoot : MaybeRoot,
   process : {"off", "starting", "up"}, ready : BOOLEAN, terminating : BOOLEAN,
   requests : SUBSET Request, sent : Seq(Asked), later : Seq(Call),
   scanRequest : Number \cup {None}, staging : MaybeGen, cancelling : BOOLEAN,
   activation : Activation \cup {None}, pendingScan : PutOff \cup {None},
   pendingOpen : MaybeRoot, view : MaybeGen, shown : MaybeRoot,
   available : BOOLEAN]

ServiceTyped ==
  /\ serving \in BOOLEAN
  /\ stored \subseteq MaybeRoot
  /\ active \in Generation \cup {None}
  /\ previous \in Generation \cup {None}
  /\ staging \in Scan \cup {None}
  /\ outcomes \subseteq Said /\ IsFiniteSet(outcomes)
  /\ queries \in Seq(Queued)
Typed == /\ ServiceTyped
         /\ stdin \in Seq(Asked) /\ stdout \in Seq(Said)
         /\ panel \in PanelRecord /\ IsFiniteSet(panel.requests)
         /\ panel.sent = <<>>

-----------------------------------------------------------------------------
(* Fresh identifiers.                                                      *)

LEMMA LeastFresh ==
  ASSUME NEW used, IsFiniteSet(used)
  PROVE  Least(used) \in Number /\ Least(used) \notin used
<1> DEFINE n == Cardinality(used) + 1
           S == 1..n \ used
<1>1. n \in Nat /\ S \subseteq Nat
  BY FS_CardinalityType
<1>2. S # {}
  <2>1. SUFFICES ASSUME 1..n \subseteq used PROVE FALSE
    OBVIOUS
  <2>2. Cardinality(1..n) = n
    BY <1>1, FS_Interval
  <2>3. Cardinality(1..n) <= Cardinality(used)
    BY <2>1, FS_Subset
  <2> QED
    BY <2>2, <2>3, FS_CardinalityType
<1>3. PICK k \in S : \A m \in S : k <= m
  BY <1>1, <1>2, LeastNumber
<1>4. Min(S) \in S
  BY <1>3 DEF Min
<1>5. Least(used) = Min(S)
  BY DEF Least
<1> QED
  BY <1>1, <1>4, <1>5 DEF Number

LEMMA FiniteIds == ASSUME NEW S, IsFiniteSet(S) PROVE IsFiniteSet(IdsIn(S))
<1> DEFINE f == [x \in S |-> x.id]
<1>1. f \in Surjection(S, IdsIn(S))
  BY DEF Surjection, IdsIn
<1> QED
  BY <1>1, FS_Surjection

LEMMA FiniteTokens ==
  ASSUME NEW S, IsFiniteSet(S) PROVE IsFiniteSet({r.token : r \in S})
<1> DEFINE f == [x \in S |-> x.token]
<1>1. f \in Surjection(S, {r.token : r \in S})
  BY DEF Surjection
<1> QED
  BY <1>1, FS_Surjection

LEMMA FiniteRange == ASSUME NEW S, NEW s \in Seq(S) PROVE IsFiniteSet(Range(s))
<1>1. IsFiniteSet(1..Len(s)) /\ DOMAIN s = 1..Len(s)
  BY FS_Interval
<1>2. s \in Surjection(DOMAIN s, Range(s))
  BY DEF Surjection, Range
<1> QED
  BY <1>1, <1>2, FS_Surjection

-----------------------------------------------------------------------------
(* The inductive invariant, as relations of the pending requests R, the    *)
(* pipe to the broker, in, and the pipe from it, out.                      *)

Runs(id) == staging # None /\ staging.id = id
Over == {"snapshotActivated", "scanFailed"}

\* The operations that an answer of this type is for.
AnsweredBy(type) ==
  CASE type = "ready" -> {"hello"}
    [] type \in {"snapshotAvailable", "snapshotMissing"} -> {"snapshotOpen"}
    [] type \in {"scanStarted", "snapshotActivated", "scanFailed"} ->
         {"scanStart"}
    [] type = "scanCancelRequested" -> {"scanCancel"}
    [] type = "activationCommitted" -> {"activationCommit"}
    [] type = "activationAborted" -> {"activationAbort"}
    [] type = "queryResult" -> {"metadata", "children"}
    [] OTHER -> Op

\* An identifier names one request, which is in one place.
Apart(R, in, out) ==
  /\ \A r, s \in R : r.id = s.id => r = s
  /\ \A i, j \in DOMAIN in : in[i].id = in[j].id => i = j
  /\ \A i \in DOMAIN in :
       /\ \A j \in DOMAIN out : out[j].id # in[i].id
       /\ \A j \in DOMAIN queries : queries[j].id # in[i].id
       /\ \A o \in outcomes : o.id # in[i].id
       /\ ~Runs(in[i].id)

\* What is on its way fits the request it belongs to.
Matched(R, in, out) == \A r \in R :
  /\ \A i \in DOMAIN in : in[i].id = r.id =>
       /\ in[i].op = r.op /\ in[i].gen = r.gen
       /\ r.op = "scanStart" => r.gen = None
  /\ \A i \in DOMAIN queries : queries[i].id = r.id =>
       r.op \in {"metadata", "children"} /\ queries[i].gen = r.gen
  /\ \A i \in DOMAIN out : out[i].id = r.id =>
       /\ r.op \in AnsweredBy(out[i].type)
       /\ out[i].type \in {"queryResult", "activationCommitted"} =>
            out[i].gen = r.gen
  /\ \A o \in outcomes : o.id = r.id => r.op = "scanStart"
  /\ Runs(r.id) => r.op = "scanStart"

ScansNamed(out) ==
  /\ \A o \in outcomes : o.type \in Over /\ o.gen \in Nat
  /\ \A i \in DOMAIN out :
       out[i].type \in Over \cup {"scanStarted"} => out[i].gen \in Nat

\* The panel knows the generation of the scan, or reads it before line n.
Told(r, g, n, out) ==
  \/ r.gen = g
  \/ \E j \in DOMAIN out : /\ j < n
                           /\ out[j].id = r.id
                           /\ out[j].type = "scanStarted"
                           /\ out[j].gen = g
Ended(R, out) == \A r \in R : r.op = "scanStart" =>
  /\ \A i \in DOMAIN out :
       out[i].id = r.id /\ out[i].type \in Over => Told(r, out[i].gen, i, out)
  /\ Runs(r.id) => Told(r, staging.gen, Len(out) + 1, out)
  /\ \A o \in outcomes : o.id = r.id => Told(r, o.gen, Len(out) + 1, out)
RefusedAlone(R, out) == \A r \in R : r.op = "scanStart" =>
  \A i \in DOMAIN out : out[i].id = r.id /\ out[i].type = "error" =>
    /\ r.gen = None
    /\ \A j \in DOMAIN out : out[j].id = r.id => j = i
    /\ \A o \in outcomes : o.id # r.id
    /\ ~Runs(r.id)
Started(R, out) == \A r \in R : r.op = "scanStart" =>
  \A i \in DOMAIN out : out[i].id = r.id /\ out[i].type = "scanStarted" =>
    /\ Runs(r.id) => staging.gen = out[i].gen
    /\ \A o \in outcomes : o.id = r.id => o.gen = out[i].gen
    /\ \A j \in DOMAIN out : out[j].id = r.id /\ out[j].type \in Over =>
         out[j].gen = out[i].gen
    /\ \/ Runs(r.id)
       \/ \E o \in outcomes : o.id = r.id
       \/ \E j \in DOMAIN out : j > i /\ out[j].id = r.id
Wire(R, in, out) ==
  /\ Apart(R, in, out) /\ Matched(R, in, out) /\ ScansNamed(out)
  /\ Ended(R, out) /\ RefusedAlone(R, out) /\ Started(R, out)

\* The broker has the request before it, or an answer is on its way.
Awaits(r, in, out) ==
  \/ \E i \in DOMAIN in : in[i].id = r.id
  \/ \E i \in DOMAIN out : out[i].id = r.id
  \/ \E i \in DOMAIN queries : queries[i].id = r.id
  \/ \E o \in outcomes : o.id = r.id
  \/ Runs(r.id)
Passed(r, act) == r.token # None /\ (act = None \/ r.token # act.token)
NoneForgotten(R, in, out, act) ==
  serving => \A r \in R : Awaits(r, in, out) \/ Passed(r, act) \/ RefusedScan(r)

\* A scan that is under way is the one the panel follows.
OneScan(R, in, out, scan) ==
  \A r \in R : r.op = "scanStart" /\ Awaits(r, in, out) => r.id = scan

\* What is on its way is about the filesystem that is selected.
SameRoot(R, in, out, root) == \A r \in R :
  /\ \A i \in DOMAIN in :
       in[i].id = r.id /\ r.op \in {"snapshotOpen", "scanStart"} => in[i].root = root
  /\ \A i \in DOMAIN out :
       out[i].id = r.id /\ out[i].type \in {"snapshotAvailable", "snapshotActivated"}
         => out[i].root = root
  /\ \A o \in outcomes : o.id = r.id => o.root = root
  /\ Runs(r.id) => staging.root = root

\* Requests for rows name the snapshot on screen or that of an activation.
RowsNamed(R, view, act) == \A r \in R :
  /\ Navigates(r) => r.gen = view
  /\ r.op \in {"metadata", "activationCommit"} => r.token # None
  /\ r.op = "scanStart" => r.token = None
  /\ act # None /\ r.token = act.token => r.gen = act.gen

-----------------------------------------------------------------------------
(* What a pipe does.                                                       *)

LEMMA Appended ==
  ASSUME NEW S, NEW s \in Seq(S), NEW x \in S
  PROVE  /\ Append(s, x) \in Seq(S) /\ Len(Append(s, x)) = Len(s) + 1
         /\ DOMAIN s = 1..Len(s) /\ Len(s) \in Nat
         /\ DOMAIN Append(s, x) = 1..(Len(s) + 1)
         /\ \A i \in DOMAIN Append(s, x) :
              Append(s, x)[i] = IF i = Len(s) + 1 THEN x ELSE s[i]
         /\ \A i \in DOMAIN Append(s, x) : i = Len(s) + 1 \/ i \in DOMAIN s
OBVIOUS

LEMMA Shortened ==
  ASSUME NEW S, NEW s \in Seq(S), s # <<>>
  PROVE  /\ Tail(s) \in Seq(S) /\ Len(Tail(s)) = Len(s) - 1
         /\ DOMAIN s = 1..Len(s) /\ Len(s) \in Nat /\ Len(s) >= 1
         /\ DOMAIN Tail(s) = 1..(Len(s) - 1)
         /\ \A i \in DOMAIN Tail(s) : Tail(s)[i] = s[i + 1] /\ i + 1 \in DOMAIN s
         /\ Head(s) = s[1] /\ 1 \in DOMAIN s /\ s[1] \in S
         /\ \A i \in DOMAIN s : i = 1 \/ (i - 1 \in DOMAIN Tail(s)
                                          /\ Tail(s)[i - 1] = s[i])
OBVIOUS

LEMMA HeadOrTail ==
  ASSUME NEW s \in Seq(Asked), s # <<>>
  PROVE  \A id : (\E i \in DOMAIN s : s[i].id = id)
           <=> (\E i \in DOMAIN Tail(s) : Tail(s)[i].id = id) \/ s[1].id = id
<1> DEFINE t == Tail(s)
<1>1. /\ \A i \in DOMAIN t : t[i] = s[i + 1] /\ i + 1 \in DOMAIN s
      /\ 1 \in DOMAIN s
      /\ \A i \in DOMAIN s : i = 1 \/ (i - 1 \in DOMAIN t /\ t[i - 1] = s[i])
  BY Shortened
<1> HIDE DEF t
<1> SUFFICES ASSUME NEW id
    PROVE  (\E i \in DOMAIN s : s[i].id = id)
             <=> (\E i \in DOMAIN t : t[i].id = id) \/ s[1].id = id
  BY DEF t
<1>2. ASSUME NEW i \in DOMAIN t, t[i].id = id PROVE \E k \in DOMAIN s : s[k].id = id
  BY <1>1, <1>2
<1>3. ASSUME NEW i \in DOMAIN s, s[i].id = id, i # 1
      PROVE  \E k \in DOMAIN t : t[k].id = id
  BY <1>1, <1>3
<1> QED
  BY <1>1, <1>2, <1>3

\* An identifier that nothing refers to.
Absent(id, R, in, out) ==
  /\ \A r \in R : r.id # id
  /\ \A i \in DOMAIN in : in[i].id # id
  /\ \A i \in DOMAIN out : out[i].id # id
  /\ \A i \in DOMAIN queries : queries[i].id # id
  /\ \A o \in outcomes : o.id # id
  /\ ~Runs(id)

-----------------------------------------------------------------------------
(* A request that is sent.                                                 *)

LEMMA SentWire ==
  ASSUME NEW R, NEW in \in Seq(Asked), NEW out, Wire(R, in, out),
         NEW r, NEW m \in Asked, m.id = r.id, m.op = r.op, m.gen = r.gen,
         Absent(r.id, R, in, out), r.op = "scanStart" => r.gen = None
  PROVE  Wire(R \cup {r}, Append(in, m), out)
<1> DEFINE New == R \cup {r}
           now == Append(in, m)
<1>1. /\ \A i \in DOMAIN now : now[i] = IF i = Len(in) + 1 THEN m ELSE in[i]
      /\ \A i \in DOMAIN now : i = Len(in) + 1 \/ i \in DOMAIN in
      /\ DOMAIN in = 1..Len(in) /\ Len(in) \in Nat
  BY Appended
<1> HIDE DEF now
<1>2. Apart(New, now, out)
  BY <1>1 DEF Wire, Apart, Absent
<1>3. Matched(New, now, out)
  BY <1>1 DEF Wire, Matched, Absent
<1>4. ScansNamed(out) /\ Ended(New, out) /\ RefusedAlone(New, out) /\ Started(New, out)
  BY DEF Wire, Ended, RefusedAlone, Started, Absent
<1> QED
  BY <1>2, <1>3, <1>4 DEF Wire, now

LEMMA SentAwaited ==
  ASSUME NEW R, NEW in \in Seq(Asked), NEW out, NEW act,
         NoneForgotten(R, in, out, act), NEW r, NEW m \in Asked, m.id = r.id
  PROVE  NoneForgotten(R \cup {r}, Append(in, m), out, act)
<1> DEFINE now == Append(in, m)
<1>1. /\ DOMAIN in \subseteq DOMAIN now /\ \A i \in DOMAIN in : now[i] = in[i]
      /\ Len(in) + 1 \in DOMAIN now /\ now[Len(in) + 1] = m
  BY Appended
<1> HIDE DEF now
<1>2. \A s \in R : Awaits(s, in, out) => Awaits(s, now, out)
  BY <1>1 DEF Awaits
<1>3. Awaits(r, now, out)
  BY <1>1 DEF Awaits
<1> QED
  BY <1>2, <1>3 DEF NoneForgotten, now

LEMMA SentOneScan ==
  ASSUME NEW R, NEW in \in Seq(Asked), NEW out, NEW scan,
         OneScan(R, in, out, scan), NEW r, NEW m \in Asked, m.id = r.id,
         Absent(r.id, R, in, out), NEW after,
         IF r.op = "scanStart"
         THEN scan = None /\ after = r.id /\ \A s \in R : s.id # None
         ELSE after = scan
  PROVE  OneScan(R \cup {r}, Append(in, m), out, after)
<1> DEFINE now == Append(in, m)
<1>1. /\ \A i \in DOMAIN now : now[i] = IF i = Len(in) + 1 THEN m ELSE in[i]
      /\ \A i \in DOMAIN now : i = Len(in) + 1 \/ i \in DOMAIN in
  BY Appended
<1> HIDE DEF now
<1>2. \A s \in R : Awaits(s, now, out) => Awaits(s, in, out)
  BY <1>1 DEF Awaits, Absent
<1> QED
  BY <1>2 DEF OneScan, now

LEMMA SentSameRoot ==
  ASSUME NEW R, NEW in \in Seq(Asked), NEW out, NEW root,
         SameRoot(R, in, out, root), NEW r, NEW m \in Asked, m.id = r.id,
         Absent(r.id, R, in, out),
         r.op \in {"snapshotOpen", "scanStart"} => m.root = root
  PROVE  SameRoot(R \cup {r}, Append(in, m), out, root)
<1> DEFINE now == Append(in, m)
<1>1. /\ \A i \in DOMAIN now : now[i] = IF i = Len(in) + 1 THEN m ELSE in[i]
      /\ \A i \in DOMAIN now : i = Len(in) + 1 \/ i \in DOMAIN in
  BY Appended
<1> HIDE DEF now
<1> QED
  BY <1>1 DEF SameRoot, Absent, now

-----------------------------------------------------------------------------
(* Requests that are finished, lines that are read.                        *)

LEMMA FewerRequests ==
  ASSUME NEW R, NEW S \in SUBSET R, NEW in, NEW out, Wire(R, in, out)
  PROVE  /\ Wire(S, in, out)
         /\ \A act : NoneForgotten(R, in, out, act) => NoneForgotten(S, in, out, act)
         /\ \A scan : OneScan(R, in, out, scan) => OneScan(S, in, out, scan)
         /\ \A root : SameRoot(R, in, out, root) => SameRoot(S, in, out, root)
         /\ \A view, act : RowsNamed(R, view, act) => RowsNamed(S, view, act)
<1>1. Wire(S, in, out)
  BY DEF Wire, Apart, Matched, Ended, RefusedAlone, Started
<1>2. \A act : NoneForgotten(R, in, out, act) => NoneForgotten(S, in, out, act)
  BY DEF NoneForgotten
<1>3. \A scan : OneScan(R, in, out, scan) => OneScan(S, in, out, scan)
  BY DEF OneScan
<1>4. \A root : SameRoot(R, in, out, root) => SameRoot(S, in, out, root)
  BY DEF SameRoot
<1>5. \A view, act : RowsNamed(R, view, act) => RowsNamed(S, view, act)
  BY DEF RowsNamed
<1> QED
  BY <1>1, <1>2, <1>3, <1>4, <1>5

\* A line is read. If it starts a scan, the panel knows its generation.
LEMMA ReadWire ==
  ASSUME NEW R, NEW in, NEW out \in Seq(Said), out # <<>>, Wire(R, in, out),
         \A r \in R : r.id = Head(out).id /\ Head(out).type = "scanStarted"
                        => r.gen = Head(out).gen
  PROVE  Wire(R, in, Tail(out))
<1> DEFINE rest == Tail(out)
<1>1. /\ DOMAIN out = 1..Len(out) /\ Len(out) \in Nat /\ Len(rest) = Len(out) - 1
      /\ \A i \in DOMAIN rest : rest[i] = out[i + 1] /\ i + 1 \in DOMAIN out
      /\ DOMAIN rest = 1..(Len(out) - 1) /\ Head(out) = out[1]
      /\ \A i \in DOMAIN out : i = 1 \/ (i - 1 \in DOMAIN rest /\ rest[i - 1] = out[i])
  BY Shortened
<1> HIDE DEF rest
<1>2. Apart(R, in, rest)
  BY <1>1 DEF Wire, Apart
<1>3. Matched(R, in, rest)
  BY <1>1 DEF Wire, Matched
<1>4. ScansNamed(rest)
  BY <1>1 DEF Wire, ScansNamed
<1>5. ASSUME NEW r \in R, NEW g, NEW n \in Nat, n >= 1, Told(r, g, n, out)
      PROVE  Told(r, g, n - 1, rest)
  <2>1. CASE r.gen = g
    BY <2>1 DEF Told
  <2>2. CASE r.gen # g
    <3>1. PICK j \in DOMAIN out : /\ j < n /\ out[j].id = r.id
                                  /\ out[j].type = "scanStarted" /\ out[j].gen = g
      BY <1>5, <2>2 DEF Told
    <3>2. j # 1
      BY <1>1, <2>2, <3>1
    <3>3. j - 1 \in DOMAIN rest /\ rest[j - 1] = out[j] /\ j - 1 < n - 1
      BY <1>1, <3>1, <3>2
    <3> QED
      BY <3>1, <3>3 DEF Told
  <2> QED
    BY <2>1, <2>2
<1>6. Ended(R, rest)
  <2> SUFFICES ASSUME NEW r \in R, r.op = "scanStart"
      PROVE  /\ \A i \in DOMAIN rest :
                  rest[i].id = r.id /\ rest[i].type \in Over => Told(r, rest[i].gen, i, rest)
             /\ Runs(r.id) => Told(r, staging.gen, Len(rest) + 1, rest)
             /\ \A o \in outcomes : o.id = r.id => Told(r, o.gen, Len(rest) + 1, rest)
    BY DEF Ended
  <2>1. ASSUME NEW i \in DOMAIN rest, rest[i].id = r.id, rest[i].type \in Over
        PROVE  Told(r, rest[i].gen, i, rest)
    <3>1. i + 1 \in Nat /\ i + 1 >= 1 /\ (i + 1) - 1 = i
      BY <1>1
    <3>2. Told(r, rest[i].gen, i + 1, out)
      BY <1>1, <2>1 DEF Wire, Ended
    <3>3. Told(r, rest[i].gen, (i + 1) - 1, rest)
      BY <1>5, <3>1, <3>2
    <3> QED
      BY <3>1, <3>3
  <2>2. ASSUME NEW g, Told(r, g, Len(out) + 1, out)
        PROVE  Told(r, g, Len(rest) + 1, rest)
    <3>1. Len(out) + 1 \in Nat /\ Len(out) + 1 >= 1 /\ (Len(out) + 1) - 1 = Len(rest) + 1
      BY <1>1
    <3>2. Told(r, g, (Len(out) + 1) - 1, rest)
      BY <1>5, <2>2, <3>1
    <3> QED
      BY <3>1, <3>2
  <2>3. /\ Runs(r.id) => Told(r, staging.gen, Len(out) + 1, out)
        /\ \A o \in outcomes : o.id = r.id => Told(r, o.gen, Len(out) + 1, out)
    BY DEF Wire, Ended
  <2> QED
    BY <2>1, <2>2, <2>3
<1>7. RefusedAlone(R, rest)
  <2> SUFFICES ASSUME NEW r \in R, r.op = "scanStart",
                      NEW i \in DOMAIN rest, rest[i].id = r.id, rest[i].type = "error"
      PROVE  /\ r.gen = None
             /\ \A j \in DOMAIN rest : rest[j].id = r.id => j = i
             /\ \A o \in outcomes : o.id # r.id
             /\ ~Runs(r.id)
    BY DEF RefusedAlone
  <2>1. /\ r.gen = None
        /\ \A j \in DOMAIN out : out[j].id = r.id => j = i + 1
        /\ \A o \in outcomes : o.id # r.id
        /\ ~Runs(r.id)
    BY <1>1 DEF Wire, RefusedAlone
  <2>2. ASSUME NEW j \in DOMAIN rest, rest[j].id = r.id PROVE j = i
    <3>1. j + 1 = i + 1
      BY <1>1, <2>1, <2>2
    <3> QED
      BY <1>1, <3>1
  <2> QED
    BY <2>1, <2>2
<1>8. Started(R, rest)
  <2> SUFFICES ASSUME NEW r \in R, r.op = "scanStart",
                      NEW i \in DOMAIN rest, rest[i].id = r.id,
                      rest[i].type = "scanStarted"
      PROVE  /\ Runs(r.id) => staging.gen = rest[i].gen
             /\ \A o \in outcomes : o.id = r.id => o.gen = rest[i].gen
             /\ \A j \in DOMAIN rest : rest[j].id = r.id /\ rest[j].type \in Over =>
                  rest[j].gen = rest[i].gen
             /\ \/ Runs(r.id)
                \/ \E o \in outcomes : o.id = r.id
                \/ \E j \in DOMAIN rest : j > i /\ rest[j].id = r.id
    BY DEF Started
  <2>1. PICK k \in DOMAIN out : k = i + 1 /\ out[k] = rest[i]
    BY <1>1
  <2>2. /\ Runs(r.id) => staging.gen = rest[i].gen
        /\ \A o \in outcomes : o.id = r.id => o.gen = rest[i].gen
        /\ \A j \in DOMAIN out : out[j].id = r.id /\ out[j].type \in Over =>
             out[j].gen = rest[i].gen
        /\ \/ Runs(r.id)
           \/ \E o \in outcomes : o.id = r.id
           \/ \E j \in DOMAIN out : j > k /\ out[j].id = r.id
    <3>1. out[k].id = r.id /\ out[k].type = "scanStarted" /\ Started(R, out)
      BY <2>1 DEF Wire
    <3> QED
      BY <2>1, <3>1 DEF Started
  <2>3. ASSUME NEW j \in DOMAIN rest, rest[j].id = r.id, rest[j].type \in Over
        PROVE  rest[j].gen = rest[i].gen
    <3>1. PICK n \in DOMAIN out : out[n] = rest[j]
      BY <1>1
    <3> QED
      BY <2>2, <2>3, <3>1
  <2>4. ASSUME NEW j \in DOMAIN out, j > k, out[j].id = r.id
        PROVE  \E n \in DOMAIN rest : n > i /\ rest[n].id = r.id
    <3>1. j - 1 \in DOMAIN rest /\ rest[j - 1] = out[j] /\ j - 1 > i
      BY <1>1, <2>1, <2>4
    <3> QED
      BY <2>4, <3>1
  <2> QED
    BY <2>2, <2>3, <2>4
<1> QED
  BY <1>2, <1>3, <1>4, <1>6, <1>7, <1>8 DEF Wire, rest

LEMMA ReadRest ==
  ASSUME NEW R, NEW in, NEW out \in Seq(Said), out # <<>>
  PROVE  /\ \A act : /\ NoneForgotten(R, in, out, act)
                     /\ \A r \in R : r.id = Head(out).id =>
                          Awaits(r, in, Tail(out)) \/ Passed(r, act) \/ RefusedScan(r)
                     => NoneForgotten(R, in, Tail(out), act)
         /\ \A scan : OneScan(R, in, out, scan) => OneScan(R, in, Tail(out), scan)
         /\ \A root : SameRoot(R, in, out, root) => SameRoot(R, in, Tail(out), root)
<1> DEFINE rest == Tail(out)
<1>1. /\ \A i \in DOMAIN rest : rest[i] = out[i + 1] /\ i + 1 \in DOMAIN out
      /\ Head(out) = out[1]
      /\ \A i \in DOMAIN out : i = 1 \/ (i - 1 \in DOMAIN rest /\ rest[i - 1] = out[i])
  BY Shortened
<1> HIDE DEF rest
<1>2. \A r \in R : Awaits(r, in, rest) => Awaits(r, in, out)
  BY <1>1 DEF Awaits
<1>3. \A r \in R : Awaits(r, in, out) /\ r.id # Head(out).id => Awaits(r, in, rest)
  <2> SUFFICES ASSUME NEW r \in R, Awaits(r, in, out), r.id # Head(out).id
      PROVE  Awaits(r, in, rest)
    OBVIOUS
  <2>1. CASE \E i \in DOMAIN out : out[i].id = r.id
    BY <1>1, <2>1 DEF Awaits
  <2> QED
    BY <2>1 DEF Awaits
<1>4. \A act : /\ NoneForgotten(R, in, out, act)
               /\ \A r \in R : r.id = Head(out).id =>
                    Awaits(r, in, rest) \/ Passed(r, act) \/ RefusedScan(r)
               => NoneForgotten(R, in, rest, act)
  BY <1>3 DEF NoneForgotten
<1>5. \A scan : OneScan(R, in, out, scan) => OneScan(R, in, rest, scan)
  BY <1>2 DEF OneScan
<1>6. \A root : SameRoot(R, in, out, root) => SameRoot(R, in, rest, root)
  BY <1>1 DEF SameRoot
<1> QED
  BY <1>4, <1>5, <1>6 DEF rest

-----------------------------------------------------------------------------
(* The steps of the broker.                                                *)

WireKept ==
  /\ Wire(panel.requests, stdin, stdout)'
  /\ \A act : NoneForgotten(panel.requests, stdin, stdout, act) =>
       NoneForgotten(panel.requests, stdin, stdout, act)'
  /\ \A scan : OneScan(panel.requests, stdin, stdout, scan) =>
       OneScan(panel.requests, stdin, stdout, scan)'
  /\ \A root : SameRoot(panel.requests, stdin, stdout, root) =>
       SameRoot(panel.requests, stdin, stdout, root)'

SameScan == /\ staging' = None <=> staging = None
            /\ staging # None => /\ staging'.id = staging.id
                                 /\ staging'.gen = staging.gen
                                 /\ staging'.root = staging.root

LEMMA AnswerTypes ==
  /\ AnsweredBy("ready") = {"hello"}
  /\ AnsweredBy("snapshotAvailable") = {"snapshotOpen"}
  /\ AnsweredBy("snapshotMissing") = {"snapshotOpen"}
  /\ AnsweredBy("scanStarted") = {"scanStart"}
  /\ AnsweredBy("snapshotActivated") = {"scanStart"}
  /\ AnsweredBy("scanFailed") = {"scanStart"}
  /\ AnsweredBy("scanCancelRequested") = {"scanCancel"}
  /\ AnsweredBy("activationCommitted") = {"activationCommit"}
  /\ AnsweredBy("activationAborted") = {"activationAbort"}
  /\ AnsweredBy("queryResult") = {"metadata", "children"}
  /\ AnsweredBy("error") = Op
BY DEF AnsweredBy

\* The broker answers a request at once.
Answers(line) ==
  /\ stdin # <<>> /\ stdin' = Tail(stdin) /\ stdout' = Append(stdout, line)
  /\ line \in Said /\ line.id = Head(stdin).id
  /\ Head(stdin).op \in AnsweredBy(line.type)
  /\ line.type \notin Over \cup {"scanStarted", "queryResult"}
  /\ line.type = "activationCommitted" => line.gen = Head(stdin).gen
  /\ line.type = "snapshotAvailable" => line.root = Head(stdin).root
  /\ SameScan /\ UNCHANGED <<queries, outcomes>>

LEMMA AnswersKept ==
  ASSUME Typed, NEW line, Answers(line), panel' = panel, serving' => serving,
         Wire(panel.requests, stdin, stdout)
  PROVE  WireKept
<1> DEFINE R == panel.requests
           n == Len(stdout) + 1
<1>0. \A i \in DOMAIN stdin' : i \in Nat /\ i >= 1
  BY Shortened DEF Typed, Answers
<1>1. /\ \A i \in DOMAIN stdin' : stdin'[i] = stdin[i + 1] /\ i + 1 \in DOMAIN stdin
      /\ Head(stdin) = stdin[1] /\ 1 \in DOMAIN stdin
      /\ \A i \in DOMAIN stdin : i = 1 \/ (i - 1 \in DOMAIN stdin'
                                           /\ stdin'[i - 1] = stdin[i])
      /\ DOMAIN stdin \subseteq Nat /\ DOMAIN stdin' \subseteq Nat
  BY Shortened DEF Typed, Answers
<1>2. /\ \A i \in DOMAIN stdout' : stdout'[i] = IF i = n THEN line ELSE stdout[i]
      /\ \A i \in DOMAIN stdout' : i = n \/ i \in DOMAIN stdout
      /\ n \in DOMAIN stdout' /\ n \notin DOMAIN stdout /\ n \in Nat
      /\ DOMAIN stdout \subseteq DOMAIN stdout' /\ Len(stdout') = n
      /\ DOMAIN stdout \subseteq Nat /\ \A i \in DOMAIN stdout : i < n
  BY Appended DEF Typed, Answers
<1>3. /\ line.id = stdin[1].id /\ stdin[1].op \in AnsweredBy(line.type)
      /\ line.type \notin Over \cup {"scanStarted", "queryResult"}
      /\ line.type = "activationCommitted" => line.gen = stdin[1].gen
      /\ line.type = "snapshotAvailable" => line.root = stdin[1].root
      /\ queries' = queries /\ outcomes' = outcomes /\ R' = R
  BY <1>1 DEF Answers
<1>4. /\ \A id : Runs(id)' <=> Runs(id)
      /\ \A id : Runs(id) => staging'.gen = staging.gen /\ staging'.root = staging.root
  BY DEF Answers, SameScan, Runs
<1> HIDE DEF R, n
<1>5. Apart(R, stdin, stdout)'
  <2>1. /\ \A r, s \in R : r.id = s.id => r = s
        /\ \A i, j \in DOMAIN stdin : stdin[i].id = stdin[j].id => i = j
        /\ \A i \in DOMAIN stdin :
             /\ \A j \in DOMAIN stdout : stdout[j].id # stdin[i].id
             /\ \A j \in DOMAIN queries : queries[j].id # stdin[i].id
             /\ \A o \in outcomes : o.id # stdin[i].id
             /\ ~Runs(stdin[i].id)
    BY DEF Wire, Apart, R
  <2>2. \A i, j \in DOMAIN stdin' : stdin'[i].id = stdin'[j].id => i = j
    <3> SUFFICES ASSUME NEW i \in DOMAIN stdin', NEW j \in DOMAIN stdin',
                        stdin'[i].id = stdin'[j].id
        PROVE  i = j
      OBVIOUS
    <3>1. i + 1 = j + 1
      BY <1>1, <2>1
    <3> QED
      BY <1>1, <3>1
  <2>3. ASSUME NEW i \in DOMAIN stdin' PROVE stdin'[i].id # line.id
    <3>1. i + 1 # 1
      BY <1>0
    <3> QED
      BY <1>1, <1>3, <2>1, <3>1
  <2>4. ASSUME NEW i \in DOMAIN stdin', NEW j \in DOMAIN stdout'
        PROVE  stdout'[j].id # stdin'[i].id
    <3>1. CASE j = n
      BY <1>2, <2>3, <3>1
    <3>2. CASE j \in DOMAIN stdout /\ j # n
      BY <1>1, <1>2, <2>1, <3>2
    <3> QED
      BY <1>2, <3>1, <3>2
  <2>5. ASSUME NEW i \in DOMAIN stdin'
        PROVE  /\ \A j \in DOMAIN queries' : queries'[j].id # stdin'[i].id
               /\ \A o \in outcomes' : o.id # stdin'[i].id
    BY <1>1, <1>3, <2>1
  <2>6. ASSUME NEW i \in DOMAIN stdin', NEW id, id = stdin'[i].id
        PROVE  ~Runs(id)'
    <3>1. i + 1 \in DOMAIN stdin /\ stdin'[i] = stdin[i + 1]
      BY <1>1
    <3>2. ~Runs(stdin[i + 1].id)
      BY <2>1, <3>1
    <3> QED
      BY <1>4, <2>6, <3>1, <3>2
  <2>7. \A r, s \in R' : r.id = s.id => r = s
    BY <1>3, <2>1
  <2> QED
    BY <2>2, <2>4, <2>5, <2>6, <2>7 DEF Apart, Runs
<1>6. Matched(R, stdin, stdout)'
  <2>1. Matched(R, stdin, stdout)
    BY DEF Wire, R
  <2> QED
    BY <1>1, <1>2, <1>3, <1>4, <2>1 DEF Matched
<1>7. ScansNamed(stdout)'
  BY <1>2, <1>3 DEF Wire, ScansNamed
<1>8. ASSUME NEW r, NEW g, NEW k \in Nat, NEW m \in Nat, k <= m, Told(r, g, k, stdout)
      PROVE  Told(r, g, m, stdout')
  BY <1>2, <1>8 DEF Told
<1>9. Ended(R, stdout)'
  <2>1. Ended(R, stdout)
    BY DEF Wire, R
  <2> SUFFICES ASSUME NEW r \in R, r.op = "scanStart"
      PROVE  /\ \A i \in DOMAIN stdout' :
                  stdout'[i].id = r.id /\ stdout'[i].type \in Over
                    => Told(r, stdout'[i].gen, i, stdout')
             /\ Runs(r.id)' => Told(r, staging'.gen, Len(stdout') + 1, stdout')
             /\ \A o \in outcomes' : o.id = r.id => Told(r, o.gen, Len(stdout') + 1, stdout')
    BY <1>3 DEF Ended, Told
  <2>2. ASSUME NEW i \in DOMAIN stdout', stdout'[i].id = r.id, stdout'[i].type \in Over
        PROVE  Told(r, stdout'[i].gen, i, stdout')
    <3>1. i # n
      BY <1>2, <1>3, <2>2
    <3>2. i \in DOMAIN stdout /\ i \in Nat /\ stdout'[i] = stdout[i]
      BY <1>2, <3>1
    <3> QED
      BY <1>8, <2>1, <2>2, <3>2 DEF Ended
  <2>3. ASSUME NEW g, Told(r, g, n, stdout) PROVE Told(r, g, Len(stdout') + 1, stdout')
    BY <1>2, <1>8, <2>3
  <2> QED
    BY <1>3, <1>4, <2>1, <2>2, <2>3 DEF Ended, n
<1>10. RefusedAlone(R, stdout)'
  <2> SUFFICES ASSUME NEW r \in R, r.op = "scanStart",
                      NEW i \in DOMAIN stdout', stdout'[i].id = r.id,
                      stdout'[i].type = "error"
      PROVE  /\ r.gen = None
             /\ \A j \in DOMAIN stdout' : stdout'[j].id = r.id => j = i
             /\ \A o \in outcomes' : o.id # r.id
             /\ ~Runs(r.id)'
    BY <1>3 DEF RefusedAlone
  <2>1. CASE i = n
    <3>1. stdin[1].id = r.id
      BY <1>2, <1>3, <2>1
    <3>2. r.gen = None
      BY <1>1, <3>1 DEF Wire, Matched, R
    <3> QED
      BY <1>1, <1>2, <1>3, <1>4, <2>1, <3>1, <3>2 DEF Wire, Apart
  <2>2. CASE i # n
    <3>1. i \in DOMAIN stdout /\ stdout'[i] = stdout[i]
      BY <1>2, <2>2
    <3>2. line.id # r.id
      BY <1>1, <1>3, <3>1 DEF Wire, Apart
    <3> QED
      BY <1>2, <1>3, <1>4, <3>1, <3>2 DEF Wire, RefusedAlone, R
  <2> QED
    BY <2>1, <2>2
<1>11. Started(R, stdout)'
  <2> SUFFICES ASSUME NEW r \in R, r.op = "scanStart",
                      NEW i \in DOMAIN stdout', stdout'[i].id = r.id,
                      stdout'[i].type = "scanStarted"
      PROVE  /\ Runs(r.id)' => staging'.gen = stdout'[i].gen
             /\ \A o \in outcomes' : o.id = r.id => o.gen = stdout'[i].gen
             /\ \A j \in DOMAIN stdout' : stdout'[j].id = r.id /\ stdout'[j].type \in Over =>
                  stdout'[j].gen = stdout'[i].gen
             /\ \/ Runs(r.id)'
                \/ \E o \in outcomes' : o.id = r.id
                \/ \E j \in DOMAIN stdout' : j > i /\ stdout'[j].id = r.id
    BY <1>3 DEF Started
  <2>1. i \in DOMAIN stdout /\ stdout'[i] = stdout[i]
    BY <1>2, <1>3
  <2>2. Started(R, stdout)
    BY DEF Wire, R
  <2>3. /\ Runs(r.id) => staging.gen = stdout[i].gen
        /\ \A o \in outcomes : o.id = r.id => o.gen = stdout[i].gen
        /\ \A j \in DOMAIN stdout : stdout[j].id = r.id /\ stdout[j].type \in Over =>
             stdout[j].gen = stdout[i].gen
        /\ \/ Runs(r.id)
           \/ \E o \in outcomes : o.id = r.id
           \/ \E j \in DOMAIN stdout : j > i /\ stdout[j].id = r.id
    BY <2>1, <2>2 DEF Started
  <2>4. ASSUME NEW j \in DOMAIN stdout', stdout'[j].id = r.id, stdout'[j].type \in Over
        PROVE  stdout'[j].gen = stdout'[i].gen
    <3>1. j \in DOMAIN stdout /\ stdout'[j] = stdout[j]
      BY <1>2, <1>3, <2>4
    <3> QED
      BY <2>1, <2>3, <2>4, <3>1
  <2>5. ASSUME NEW j \in DOMAIN stdout, j > i, stdout[j].id = r.id
        PROVE  \E k \in DOMAIN stdout' : k > i /\ stdout'[k].id = r.id
    <3>1. j \in DOMAIN stdout' /\ stdout'[j] = stdout[j]
      BY <1>2
    <3> QED
      BY <2>5, <3>1
  <2> QED
    BY <1>3, <1>4, <2>1, <2>3, <2>4, <2>5
<1>12. \A r \in R : Awaits(r, stdin, stdout)' <=> Awaits(r, stdin, stdout)
  <2> SUFFICES ASSUME NEW r \in R
      PROVE  Awaits(r, stdin, stdout)' <=> Awaits(r, stdin, stdout)
    OBVIOUS
  <2>1. (\E i \in DOMAIN stdin : stdin[i].id = r.id)
          <=> (\E i \in DOMAIN stdin' : stdin'[i].id = r.id) \/ line.id = r.id
    <3>1. stdin \in Seq(Asked) /\ stdin # <<>>
      BY DEF Typed, Answers
    <3>2. \A id : (\E i \in DOMAIN stdin : stdin[i].id = id)
            <=> \/ \E i \in DOMAIN Tail(stdin) : Tail(stdin)[i].id = id
                \/ stdin[1].id = id
      BY <3>1, HeadOrTail
    <3>3. stdin' = Tail(stdin)
      BY DEF Answers
    <3> QED
      BY <1>3, <3>2, <3>3
  <2>2. (\E i \in DOMAIN stdout' : stdout'[i].id = r.id)
          <=> (\E i \in DOMAIN stdout : stdout[i].id = r.id) \/ line.id = r.id
    BY <1>2
  <2> QED
    BY <1>3, <1>4, <2>1, <2>2 DEF Awaits
<1> QED
  <2>1. \A act : NoneForgotten(R, stdin, stdout, act) => NoneForgotten(R, stdin, stdout, act)'
    BY <1>3, <1>12 DEF NoneForgotten
  <2>2. \A scan : OneScan(R, stdin, stdout, scan) => OneScan(R, stdin, stdout, scan)'
    BY <1>3, <1>12 DEF OneScan
  <2>3. \A root : SameRoot(R, stdin, stdout, root) => SameRoot(R, stdin, stdout, root)'
    <3> SUFFICES ASSUME NEW root, SameRoot(R, stdin, stdout, root), NEW r \in R
        PROVE  /\ \A i \in DOMAIN stdin' : stdin'[i].id = r.id
                    /\ r.op \in {"snapshotOpen", "scanStart"} => stdin'[i].root = root
               /\ \A i \in DOMAIN stdout' : stdout'[i].id = r.id
                    /\ stdout'[i].type \in {"snapshotAvailable", "snapshotActivated"}
                      => stdout'[i].root = root
      BY <1>3, <1>4 DEF SameRoot
    <3>1. ASSUME line.id = r.id, line.type \in {"snapshotAvailable", "snapshotActivated"}
          PROVE  line.root = root
      <4>1. line.type = "snapshotAvailable"
        BY <1>3, <3>1 DEF Over
      <4>2. stdin[1].op = "snapshotOpen"
        BY <1>3, <4>1, AnswerTypes
      <4>3. r.op = stdin[1].op
        <5>1. Matched(R, stdin, stdout)
          BY DEF Wire, R
        <5>2. 1 \in DOMAIN stdin /\ stdin[1].id = r.id
          BY <1>1, <1>3, <3>1
        <5> QED
          BY <5>1, <5>2 DEF Matched
      <4> QED
        BY <1>1, <1>3, <3>1, <4>1, <4>2, <4>3 DEF SameRoot
    <3> QED
      BY <1>1, <1>2, <3>1 DEF SameRoot
  <2> QED
    BY <1>5, <1>6, <1>7, <1>9, <1>10, <1>11, <2>1, <2>2, <2>3 DEF Wire, R, WireKept

LEMMA ShutdownKept ==
  ASSUME Typed, Shutdown, panel' = panel, Wire(panel.requests, stdin, stdout)
  PROVE  WireKept
<1> DEFINE R == panel.requests
<1>1. /\ \A i \in DOMAIN stdin' : stdin'[i] = stdin[i + 1] /\ i + 1 \in DOMAIN stdin
      /\ \A i \in DOMAIN stdin' : i \in Nat
  BY Shortened DEF Typed, Shutdown, Takes
<1>2. /\ queries' = queries /\ outcomes' = outcomes /\ staging' = staging
      /\ stdout' = stdout /\ R' = R /\ ~serving'
  BY DEF Shutdown, held
<1> HIDE DEF R
<1>3. Apart(R, stdin, stdout)'
  <2>1. Apart(R, stdin, stdout)
    BY DEF Wire, R
  <2>2. \A i, j \in DOMAIN stdin' : stdin'[i].id = stdin'[j].id => i = j
    <3> SUFFICES ASSUME NEW i \in DOMAIN stdin', NEW j \in DOMAIN stdin',
                        stdin'[i].id = stdin'[j].id
        PROVE  i = j
      OBVIOUS
    <3>1. i + 1 = j + 1
      BY <1>1, <2>1 DEF Apart
    <3> QED
      BY <1>1, <3>1
  <2> QED
    BY <1>1, <1>2, <2>1, <2>2 DEF Apart, Runs
<1>4. Matched(R, stdin, stdout)'
  <2>1. Matched(R, stdin, stdout)
    BY DEF Wire, R
  <2> QED
    BY <1>1, <1>2, <2>1 DEF Matched, Runs
<1>5. (ScansNamed(stdout) /\ Ended(R, stdout) /\ RefusedAlone(R, stdout) /\ Started(R, stdout))'
  BY <1>2 DEF Wire, ScansNamed, Ended, RefusedAlone, Started, Runs, Told, R
<1>6. \A scan : OneScan(R, stdin, stdout, scan) => OneScan(R, stdin, stdout, scan)'
  BY <1>1, <1>2 DEF OneScan, Awaits, Runs
<1>7. \A root : SameRoot(R, stdin, stdout, root) => SameRoot(R, stdin, stdout, root)'
  BY <1>1, <1>2 DEF SameRoot, Runs
<1>8. \A act : NoneForgotten(R, stdin, stdout, act)'
  BY <1>2 DEF NoneForgotten
<1> QED
  BY <1>3, <1>4, <1>5, <1>6, <1>7, <1>8 DEF Wire, WireKept, R

\* A query is put into the queue.
LEMMA QueuedKept ==
  ASSUME Typed, stdin # <<>>, stdin' = Tail(stdin),
         Head(stdin).op \in {"metadata", "children"},
         queries' = Append(queries, [id |-> Head(stdin).id, gen |-> Head(stdin).gen]),
         UNCHANGED <<outcomes, staging, stdout, panel, serving>>,
         Wire(panel.requests, stdin, stdout)
  PROVE  WireKept
<1> DEFINE R == panel.requests
           n == Len(queries) + 1
<1>0. \A i \in DOMAIN stdin' : i \in Nat /\ i >= 1
  BY Shortened DEF Typed
<1>1. /\ \A i \in DOMAIN stdin' : stdin'[i] = stdin[i + 1] /\ i + 1 \in DOMAIN stdin
      /\ \A i \in DOMAIN stdin' : i \in Nat
      /\ Head(stdin) = stdin[1] /\ 1 \in DOMAIN stdin /\ stdin[1] \in Asked
      /\ \A i \in DOMAIN stdin : i = 1 \/ (i - 1 \in DOMAIN stdin'
                                           /\ stdin'[i - 1] = stdin[i])
  BY Shortened DEF Typed
<1>2. [id |-> stdin[1].id, gen |-> stdin[1].gen] \in Queued
  BY <1>1 DEF Queued, Asked
<1>3. /\ \A i \in DOMAIN queries' : i = n \/ i \in DOMAIN queries
      /\ \A i \in DOMAIN queries' : queries'[i] =
           IF i = n THEN [id |-> stdin[1].id, gen |-> stdin[1].gen] ELSE queries[i]
      /\ n \in DOMAIN queries' /\ DOMAIN queries \subseteq DOMAIN queries'
      /\ n \notin DOMAIN queries
  <2>1. queries \in Seq(Queued)
    BY DEF Typed, ServiceTyped
  <2>2. queries' = Append(queries, [id |-> stdin[1].id, gen |-> stdin[1].gen])
    BY <1>1
  <2> QED
    BY <1>2, <2>1, <2>2, Appended
<1>4. /\ outcomes' = outcomes /\ staging' = staging /\ stdout' = stdout /\ R' = R
      /\ stdin[1].op \in {"metadata", "children"} /\ serving' = serving
  BY <1>1
<1> HIDE DEF R, n
<1>5. Apart(R, stdin, stdout)'
  <2>1. Apart(R, stdin, stdout)
    BY DEF Wire, R
  <2>2. \A i, j \in DOMAIN stdin' : stdin'[i].id = stdin'[j].id => i = j
    <3> SUFFICES ASSUME NEW i \in DOMAIN stdin', NEW j \in DOMAIN stdin',
                        stdin'[i].id = stdin'[j].id
        PROVE  i = j
      OBVIOUS
    <3>1. i + 1 = j + 1
      BY <1>1, <2>1 DEF Apart
    <3> QED
      BY <1>1, <3>1
  <2>3. ASSUME NEW i \in DOMAIN stdin' PROVE stdin'[i].id # stdin[1].id
    <3>1. i + 1 # 1
      BY <1>0
    <3> QED
      BY <1>1, <2>1, <3>1 DEF Apart
  <2> QED
    BY <1>1, <1>3, <1>4, <2>1, <2>2, <2>3 DEF Apart, Runs
<1>6. Matched(R, stdin, stdout)'
  <2>1. Matched(R, stdin, stdout)
    BY DEF Wire, R
  <2> QED
    BY <1>1, <1>3, <1>4, <2>1 DEF Matched, Runs
<1>7. (ScansNamed(stdout) /\ Ended(R, stdout) /\ RefusedAlone(R, stdout) /\ Started(R, stdout))'
  BY <1>4 DEF Wire, ScansNamed, Ended, RefusedAlone, Started, Runs, Told, R
<1>8. \A r \in R : Awaits(r, stdin, stdout)' <=> Awaits(r, stdin, stdout)
  <2> SUFFICES ASSUME NEW r \in R
      PROVE  Awaits(r, stdin, stdout)' <=> Awaits(r, stdin, stdout)
    OBVIOUS
  <2>1. (\E i \in DOMAIN stdin : stdin[i].id = r.id)
          <=> (\E i \in DOMAIN stdin' : stdin'[i].id = r.id) \/ stdin[1].id = r.id
    <3>1. stdin \in Seq(Asked)
      BY DEF Typed
    <3>2. \A id : (\E i \in DOMAIN stdin : stdin[i].id = id)
            <=> \/ \E i \in DOMAIN Tail(stdin) : Tail(stdin)[i].id = id
                \/ stdin[1].id = id
      BY <3>1, HeadOrTail
    <3> QED
      BY <3>2
  <2>2. (\E i \in DOMAIN queries' : queries'[i].id = r.id)
          <=> (\E i \in DOMAIN queries : queries[i].id = r.id) \/ stdin[1].id = r.id
    BY <1>3
  <2> QED
    BY <1>4, <2>1, <2>2 DEF Awaits, Runs
<1> QED
  <2>1. \A act : NoneForgotten(R, stdin, stdout, act) => NoneForgotten(R, stdin, stdout, act)'
    BY <1>4, <1>8 DEF NoneForgotten
  <2>2. \A scan : OneScan(R, stdin, stdout, scan) => OneScan(R, stdin, stdout, scan)'
    BY <1>4, <1>8 DEF OneScan
  <2>3. \A root : SameRoot(R, stdin, stdout, root) => SameRoot(R, stdin, stdout, root)'
    BY <1>1, <1>4 DEF SameRoot, Runs
  <2> QED
    BY <1>5, <1>6, <1>7, <2>1, <2>2, <2>3 DEF Wire, R, WireKept

\* The scan a request asks for begins, and the broker says so.
LEMMA ScanBegins ==
  ASSUME Typed, Wire(panel.requests, stdin, stdout), panel' = panel,
         stdin # <<>>, stdin' = Tail(stdin), Head(stdin).op = "scanStart",
         NEW line, line \in Said, stdout' = Append(stdout, line),
         line.id = Head(stdin).id, line.type = "scanStarted", line.gen \in Nat,
         staging = None, staging' # None, staging'.id = line.id,
         staging'.gen = line.gen, staging'.root = Head(stdin).root,
         UNCHANGED <<queries, outcomes, serving>>
  PROVE  WireKept
<1> DEFINE R == panel.requests
           n == Len(stdout) + 1
<1>0. \A i \in DOMAIN stdin' : i \in Nat /\ i >= 1
  BY Shortened DEF Typed
<1>1. /\ \A i \in DOMAIN stdin' : stdin'[i] = stdin[i + 1] /\ i + 1 \in DOMAIN stdin
      /\ Head(stdin) = stdin[1] /\ 1 \in DOMAIN stdin
  BY Shortened DEF Typed
<1>2. /\ \A i \in DOMAIN stdout' : stdout'[i] = IF i = n THEN line ELSE stdout[i]
      /\ \A i \in DOMAIN stdout' : i = n \/ i \in DOMAIN stdout
      /\ n \in DOMAIN stdout' /\ n \notin DOMAIN stdout /\ n \in Nat
      /\ DOMAIN stdout \subseteq DOMAIN stdout' /\ Len(stdout') = n
      /\ DOMAIN stdout \subseteq Nat /\ \A i \in DOMAIN stdout : i < n
  BY Appended DEF Typed
<1>3. /\ line.id = stdin[1].id /\ stdin[1].op = "scanStart"
      /\ queries' = queries /\ outcomes' = outcomes /\ R' = R /\ serving' = serving
  BY <1>1
<1>4. /\ \A id : ~Runs(id)
      /\ \A id : Runs(id)' <=> id = line.id
  BY DEF Runs
<1> HIDE DEF R, n
<1>a. Apart(R, stdin, stdout)
  BY DEF Wire, R
<1>b. Matched(R, stdin, stdout)
  BY DEF Wire, R
<1>c. /\ \A j \in DOMAIN stdout : stdout[j].id # line.id
      /\ \A o \in outcomes : o.id # line.id
  BY <1>1, <1>3, <1>a DEF Apart
<1>d. \A r \in R : r.id = line.id => r.op = "scanStart" /\ r.gen = None
  BY <1>1, <1>3, <1>b DEF Matched
<1>5. Apart(R, stdin, stdout)'
  <2>1. \A i, j \in DOMAIN stdin' : stdin'[i].id = stdin'[j].id => i = j
    <3> SUFFICES ASSUME NEW i \in DOMAIN stdin', NEW j \in DOMAIN stdin',
                        stdin'[i].id = stdin'[j].id
        PROVE  i = j
      OBVIOUS
    <3>1. i + 1 = j + 1
      BY <1>1, <1>a DEF Apart
    <3> QED
      BY <1>0, <3>1
  <2>2. ASSUME NEW i \in DOMAIN stdin' PROVE stdin'[i].id # line.id
    <3>1. i + 1 # 1
      BY <1>0
    <3> QED
      BY <1>1, <1>3, <1>a, <3>1 DEF Apart
  <2> QED
    BY <1>1, <1>2, <1>3, <1>4, <1>a, <2>1, <2>2 DEF Apart
<1>6. Matched(R, stdin, stdout)'
  <2>1. line.type = "scanStarted" /\ AnsweredBy("scanStarted") = {"scanStart"}
    BY AnswerTypes
  <2> QED
    BY <1>1, <1>2, <1>3, <1>4, <1>b, <1>d, <2>1 DEF Matched
<1>7. ScansNamed(stdout)'
  BY <1>2, <1>3 DEF Wire, ScansNamed
<1>8. ASSUME NEW r, NEW g, NEW k \in Nat, NEW m \in Nat, k <= m, Told(r, g, k, stdout)
      PROVE  Told(r, g, m, stdout')
  BY <1>2, <1>8 DEF Told
<1>9. Ended(R, stdout)'
  <2>1. Ended(R, stdout)
    BY DEF Wire, R
  <2> SUFFICES ASSUME NEW r \in R, r.op = "scanStart"
      PROVE  /\ \A i \in DOMAIN stdout' :
                  stdout'[i].id = r.id /\ stdout'[i].type \in Over
                    => Told(r, stdout'[i].gen, i, stdout')
             /\ Runs(r.id)' => Told(r, staging'.gen, Len(stdout') + 1, stdout')
             /\ \A o \in outcomes' : o.id = r.id => Told(r, o.gen, Len(stdout') + 1, stdout')
    BY <1>3 DEF Ended, Told
  <2>2. ASSUME NEW i \in DOMAIN stdout', stdout'[i].id = r.id, stdout'[i].type \in Over
        PROVE  Told(r, stdout'[i].gen, i, stdout')
    <3>1. i # n
      BY <1>2, <2>2 DEF Over
    <3>2. i \in DOMAIN stdout /\ i \in Nat /\ stdout'[i] = stdout[i]
      BY <1>2, <3>1
    <3> QED
      BY <1>8, <2>1, <2>2, <3>2 DEF Ended
  <2>3. ASSUME NEW g, Told(r, g, n, stdout) PROVE Told(r, g, Len(stdout') + 1, stdout')
    BY <1>2, <1>8, <2>3
  <2>4. ASSUME Runs(r.id)' PROVE Told(r, staging'.gen, Len(stdout') + 1, stdout')
    <3>1. r.id = line.id /\ n < Len(stdout') + 1
      BY <1>2, <1>4, <2>4
    <3> QED
      BY <1>2, <3>1 DEF Told
  <2> QED
    BY <1>3, <2>1, <2>2, <2>3, <2>4 DEF Ended, n
<1>10. RefusedAlone(R, stdout)'
  <2> SUFFICES ASSUME NEW r \in R, r.op = "scanStart",
                      NEW i \in DOMAIN stdout', stdout'[i].id = r.id,
                      stdout'[i].type = "error"
      PROVE  /\ r.gen = None
             /\ \A j \in DOMAIN stdout' : stdout'[j].id = r.id => j = i
             /\ \A o \in outcomes' : o.id # r.id
             /\ ~Runs(r.id)'
    BY <1>3 DEF RefusedAlone
  <2>1. i # n
    BY <1>2
  <2>2. i \in DOMAIN stdout /\ stdout'[i] = stdout[i]
    BY <1>2, <2>1
  <2>3. line.id # r.id
    BY <1>c, <2>2
  <2>4. /\ r.gen = None
        /\ \A j \in DOMAIN stdout : stdout[j].id = r.id => j = i
        /\ \A o \in outcomes : o.id # r.id
        /\ ~Runs(r.id)
    BY <2>2 DEF Wire, RefusedAlone, R
  <2>5. \A j \in DOMAIN stdout' : stdout'[j].id = r.id => j = i
    BY <1>2, <2>3, <2>4
  <2> QED
    BY <1>3, <1>4, <2>3, <2>4, <2>5
<1>11. Started(R, stdout)'
  <2> SUFFICES ASSUME NEW r \in R, r.op = "scanStart",
                      NEW i \in DOMAIN stdout', stdout'[i].id = r.id,
                      stdout'[i].type = "scanStarted"
      PROVE  /\ Runs(r.id)' => staging'.gen = stdout'[i].gen
             /\ \A o \in outcomes' : o.id = r.id => o.gen = stdout'[i].gen
             /\ \A j \in DOMAIN stdout' : stdout'[j].id = r.id /\ stdout'[j].type \in Over =>
                  stdout'[j].gen = stdout'[i].gen
             /\ \/ Runs(r.id)'
                \/ \E o \in outcomes' : o.id = r.id
                \/ \E j \in DOMAIN stdout' : j > i /\ stdout'[j].id = r.id
    BY <1>3, SMTT(30) DEF Started
  <2>1. CASE i = n
    <3>1. r.id = line.id /\ stdout'[i] = line
      BY <1>2, <2>1
    <3>2. ASSUME NEW j \in DOMAIN stdout', stdout'[j].id = r.id, stdout'[j].type \in Over
          PROVE  FALSE
      BY <1>2, <1>c, <3>1, <3>2 DEF Over
    <3> QED
      BY <1>3, <1>4, <1>c, <3>1, <3>2
  <2>2. CASE i # n
    <3>1. i \in DOMAIN stdout /\ stdout'[i] = stdout[i]
      BY <1>2, <2>2
    <3>2. Started(R, stdout)
      BY DEF Wire, R
    <3>3. /\ \A o \in outcomes : o.id = r.id => o.gen = stdout[i].gen
          /\ \A j \in DOMAIN stdout : stdout[j].id = r.id /\ stdout[j].type \in Over =>
               stdout[j].gen = stdout[i].gen
          /\ \/ \E o \in outcomes : o.id = r.id
             \/ \E j \in DOMAIN stdout : j > i /\ stdout[j].id = r.id
      BY <1>4, <3>1, <3>2 DEF Started
    <3>4. r.id # line.id
      BY <1>c, <3>1
    <3>5. ASSUME NEW j \in DOMAIN stdout', stdout'[j].id = r.id, stdout'[j].type \in Over
          PROVE  stdout'[j].gen = stdout'[i].gen
      <4>1. j \in DOMAIN stdout /\ stdout'[j] = stdout[j]
        BY <1>2, <3>4, <3>5
      <4> QED
        BY <3>1, <3>3, <3>5, <4>1
    <3>6. ASSUME NEW j \in DOMAIN stdout, j > i, stdout[j].id = r.id
          PROVE  \E k \in DOMAIN stdout' : k > i /\ stdout'[k].id = r.id
      <4>1. j \in DOMAIN stdout' /\ stdout'[j] = stdout[j]
        BY <1>2
      <4> QED
        BY <3>6, <4>1
    <3> QED
      BY <1>3, <1>4, <3>1, <3>3, <3>4, <3>5, <3>6
  <2> QED
    BY <2>1, <2>2
<1>12. \A r \in R : Awaits(r, stdin, stdout)' <=> Awaits(r, stdin, stdout)
  <2> SUFFICES ASSUME NEW r \in R
      PROVE  Awaits(r, stdin, stdout)' <=> Awaits(r, stdin, stdout)
    OBVIOUS
  <2>1. (\E i \in DOMAIN stdin : stdin[i].id = r.id)
          <=> (\E i \in DOMAIN stdin' : stdin'[i].id = r.id) \/ line.id = r.id
    <3>1. stdin \in Seq(Asked)
      BY DEF Typed
    <3>2. \A id : (\E i \in DOMAIN stdin : stdin[i].id = id)
            <=> \/ \E i \in DOMAIN Tail(stdin) : Tail(stdin)[i].id = id
                \/ stdin[1].id = id
      BY <3>1, HeadOrTail
    <3> QED
      BY <1>3, <3>2
  <2>2. (\E i \in DOMAIN stdout' : stdout'[i].id = r.id)
          <=> (\E i \in DOMAIN stdout : stdout[i].id = r.id) \/ line.id = r.id
    BY <1>2
  <2> QED
    BY <1>3, <1>4, <2>1, <2>2 DEF Awaits
<1> QED
  <2>1. \A act : NoneForgotten(R, stdin, stdout, act) => NoneForgotten(R, stdin, stdout, act)'
    BY <1>3, <1>12 DEF NoneForgotten
  <2>2. \A scan : OneScan(R, stdin, stdout, scan) => OneScan(R, stdin, stdout, scan)'
    BY <1>3, <1>12 DEF OneScan
  <2>3. \A root : SameRoot(R, stdin, stdout, root) => SameRoot(R, stdin, stdout, root)'
    <3> SUFFICES ASSUME NEW root, SameRoot(R, stdin, stdout, root), NEW r \in R
        PROVE  /\ \A i \in DOMAIN stdin' : stdin'[i].id = r.id
                    /\ r.op \in {"snapshotOpen", "scanStart"} => stdin'[i].root = root
               /\ \A i \in DOMAIN stdout' : stdout'[i].id = r.id
                    /\ stdout'[i].type \in {"snapshotAvailable", "snapshotActivated"}
                      => stdout'[i].root = root
               /\ \A o \in outcomes' : o.id = r.id => o.root = root
               /\ (Runs(r.id) => staging.root = root)'
      BY <1>3 DEF SameRoot
    <3>1. ASSUME line.id = r.id PROVE stdin[1].root = root
      BY <1>1, <1>3, <1>d, <3>1 DEF SameRoot
    <3> QED
      BY <1>1, <1>2, <1>3, <1>4, <3>1 DEF SameRoot
  <2> QED
    BY <1>5, <1>6, <1>7, <1>9, <1>10, <1>11, <2>1, <2>2, <2>3 DEF Wire, R, WireKept

\* The scan is over, which is not said yet.
LEMMA ScanSettles ==
  ASSUME Typed, Wire(panel.requests, stdin, stdout), panel' = panel,
         staging # None, staging' = None, NEW o, outcomes' = outcomes \cup {o},
         o.id = staging.id, o.gen = staging.gen, o.root = staging.root,
         o.type \in Over, UNCHANGED <<queries, stdin, stdout, serving>>
  PROVE  WireKept
<1> DEFINE R == panel.requests
<1>1. /\ queries' = queries /\ stdin' = stdin /\ stdout' = stdout /\ R' = R
      /\ serving' = serving
  OBVIOUS
<1>2. /\ \A id : Runs(id) <=> id = o.id
      /\ \A id : ~Runs(id)'
      /\ staging.gen \in Nat
  BY DEF Runs, Typed, ServiceTyped, Scan
<1> HIDE DEF R
<1>3. (Apart(R, stdin, stdout) /\ Matched(R, stdin, stdout) /\ ScansNamed(stdout))'
  <2>1. Apart(R, stdin, stdout) /\ Matched(R, stdin, stdout) /\ ScansNamed(stdout)
    BY DEF Wire, R
  <2>2. Apart(R, stdin, stdout)'
    BY <1>1, <1>2, <2>1 DEF Apart
  <2>3. Matched(R, stdin, stdout)'
    BY <1>1, <1>2, <2>1 DEF Matched
  <2>4. ScansNamed(stdout)'
    BY <1>1, <1>2, <2>1 DEF ScansNamed
  <2> QED
    BY <2>2, <2>3, <2>4
<1>4. Ended(R, stdout)'
  BY <1>1, <1>2 DEF Wire, Ended, Told, R
<1>5. RefusedAlone(R, stdout)'
  BY <1>1, <1>2 DEF Wire, RefusedAlone, R
<1>6. Started(R, stdout)'
  BY <1>1, <1>2 DEF Wire, Started, R
<1>7. \A r \in R : Awaits(r, stdin, stdout)' <=> Awaits(r, stdin, stdout)
  BY <1>1, <1>2 DEF Awaits
<1> QED
  <2>1. \A act : NoneForgotten(R, stdin, stdout, act) => NoneForgotten(R, stdin, stdout, act)'
    BY <1>1, <1>7 DEF NoneForgotten
  <2>2. \A scan : OneScan(R, stdin, stdout, scan) => OneScan(R, stdin, stdout, scan)'
    BY <1>1, <1>7 DEF OneScan
  <2>3. \A root : SameRoot(R, stdin, stdout, root) => SameRoot(R, stdin, stdout, root)'
    BY <1>1, <1>2 DEF SameRoot
  <2> QED
    BY <1>3, <1>4, <1>5, <1>6, <2>1, <2>2, <2>3 DEF Wire, R, WireKept

\* The worker says that the scan is over.
LEMMA ScanReported ==
  ASSUME Typed, Wire(panel.requests, stdin, stdout), panel' = panel,
         NEW o \in outcomes, outcomes' = outcomes \ {o},
         stdout' = Append(stdout, o), UNCHANGED <<queries, stdin, staging, serving>>
  PROVE  WireKept
<1> DEFINE R == panel.requests
           n == Len(stdout) + 1
<1>1. /\ queries' = queries /\ stdin' = stdin /\ R' = R /\ staging' = staging
      /\ serving' = serving
  OBVIOUS
<1>2. /\ \A i \in DOMAIN stdout' : stdout'[i] = IF i = n THEN o ELSE stdout[i]
      /\ \A i \in DOMAIN stdout' : i = n \/ i \in DOMAIN stdout
      /\ n \in DOMAIN stdout' /\ n \notin DOMAIN stdout /\ n \in Nat
      /\ DOMAIN stdout \subseteq DOMAIN stdout' /\ Len(stdout') = n
      /\ DOMAIN stdout \subseteq Nat /\ \A i \in DOMAIN stdout : i < n
  BY Appended DEF Typed, ServiceTyped
<1>3. o.type \in Over /\ o.gen \in Nat
  BY DEF Wire, ScansNamed
<1> HIDE DEF R, n
<1>4. Apart(R, stdin, stdout)'
  BY <1>1, <1>2 DEF Wire, Apart, Runs, R
<1>5. Matched(R, stdin, stdout)'
  <2>1. Matched(R, stdin, stdout)
    BY DEF Wire, R
  <2>2. AnsweredBy(o.type) = {"scanStart"} /\ o.type \notin {"queryResult", "activationCommitted"}
    BY <1>3, AnswerTypes DEF Over
  <2> QED
    BY <1>1, <1>2, <2>1, <2>2 DEF Matched, Runs
<1>6. ScansNamed(stdout)'
  BY <1>2, <1>3 DEF Wire, ScansNamed
<1>7. ASSUME NEW r, NEW g, NEW k \in Nat, NEW m \in Nat, k <= m, Told(r, g, k, stdout)
      PROVE  Told(r, g, m, stdout')
  BY <1>2, <1>7 DEF Told
<1>8. Ended(R, stdout)'
  <2>1. Ended(R, stdout)
    BY DEF Wire, R
  <2> SUFFICES ASSUME NEW r \in R, r.op = "scanStart"
      PROVE  /\ \A i \in DOMAIN stdout' :
                  stdout'[i].id = r.id /\ stdout'[i].type \in Over
                    => Told(r, stdout'[i].gen, i, stdout')
             /\ Runs(r.id) => Told(r, staging.gen, Len(stdout') + 1, stdout')
             /\ \A q \in outcomes' : q.id = r.id => Told(r, q.gen, Len(stdout') + 1, stdout')
    BY <1>1 DEF Ended, Told, Runs
  <2>2. ASSUME NEW i \in DOMAIN stdout', stdout'[i].id = r.id, stdout'[i].type \in Over
        PROVE  Told(r, stdout'[i].gen, i, stdout')
    <3>1. CASE i = n
      <4>1. Told(r, o.gen, n, stdout)
        BY <1>2, <2>1, <2>2, <3>1 DEF Ended, n
      <4> QED
        BY <1>2, <1>7, <3>1, <4>1
    <3>2. CASE i # n
      <4>1. i \in DOMAIN stdout /\ i \in Nat /\ stdout'[i] = stdout[i]
        BY <1>2, <3>2
      <4> QED
        BY <1>7, <2>1, <2>2, <4>1 DEF Ended
    <3> QED
      BY <3>1, <3>2
  <2>3. ASSUME NEW g, Told(r, g, n, stdout) PROVE Told(r, g, Len(stdout') + 1, stdout')
    BY <1>2, <1>7, <2>3
  <2> QED
    BY <1>1, <2>1, <2>2, <2>3 DEF Ended, n
<1>9. RefusedAlone(R, stdout)'
  <2> SUFFICES ASSUME NEW r \in R, r.op = "scanStart",
                      NEW i \in DOMAIN stdout', stdout'[i].id = r.id,
                      stdout'[i].type = "error"
      PROVE  /\ r.gen = None
             /\ \A j \in DOMAIN stdout' : stdout'[j].id = r.id => j = i
             /\ \A q \in outcomes' : q.id # r.id
             /\ ~Runs(r.id)
    BY <1>1 DEF RefusedAlone, Runs
  <2>1. i # n
    BY <1>2, <1>3 DEF Over
  <2>2. i \in DOMAIN stdout /\ stdout'[i] = stdout[i]
    BY <1>2, <2>1
  <2> QED
    BY <1>1, <1>2, <2>2 DEF Wire, RefusedAlone, R
<1>10. Started(R, stdout)'
  <2> SUFFICES ASSUME NEW r \in R, r.op = "scanStart",
                      NEW i \in DOMAIN stdout', stdout'[i].id = r.id,
                      stdout'[i].type = "scanStarted"
      PROVE  /\ Runs(r.id) => staging.gen = stdout'[i].gen
             /\ \A q \in outcomes' : q.id = r.id => q.gen = stdout'[i].gen
             /\ \A j \in DOMAIN stdout' : stdout'[j].id = r.id /\ stdout'[j].type \in Over =>
                  stdout'[j].gen = stdout'[i].gen
             /\ \/ Runs(r.id)
                \/ \E q \in outcomes' : q.id = r.id
                \/ \E j \in DOMAIN stdout' : j > i /\ stdout'[j].id = r.id
    BY <1>1 DEF Started, Runs
  <2>1. i \in DOMAIN stdout /\ stdout'[i] = stdout[i] /\ i < n
    BY <1>2, <1>3 DEF Over
  <2>2. Started(R, stdout)
    BY DEF Wire, R
  <2>3. /\ Runs(r.id) => staging.gen = stdout[i].gen
        /\ \A q \in outcomes : q.id = r.id => q.gen = stdout[i].gen
        /\ \A j \in DOMAIN stdout : stdout[j].id = r.id /\ stdout[j].type \in Over =>
             stdout[j].gen = stdout[i].gen
        /\ \/ Runs(r.id)
           \/ \E q \in outcomes : q.id = r.id
           \/ \E j \in DOMAIN stdout : j > i /\ stdout[j].id = r.id
    BY <2>1, <2>2 DEF Started
  <2>4. ASSUME NEW j \in DOMAIN stdout', stdout'[j].id = r.id, stdout'[j].type \in Over
        PROVE  stdout'[j].gen = stdout'[i].gen
    <3>1. CASE j = n
      BY <1>2, <2>1, <2>3, <2>4, <3>1
    <3>2. CASE j # n
      <4>1. j \in DOMAIN stdout /\ stdout'[j] = stdout[j]
        BY <1>2, <3>2
      <4> QED
        BY <2>1, <2>3, <2>4, <4>1
    <3> QED
      BY <3>1, <3>2
  <2>5. ASSUME NEW j \in DOMAIN stdout, j > i, stdout[j].id = r.id
        PROVE  \E k \in DOMAIN stdout' : k > i /\ stdout'[k].id = r.id
    <3>1. j \in DOMAIN stdout' /\ stdout'[j] = stdout[j]
      BY <1>2
    <3> QED
      BY <2>5, <3>1
  <2>6. ASSUME NEW q \in outcomes, q.id = r.id
        PROVE  \/ \E p \in outcomes' : p.id = r.id
               \/ \E k \in DOMAIN stdout' : k > i /\ stdout'[k].id = r.id
    <3>1. CASE q = o
      <4>1. n > i /\ stdout'[n] = o
        BY <1>2, <2>1
      <4> QED
        BY <1>2, <2>6, <3>1, <4>1
    <3>2. CASE q # o
      BY <2>6, <3>2
    <3> QED
      BY <3>1, <3>2
  <2> QED
    BY <2>1, <2>3, <2>4, <2>5, <2>6
<1>11. \A r \in R : Awaits(r, stdin, stdout)' <=> Awaits(r, stdin, stdout)
  <2> SUFFICES ASSUME NEW r \in R
      PROVE  Awaits(r, stdin, stdout)' <=> Awaits(r, stdin, stdout)
    OBVIOUS
  <2>1. (\E i \in DOMAIN stdout' : stdout'[i].id = r.id)
          <=> (\E i \in DOMAIN stdout : stdout[i].id = r.id) \/ o.id = r.id
    BY <1>2
  <2>2. (\E q \in outcomes : q.id = r.id) <=> (\E q \in outcomes' : q.id = r.id) \/ o.id = r.id
    OBVIOUS
  <2> QED
    BY <1>1, <2>1, <2>2 DEF Awaits, Runs
<1> QED
  <2>1. \A act : NoneForgotten(R, stdin, stdout, act) => NoneForgotten(R, stdin, stdout, act)'
    BY <1>1, <1>11 DEF NoneForgotten
  <2>2. \A scan : OneScan(R, stdin, stdout, scan) => OneScan(R, stdin, stdout, scan)'
    BY <1>1, <1>11 DEF OneScan
  <2>3. \A root : SameRoot(R, stdin, stdout, root) => SameRoot(R, stdin, stdout, root)'
    BY <1>1, <1>2 DEF SameRoot, Runs
  <2> QED
    BY <1>4, <1>5, <1>6, <1>8, <1>9, <1>10, <2>1, <2>2, <2>3 DEF Wire, R, WireKept

LEMMA QueryKept ==
  ASSUME Typed, Wire(panel.requests, stdin, stdout), panel' = panel,
         queries # <<>>, queries' = Tail(queries), NEW line, line \in Said,
         line.id = Head(queries).id, line.type \in {"queryResult", "error"},
         line.type = "queryResult" => line.gen = Head(queries).gen,
         stdout' = Append(stdout, line),
         UNCHANGED <<outcomes, stdin, staging, serving>>
  PROVE  WireKept
<1> DEFINE R == panel.requests
           n == Len(stdout) + 1
<1>1. /\ outcomes' = outcomes /\ stdin' = stdin /\ R' = R /\ staging' = staging
      /\ serving' = serving
  OBVIOUS
<1>2. /\ \A i \in DOMAIN stdout' : stdout'[i] = IF i = n THEN line ELSE stdout[i]
      /\ \A i \in DOMAIN stdout' : i = n \/ i \in DOMAIN stdout
      /\ n \in DOMAIN stdout' /\ n \notin DOMAIN stdout /\ n \in Nat
      /\ DOMAIN stdout \subseteq DOMAIN stdout' /\ Len(stdout') = n
      /\ DOMAIN stdout \subseteq Nat /\ \A i \in DOMAIN stdout : i < n
  BY Appended DEF Typed, ServiceTyped
<1>3. /\ \A i \in DOMAIN queries' : queries'[i] = queries[i + 1] /\ i + 1 \in DOMAIN queries
      /\ Head(queries) = queries[1] /\ 1 \in DOMAIN queries
      /\ \A i \in DOMAIN queries : i = 1 \/ (i - 1 \in DOMAIN queries'
                                             /\ queries'[i - 1] = queries[i])
  BY Shortened DEF Typed, ServiceTyped
<1>4. line.id = queries[1].id /\ (line.type = "queryResult" => line.gen = queries[1].gen)
  BY <1>3
<1> HIDE DEF R, n
<1>a. Apart(R, stdin, stdout) /\ Matched(R, stdin, stdout)
  BY DEF Wire, R
<1>b. \A r \in R : r.id = line.id => r.op \in {"metadata", "children"} /\ queries[1].gen = r.gen
  BY <1>3, <1>4, <1>a DEF Matched
<1>5. Apart(R, stdin, stdout)'
  BY <1>1, <1>2, <1>3, <1>4, <1>a DEF Apart, Runs
<1>6. Matched(R, stdin, stdout)'
  <2>1. ASSUME NEW r \in R, r.id = line.id
        PROVE  /\ r.op \in AnsweredBy(line.type)
               /\ line.type \in {"queryResult", "activationCommitted"} => line.gen = r.gen
    <3>1. r \in R /\ R' = R
      BY <1>1
    <3>2. CASE line.type = "queryResult"
      BY <1>4, <1>b, <2>1, <3>2, AnswerTypes
    <3>3. CASE line.type = "error"
      BY <1>b, <2>1, <3>3, AnswerTypes DEF Op
    <3> QED
      BY <3>2, <3>3
  <2> QED
    BY <1>1, <1>2, <1>3, <1>a, <2>1 DEF Matched, Runs
<1>6a. ScansNamed(stdout)'
  BY <1>1, <1>2 DEF Wire, ScansNamed, Over
<1>7. ASSUME NEW r, NEW g, NEW k \in Nat, NEW m \in Nat, k <= m, Told(r, g, k, stdout)
      PROVE  Told(r, g, m, stdout')
  BY <1>2, <1>7 DEF Told
<1>8. Ended(R, stdout)'
  <2>1. Ended(R, stdout)
    BY DEF Wire, R
  <2> SUFFICES ASSUME NEW r \in R, r.op = "scanStart"
      PROVE  /\ \A i \in DOMAIN stdout' :
                  stdout'[i].id = r.id /\ stdout'[i].type \in Over
                    => Told(r, stdout'[i].gen, i, stdout')
             /\ Runs(r.id) => Told(r, staging.gen, Len(stdout') + 1, stdout')
             /\ \A q \in outcomes : q.id = r.id => Told(r, q.gen, Len(stdout') + 1, stdout')
    BY <1>1 DEF Ended, Told, Runs
  <2>2. ASSUME NEW i \in DOMAIN stdout', stdout'[i].id = r.id, stdout'[i].type \in Over
        PROVE  Told(r, stdout'[i].gen, i, stdout')
    <3>1. i \in DOMAIN stdout /\ i \in Nat /\ stdout'[i] = stdout[i]
      BY <1>2, <2>2 DEF Over
    <3> QED
      BY <1>7, <2>1, <2>2, <3>1 DEF Ended
  <2>3. ASSUME NEW g, Told(r, g, n, stdout) PROVE Told(r, g, Len(stdout') + 1, stdout')
    BY <1>2, <1>7, <2>3
  <2> QED
    BY <2>1, <2>2, <2>3 DEF Ended, n
<1>9. RefusedAlone(R, stdout)'
  <2> SUFFICES ASSUME NEW r \in R, r.op = "scanStart",
                      NEW i \in DOMAIN stdout', stdout'[i].id = r.id,
                      stdout'[i].type = "error"
      PROVE  /\ r.gen = None
             /\ \A j \in DOMAIN stdout' : stdout'[j].id = r.id => j = i
             /\ \A q \in outcomes : q.id # r.id
             /\ ~Runs(r.id)
    BY <1>1 DEF RefusedAlone, Runs
  <2>1. r.id # line.id
    BY <1>b
  <2>2. i \in DOMAIN stdout /\ stdout'[i] = stdout[i]
    BY <1>2, <2>1
  <2> QED
    BY <1>2, <2>1, <2>2 DEF Wire, RefusedAlone, R
<1>10. Started(R, stdout)'
  <2> SUFFICES ASSUME NEW r \in R, r.op = "scanStart",
                      NEW i \in DOMAIN stdout', stdout'[i].id = r.id,
                      stdout'[i].type = "scanStarted"
      PROVE  /\ Runs(r.id) => staging.gen = stdout'[i].gen
             /\ \A q \in outcomes : q.id = r.id => q.gen = stdout'[i].gen
             /\ \A j \in DOMAIN stdout' : stdout'[j].id = r.id /\ stdout'[j].type \in Over =>
                  stdout'[j].gen = stdout'[i].gen
             /\ \/ Runs(r.id)
                \/ \E q \in outcomes : q.id = r.id
                \/ \E j \in DOMAIN stdout' : j > i /\ stdout'[j].id = r.id
    BY <1>1 DEF Started, Runs
  <2>1. i \in DOMAIN stdout /\ stdout'[i] = stdout[i] /\ r.id # line.id
    BY <1>2, <1>b
  <2>2. Started(R, stdout)
    BY DEF Wire, R
  <2>3. /\ Runs(r.id) => staging.gen = stdout[i].gen
        /\ \A q \in outcomes : q.id = r.id => q.gen = stdout[i].gen
        /\ \A j \in DOMAIN stdout : stdout[j].id = r.id /\ stdout[j].type \in Over =>
             stdout[j].gen = stdout[i].gen
        /\ \/ Runs(r.id)
           \/ \E q \in outcomes : q.id = r.id
           \/ \E j \in DOMAIN stdout : j > i /\ stdout[j].id = r.id
    BY <2>1, <2>2 DEF Started
  <2>4. ASSUME NEW j \in DOMAIN stdout', stdout'[j].id = r.id, stdout'[j].type \in Over
        PROVE  stdout'[j].gen = stdout'[i].gen
    <3>1. j \in DOMAIN stdout /\ stdout'[j] = stdout[j]
      BY <1>2, <2>1, <2>4
    <3> QED
      BY <2>1, <2>3, <2>4, <3>1
  <2>5. ASSUME NEW j \in DOMAIN stdout, j > i, stdout[j].id = r.id
        PROVE  \E k \in DOMAIN stdout' : k > i /\ stdout'[k].id = r.id
    <3>1. j \in DOMAIN stdout' /\ stdout'[j] = stdout[j]
      BY <1>2
    <3> QED
      BY <2>5, <3>1
  <2> QED
    BY <2>1, <2>3, <2>4, <2>5
<1>11. \A r \in R : Awaits(r, stdin, stdout)' <=> Awaits(r, stdin, stdout)
  <2> SUFFICES ASSUME NEW r \in R
      PROVE  Awaits(r, stdin, stdout)' <=> Awaits(r, stdin, stdout)
    OBVIOUS
  <2>1. (\E i \in DOMAIN stdout' : stdout'[i].id = r.id)
          <=> (\E i \in DOMAIN stdout : stdout[i].id = r.id) \/ line.id = r.id
    BY <1>2
  <2>2. ASSUME NEW i \in DOMAIN queries', queries'[i].id = r.id
        PROVE  \E k \in DOMAIN queries : queries[k].id = r.id
    BY <1>3, <2>2
  <2>3. ASSUME NEW i \in DOMAIN queries, queries[i].id = r.id
        PROVE  (\E k \in DOMAIN queries' : queries'[k].id = r.id) \/ line.id = r.id
    BY <1>3, <1>4, <2>3
  <2>4. (\E i \in DOMAIN queries : queries[i].id = r.id) \/ line.id = r.id
          <=> (\E i \in DOMAIN queries' : queries'[i].id = r.id) \/ line.id = r.id
    BY <2>2, <2>3
  <2>5. line.id = r.id => \E i \in DOMAIN queries : queries[i].id = r.id
    BY <1>3, <1>4
  <2> QED
    BY <1>1, <2>1, <2>4, <2>5 DEF Awaits, Runs
<1> QED
  <2>1. \A act : NoneForgotten(R, stdin, stdout, act) => NoneForgotten(R, stdin, stdout, act)'
    BY <1>1, <1>11 DEF NoneForgotten
  <2>2. \A scan : OneScan(R, stdin, stdout, scan) => OneScan(R, stdin, stdout, scan)'
    BY <1>1, <1>11 DEF OneScan
  <2>3. \A root : SameRoot(R, stdin, stdout, root) => SameRoot(R, stdin, stdout, root)'
    BY <1>1, <1>2 DEF SameRoot, Runs
  <2> QED
    BY <1>5, <1>6, <1>6a, <1>8, <1>9, <1>10, <2>1, <2>2, <2>3 DEF Wire, R, WireKept

LEMMA FiniteUnion ==
  ASSUME NEW A, NEW B, IsFiniteSet(A), IsFiniteSet(B)
  PROVE  IsFiniteSet(A \cup B)
BY FS_Union

LEMMA FreshGenTyped == ASSUME Typed PROVE FreshGen \in Nat
<1> DEFINE A == UNION {Held(x) : x \in {active, previous, staging, panel.activation}}
           P == Range(stdin) \cup Range(stdout) \cup Range(queries)
                  \cup outcomes \cup panel.requests
           B == GensIn(P)
           C == {panel.view, panel.staging}
<1>1. ASSUME NEW x PROVE IsFiniteSet(Held(x))
  BY FS_EmptySet, FS_Singleton DEF Held
<1>2. IsFiniteSet(A)
  <2>1. A = ((Held(active) \cup Held(previous)) \cup Held(staging)) \cup Held(panel.activation)
    OBVIOUS
  <2> HIDE DEF A
  <2>2. IsFiniteSet(Held(active) \cup Held(previous))
    BY <1>1, FiniteUnion
  <2>3. IsFiniteSet((Held(active) \cup Held(previous)) \cup Held(staging))
    BY <1>1, <2>2, FiniteUnion
  <2>4. IsFiniteSet(((Held(active) \cup Held(previous)) \cup Held(staging))
                     \cup Held(panel.activation))
    BY <1>1, <2>3, FiniteUnion
  <2> QED
    BY <2>1, <2>4
<1>3. ASSUME NEW S, IsFiniteSet(S) PROVE IsFiniteSet(GensIn(S))
  <2> DEFINE f == [x \in S |-> x.gen]
  <2>1. f \in Surjection(S, GensIn(S))
    BY DEF Surjection, GensIn
  <2> QED
    BY <1>3, <2>1, FS_Surjection
<1>4. /\ IsFiniteSet(Range(stdin)) /\ IsFiniteSet(Range(stdout))
      /\ IsFiniteSet(Range(queries))
  BY FiniteRange DEF Typed, ServiceTyped
<1>5. IsFiniteSet(outcomes) /\ IsFiniteSet(panel.requests)
  BY DEF Typed, ServiceTyped
<1>6. IsFiniteSet(P)
  <2>1. IsFiniteSet(Range(stdin) \cup Range(stdout))
    BY <1>4, FiniteUnion
  <2>2. IsFiniteSet(Range(stdin) \cup Range(stdout) \cup Range(queries))
    BY <1>4, <2>1, FiniteUnion
  <2>3. IsFiniteSet(Range(stdin) \cup Range(stdout) \cup Range(queries) \cup outcomes)
    BY <1>5, <2>2, FiniteUnion
  <2> QED
    BY <1>5, <2>3, FiniteUnion
<1>7. IsFiniteSet(C)
  <2>1. C = {panel.view} \cup {panel.staging}
    OBVIOUS
  <2> HIDE DEF C
  <2> QED
    BY <2>1, FS_Singleton, FiniteUnion
<1>8. FreshGen = Least(B \cup C \cup A)
  BY DEF FreshGen
<1> HIDE DEF A, P, C
<1>9. IsFiniteSet(B)
  BY <1>3, <1>6
<1> HIDE DEF B
<1>10. IsFiniteSet(B \cup C \cup A)
  <2>1. IsFiniteSet(B \cup C)
    BY <1>7, <1>9, FiniteUnion
  <2> QED
    BY <1>2, <2>1, FiniteUnion
<1> QED
  BY <1>8, <1>10, LeastFresh DEF Number

LEMMA MessageTyped ==
  ASSUME NEW m, m.id \in Number, NEW type \in Type, NEW gen \in MaybeGen,
         NEW root \in MaybeRoot
  PROVE  /\ Message(m, type, gen, root) \in Said
         /\ Message(m, type, gen, root).id = m.id
         /\ Message(m, type, gen, root).type = type
         /\ Message(m, type, gen, root).gen = gen
         /\ Message(m, type, gen, root).root = root
BY DEF Message, Said

LEMMA ReplyKept ==
  ASSUME Typed, stdin # <<>>, stdin' = Tail(stdin), panel' = panel,
         UNCHANGED <<queries, outcomes, serving>>, SameScan,
         Wire(panel.requests, stdin, stdout),
         stored' \subseteq MaybeRoot, active' \in Generation \cup {None},
         previous' \in Generation \cup {None}, staging' \in Scan \cup {None},
         NEW type \in Type, NEW gen \in MaybeGen, NEW root \in MaybeRoot,
         Writes(Head(stdin), type, gen, root),
         Head(stdin).op \in AnsweredBy(type),
         type \notin Over \cup {"scanStarted", "queryResult"},
         type = "activationCommitted" => gen = Head(stdin).gen,
         type = "snapshotAvailable" => root = Head(stdin).root
  PROVE  WireKept /\ Typed'
<1> DEFINE line == Message(Head(stdin), type, gen, root)
<1>1. Head(stdin) \in Asked /\ Head(stdin).id \in Number
  <2>1. stdin \in Seq(Asked)
    BY DEF Typed
  <2>2. Head(stdin) \in Asked
    BY <2>1, Shortened
  <2> QED
    BY <2>2 DEF Asked
<1>2. /\ line \in Said /\ line.id = Head(stdin).id /\ line.type = type
      /\ line.gen = gen /\ line.root = root
  BY <1>1, MessageTyped
<1>3. stdout' = Append(stdout, line)
  BY DEF Writes
<1> HIDE DEF line
<1>4. Answers(line)
  BY <1>2, <1>3 DEF Answers
<1>5. WireKept
  BY <1>4, AnswersKept
<1>6. Typed'
  <2>1. stdin' \in Seq(Asked)
    BY Shortened DEF Typed
  <2>2. stdout' \in Seq(Said)
    BY <1>2, <1>3, Appended DEF Typed
  <2>3. ServiceTyped'
    BY DEF Typed, ServiceTyped
  <2> QED
    BY <2>1, <2>2, <2>3 DEF Typed
<1> QED
  BY <1>5, <1>6

LEMMA HeadAsked ==
  ASSUME Typed, stdin # <<>>
  PROVE  /\ Head(stdin) \in Asked /\ Head(stdin).id \in Number
         /\ Head(stdin).gen \in MaybeGen /\ Head(stdin).root \in MaybeRoot
         /\ Head(stdin).mount \in MaybeRoot /\ Tail(stdin) \in Seq(Asked)
<1>1. stdin \in Seq(Asked)
  BY DEF Typed
<1>2. Head(stdin) \in Asked /\ Tail(stdin) \in Seq(Asked)
  BY <1>1, Shortened
<1> QED
  BY <1>2 DEF Asked

LEMMA RefusalKept ==
  ASSUME Typed, stdin # <<>>, stdin' = Tail(stdin), panel' = panel,
         Head(stdin).op \in Op, Wire(panel.requests, stdin, stdout),
         Refuses(Head(stdin))
  PROVE  WireKept /\ Typed'
<1>1. UNCHANGED <<serving, stored, active, previous, staging, outcomes, queries>>
  BY DEF Refuses, service, held
<1>2. Writes(Head(stdin), "error", None, None)
  BY DEF Refuses
<1>3. /\ stored' \subseteq MaybeRoot /\ active' \in Generation \cup {None}
      /\ previous' \in Generation \cup {None} /\ staging' \in Scan \cup {None}
  BY <1>1 DEF Typed, ServiceTyped
<1>4. SameScan
  BY <1>1 DEF SameScan
<1>5. /\ "error" \in Type /\ None \in MaybeGen /\ None \in MaybeRoot
      /\ "error" \notin Over \cup {"scanStarted", "queryResult"}
      /\ "error" # "activationCommitted" /\ "error" # "snapshotAvailable"
  BY DEF Type, MaybeGen, MaybeRoot, Over
<1>6. Head(stdin).op \in AnsweredBy("error")
  BY AnswerTypes
<1> QED
  BY <1>1, <1>2, <1>3, <1>4, <1>5, <1>6, ReplyKept

LEMMA OperationsKept ==
  ASSUME Typed, Wire(panel.requests, stdin, stdout), panel' = panel,
         NEW fresh \in Nat,
         \/ Hello \/ SnapshotOpen(fresh) \/ ScanCancel
         \/ ActivationCommit \/ ActivationAbort
  PROVE  WireKept /\ Typed'
<1> DEFINE m == Head(stdin)
           Kept == UNCHANGED <<outcomes, queries, serving, staging>>
           Reply(type, gen, root) ==
             /\ Writes(Head(stdin), type, gen, root)
             /\ type \in Type \ (Over \cup {"scanStarted", "queryResult"})
             /\ Head(stdin).op \in AnsweredBy(type)
             /\ gen \in MaybeGen /\ root \in MaybeRoot
             /\ type = "activationCommitted" => gen = Head(stdin).gen
             /\ type = "snapshotAvailable" => root = Head(stdin).root
<1>1. stdin # <<>> /\ stdin' = Tail(stdin) /\ Head(stdin).op \in Op
  BY DEF Hello, SnapshotOpen, ScanCancel, ActivationCommit, ActivationAbort, Takes, Op
<1>2. CASE Refuses(Head(stdin))
  BY <1>1, <1>2, RefusalKept
<1>3. /\ m \in Asked /\ m.id \in Number /\ m.gen \in MaybeGen /\ m.root \in MaybeRoot
      /\ m.mount \in MaybeRoot
  BY <1>1, HeadAsked
<1>4. /\ stored \subseteq MaybeRoot /\ active \in Generation \cup {None}
      /\ previous \in Generation \cup {None} /\ staging \in Scan \cup {None}
      /\ None \in MaybeGen /\ None \in MaybeRoot
  BY DEF Typed, ServiceTyped, MaybeGen, MaybeRoot
<1>5. ASSUME NEW type, NEW gen, NEW root, Reply(type, gen, root), SameScan,
             UNCHANGED <<queries, outcomes, serving>>,
             stored' \subseteq MaybeRoot, active' \in Generation \cup {None},
             previous' \in Generation \cup {None}, staging' \in Scan \cup {None}
      PROVE  WireKept /\ Typed'
  <2>1. /\ Writes(Head(stdin), type, gen, root)
        /\ type \in Type /\ type \notin Over \cup {"scanStarted", "queryResult"}
        /\ Head(stdin).op \in AnsweredBy(type)
        /\ gen \in MaybeGen /\ root \in MaybeRoot
        /\ type = "activationCommitted" => gen = Head(stdin).gen
        /\ type = "snapshotAvailable" => root = Head(stdin).root
    BY <1>5
  <2> HIDE DEF Reply
  <2> QED
    BY <1>1, <1>5, <2>1, ReplyKept
<1>6. CASE Hello
  <2>1. Reply("ready", None, None)
    BY <1>4, <1>6, AnswerTypes DEF Hello, Takes, Type, Over
  <2>2. UNCHANGED <<serving, stored, active, previous, staging, outcomes, queries>>
    BY <1>6 DEF Hello, service, held
  <2>3. SameScan
    BY <2>2 DEF SameScan
  <2> HIDE DEF Reply
  <2> QED
    BY <1>4, <1>5, <2>1, <2>2, <2>3
<1>7. CASE SnapshotOpen(fresh) /\ ~Refuses(Head(stdin))
  <2>1. m.op = "snapshotOpen" /\ staging' = staging /\ UNCHANGED <<queries, outcomes, serving>>
    BY <1>7 DEF SnapshotOpen, Takes, service, held
  <2>2. SameScan
    BY <2>1 DEF SameScan
  <2>3. CASE Reusable(m)
    <3>1. Writes(m, "snapshotAvailable", active.gen, m.root) /\ UNCHANGED service
      BY <1>7, <2>3 DEF SnapshotOpen
    <3>2. active.gen \in MaybeGen
      BY <1>4, <2>3 DEF Reusable, Generation, MaybeGen
    <3>3. Reply("snapshotAvailable", active.gen, m.root)
      BY <1>3, <2>1, <3>1, <3>2, AnswerTypes DEF Type, Over
    <3>4. UNCHANGED <<stored, active, previous, staging>>
      BY <3>1 DEF service, held
    <3> HIDE DEF Reply
    <3> QED
      BY <1>4, <1>5, <2>1, <2>2, <3>3, <3>4
  <2>4. CASE ~Reusable(m) /\ m.root \notin stored
    <3>1. Writes(m, "snapshotMissing", None, m.root) /\ UNCHANGED service
      BY <1>7, <2>4 DEF SnapshotOpen
    <3>2. Reply("snapshotMissing", None, m.root)
      BY <1>3, <1>4, <2>1, <3>1, AnswerTypes DEF Type, Over
    <3>3. UNCHANGED <<stored, active, previous, staging>>
      BY <3>1 DEF service, held
    <3> HIDE DEF Reply
    <3> QED
      BY <1>4, <1>5, <2>1, <2>2, <3>2, <3>3
  <2>5. CASE ~Reusable(m) /\ m.root \in stored
    <3>1. /\ Writes(m, "snapshotAvailable", fresh, m.root) /\ previous' = active
          /\ active' = [gen |-> fresh, root |-> m.root, persistent |-> TRUE]
          /\ stored' = stored
      BY <1>7, <2>5 DEF SnapshotOpen
    <3>2. Reply("snapshotAvailable", fresh, m.root)
      BY <1>3, <2>1, <3>1, AnswerTypes DEF Type, Over, MaybeGen
    <3>3. active' \in Generation
      BY <1>3, <3>1 DEF Generation, MaybeRoot
    <3> HIDE DEF Reply
    <3> QED
      BY <1>4, <1>5, <2>1, <2>2, <3>1, <3>2, <3>3
  <2> QED
    BY <2>3, <2>4, <2>5
<1>8. CASE ScanCancel /\ ~Refuses(Head(stdin))
  <2>1. /\ m.op = "scanCancel" /\ staging # None /\ staging.gen = m.gen
        /\ staging' = [staging EXCEPT !.cancelled = TRUE]
        /\ Writes(m, "scanCancelRequested", m.gen, None)
        /\ UNCHANGED <<serving, stored, active, previous, outcomes, queries>>
    BY <1>8 DEF ScanCancel, Takes
  <2>2. /\ staging' \in Scan /\ staging'.id = staging.id
        /\ staging'.gen = staging.gen /\ staging'.root = staging.root
    BY <1>4, <2>1 DEF Scan
  <2>3. SameScan
    BY <2>1, <2>2, NoneIsNothing DEF SameScan
  <2>4. Reply("scanCancelRequested", m.gen, None)
    BY <1>3, <1>4, <2>1, AnswerTypes DEF Type, Over
  <2> HIDE DEF Reply
  <2> QED
    BY <1>4, <1>5, <2>1, <2>2, <2>3, <2>4
<1>9. CASE ActivationCommit /\ ~Refuses(Head(stdin))
  <2>1. /\ m.op = "activationCommit" /\ Holds(active, m.gen)
        /\ active' = [active EXCEPT !.persistent = TRUE]
        /\ stored' = stored \cup {active.root} /\ previous' = None
        /\ Writes(m, "activationCommitted", m.gen, None)
        /\ UNCHANGED <<serving, staging, outcomes, queries>>
    BY <1>9 DEF ActivationCommit, Takes
  <2>2. active' \in Generation
    BY <1>4, <2>1 DEF Generation, Holds
  <2>3. active.root \in MaybeRoot
    BY <1>4, <2>1 DEF Generation, Holds, MaybeRoot
  <2>4. SameScan
    BY <2>1 DEF SameScan
  <2>5. Reply("activationCommitted", m.gen, None)
    BY <1>3, <1>4, <2>1, AnswerTypes DEF Type, Over
  <2> HIDE DEF Reply
  <2> QED
    BY <1>4, <1>5, <2>1, <2>2, <2>3, <2>4, <2>5
<1>10. CASE ActivationAbort /\ ~Refuses(Head(stdin))
  <2>1. /\ m.op = "activationAbort" /\ active' = previous /\ previous' = None
        /\ Writes(m, "activationAborted", m.gen, None)
        /\ UNCHANGED <<serving, stored, staging, outcomes, queries>>
    BY <1>10 DEF ActivationAbort, Takes
  <2>2. SameScan
    BY <2>1 DEF SameScan
  <2>3. Reply("activationAborted", m.gen, None)
    BY <1>3, <1>4, <2>1, AnswerTypes DEF Type, Over
  <2> HIDE DEF Reply
  <2> QED
    BY <1>4, <1>5, <2>1, <2>2, <2>3
<1> QED
  BY <1>2, <1>6, <1>7, <1>8, <1>9, <1>10

LEMMA BrokerKept ==
  ASSUME Typed, Wire(panel.requests, stdin, stdout), BrokerActs
  PROVE  WireKept /\ Typed' /\ panel' = panel
<1>1. panel' = panel /\ (Serve(FreshGen) \/ Work) /\ FreshGen \in Nat
  BY FreshGenTyped DEF BrokerActs
<1> DEFINE m == Head(stdin)
           fresh == FreshGen
<1> HIDE DEF fresh
<1>2. /\ stored \subseteq MaybeRoot /\ active \in Generation \cup {None}
      /\ previous \in Generation \cup {None} /\ staging \in Scan \cup {None}
      /\ outcomes \subseteq Said /\ IsFiniteSet(outcomes) /\ queries \in Seq(Queued)
      /\ stdin \in Seq(Asked) /\ stdout \in Seq(Said) /\ serving \in BOOLEAN
      /\ panel \in PanelRecord /\ IsFiniteSet(panel.requests) /\ panel.sent = <<>>
  BY DEF Typed, ServiceTyped
<1>3. CASE Hello \/ SnapshotOpen(fresh) \/ ScanCancel \/ ActivationCommit \/ ActivationAbort
  BY <1>1, <1>3, OperationsKept DEF fresh
<1>4. CASE ScanStart(fresh)
  <2>1. /\ stdin # <<>> /\ stdin' = Tail(stdin) /\ m.op = "scanStart" /\ m.op \in Op
    BY <1>4 DEF ScanStart, Takes, Op
  <2>2. CASE ~MayScan
    <3>1. Refuses(m)
      BY <1>4, <2>2 DEF ScanStart
    <3> QED
      BY <1>1, <2>1, <3>1, RefusalKept
  <2>3. CASE MayScan
    <3> DEFINE line == Message(m, "scanStarted", fresh, m.root)
               scan == [gen |-> fresh, root |-> m.root, mount |-> m.mount,
                        id |-> m.id, cancelled |-> FALSE]
    <3>1. /\ staging' = scan /\ stdout' = Append(stdout, line) /\ staging = None
          /\ UNCHANGED <<serving, stored, active, previous, outcomes, queries>>
      BY <1>4, <2>3 DEF ScanStart, Writes, MayScan
    <3>2. /\ m.id \in Number /\ m.root \in MaybeRoot /\ m.mount \in MaybeRoot
          /\ Tail(stdin) \in Seq(Asked) /\ fresh \in Nat
      BY <1>1, <2>1, HeadAsked DEF fresh
    <3>3. /\ line \in Said /\ line.id = m.id /\ line.type = "scanStarted"
          /\ line.gen = fresh
      BY <3>2 DEF Message, Said, Type, MaybeGen
    <3>4. /\ scan \in Scan /\ scan # None /\ scan.id = m.id /\ scan.gen = fresh
          /\ scan.root = m.root
      <4>1. scan \in Scan
        BY <3>2 DEF Scan, MaybeRoot, Number
      <4> QED
        BY <4>1, NoneIsNothing
    <3> HIDE DEF line, scan
    <3>5. WireKept
      BY <1>1, <2>1, <3>1, <3>2, <3>3, <3>4, ScanBegins
    <3>6. stdout' \in Seq(Said) /\ stdin' \in Seq(Asked)
      BY <1>2, <2>1, <3>1, <3>2, <3>3, Appended
    <3>7. Typed'
      BY <1>1, <1>2, <3>1, <3>4, <3>6 DEF Typed, ServiceTyped
    <3> QED
      BY <1>1, <3>5, <3>7
  <2> QED
    BY <2>2, <2>3
<1>5. CASE Query
  <2>1. /\ stdin # <<>> /\ stdin' = Tail(stdin) /\ m.op \in {"metadata", "children"}
        /\ m.op \in Op
    BY <1>5 DEF Query, Takes, Op
  <2>2. CASE Refuses(m)
    BY <1>1, <2>1, <2>2, RefusalKept
  <2>3. CASE ~Refuses(m)
    <3> DEFINE q == [id |-> m.id, gen |-> m.gen]
    <3>1. /\ queries' = Append(queries, q)
          /\ UNCHANGED <<serving, stored, active, previous, staging, outcomes, stdout>>
      BY <1>5, <2>3 DEF Query, held
    <3>2. m.id \in Number /\ m.gen \in MaybeGen /\ Tail(stdin) \in Seq(Asked)
      BY <2>1, HeadAsked
    <3>3. q \in Queued
      BY <3>2 DEF Queued
    <3>4. WireKept
      BY <1>1, <2>1, <3>1, QueuedKept
    <3> HIDE DEF q
    <3>5. queries' \in Seq(Queued) /\ stdin' \in Seq(Asked)
      BY <1>2, <2>1, <3>1, <3>2, <3>3, Appended
    <3>6. Typed'
      BY <1>1, <1>2, <3>1, <3>5 DEF Typed, ServiceTyped
    <3> QED
      BY <1>1, <3>4, <3>6
  <2> QED
    BY <2>2, <2>3
<1>6. CASE Shutdown
  <2>1. /\ stdin' \in Seq(Asked) /\ serving' = FALSE
        /\ UNCHANGED <<stored, active, previous, staging, outcomes, queries, stdout>>
    BY <1>6, HeadAsked DEF Shutdown, Takes, held
  <2>2. Typed'
    BY <1>1, <1>2, <2>1 DEF Typed, ServiceTyped
  <2> QED
    BY <1>1, <1>6, <2>2, ShutdownKept
<1>7. ASSUME NEW o, NEW type \in Over, staging # None, staging' = None,
             o = Message(staging, type, staging.gen, staging.root),
             outcomes' = outcomes \cup {o},
             UNCHANGED <<serving, stored, queries, stdin, stdout>>,
             active' \in Generation \cup {None}, previous' \in Generation \cup {None}
      PROVE  WireKept /\ Typed'
  <2>1. /\ staging.gen \in Nat /\ staging.root \in MaybeRoot /\ staging.id \in Number
    BY <1>2, <1>7 DEF Scan, MaybeRoot, Number
  <2>2. o.id = staging.id /\ o.gen = staging.gen /\ o.root = staging.root /\ o.type = type
    BY <1>7 DEF Message
  <2>3. WireKept
    BY <1>1, <1>7, <2>2, ScanSettles
  <2>4. o \in Said
    BY <1>7, <2>1 DEF Message, Said, Type, Over, MaybeGen
  <2>5. IsFiniteSet(outcomes')
    BY <1>2, <1>7, FS_AddElement
  <2>6. Typed'
    BY <1>1, <1>2, <1>7, <2>4, <2>5 DEF Typed, ServiceTyped
  <2> QED
    BY <2>3, <2>6
<1>8. CASE ScanActivates
  <2> DEFINE o == Message(staging, "snapshotActivated", staging.gen, staging.root)
  <2>1. /\ staging # None /\ staging' = None /\ outcomes' = outcomes \cup {o}
        /\ previous' = active
        /\ active' = [gen |-> staging.gen, root |-> staging.root, persistent |-> FALSE]
        /\ UNCHANGED <<serving, stored, queries, stdin, stdout>>
    BY <1>8 DEF ScanActivates
  <2>2. active' \in Generation
    BY <1>2, <2>1 DEF Scan, Generation
  <2>3. "snapshotActivated" \in Over
    BY DEF Over
  <2> QED
    BY <1>1, <1>2, <1>7, <2>1, <2>2, <2>3
<1>9. CASE ScanFails
  <2> DEFINE o == Message(staging, "scanFailed", staging.gen, staging.root)
  <2>1. /\ staging # None /\ staging' = None /\ outcomes' = outcomes \cup {o}
        /\ UNCHANGED <<serving, stored, active, previous, queries, stdin, stdout>>
    BY <1>9 DEF ScanFails
  <2>2. "scanFailed" \in Over
    BY DEF Over
  <2> QED
    BY <1>1, <1>2, <1>7, <2>1, <2>2
<1>10. CASE ScanReports
  <2>1. PICK o \in outcomes : /\ outcomes' = outcomes \ {o} /\ stdout' = Append(stdout, o)
               /\ UNCHANGED <<serving, stored, active, previous, staging, queries, stdin>>
    BY <1>10 DEF ScanReports, held
  <2>2. WireKept
    BY <1>1, <2>1, ScanReported
  <2>3. stdout' \in Seq(Said) /\ outcomes' \subseteq Said
    BY <1>2, <2>1, Appended
  <2>4. IsFiniteSet(outcomes')
    BY <1>2, <2>1, FS_Subset
  <2>5. Typed'
    BY <1>1, <1>2, <2>1, <2>3, <2>4 DEF Typed, ServiceTyped
  <2> QED
    BY <1>1, <2>2, <2>5
<1>11. CASE QueryAnswers
  <2>1. PICK type \in {"queryResult", "error"} :
          /\ Writes(Head(queries), type,
                    IF type = "error" THEN None ELSE Head(queries).gen, None)
          /\ queries # <<>> /\ queries' = Tail(queries)
          /\ UNCHANGED <<serving, stored, active, previous, staging, outcomes, stdin>>
    BY <1>11 DEF QueryAnswers, held
  <2> DEFINE line == Message(Head(queries), type,
                             IF type = "error" THEN None ELSE Head(queries).gen, None)
  <2>2. Head(queries) \in Queued /\ Tail(queries) \in Seq(Queued)
    BY <1>2, <2>1, Shortened
  <2>3. /\ line \in Said /\ line.id = Head(queries).id /\ line.type = type
        /\ type = "queryResult" => line.gen = Head(queries).gen
    BY <2>2 DEF Queued, Message, Said, Type, MaybeGen, MaybeRoot
  <2>4. stdout' = Append(stdout, line)
    BY <2>1 DEF Writes
  <2> HIDE DEF line
  <2>5. WireKept
    BY <1>1, <2>1, <2>3, <2>4, QueryKept
  <2>6. stdout' \in Seq(Said)
    BY <1>2, <2>3, <2>4, Appended
  <2>7. Typed'
    BY <1>1, <1>2, <2>1, <2>2, <2>6 DEF Typed, ServiceTyped
  <2> QED
    BY <1>1, <2>5, <2>7
<1>12. Serve(fresh) \/ Work
  BY <1>1 DEF fresh
<1> QED
  BY <1>1, <1>3, <1>4, <1>5, <1>6, <1>8, <1>9, <1>10, <1>11, <1>12 DEF Serve, Work

-----------------------------------------------------------------------------
(* The inductive invariant: how far the panel is with what it asks for.    *)

Asks(p, op) == \E r \in p.requests : r.op = op
Calls(p, call) == \E i \in DOMAIN p.later : p.later[i].call = call

\* Without a process there is nothing on the pipes and nothing to wait for.
Offline(p, in, out) == p.process # "up" =>
  /\ in = <<>> /\ out = <<>> /\ queries = <<>> /\ outcomes = {}
  /\ staging = None /\ ~serving
  /\ p.requests = {} /\ p.activation = None /\ p.scanRequest = None /\ ~p.ready
\* The first request is alone.
Booting(p) == Asks(p, "hello") =>
  /\ \A r, s \in p.requests : r = s
  /\ ~p.ready /\ p.later = <<>> /\ p.activation = None /\ p.scanRequest = None
\* Before the filesystems are listed nothing is asked about them.
Unlisted(p) == ~p.listed =>
  /\ p.treeRoot = None /\ p.activation = None
  /\ p.scanRequest = None /\ p.pendingScan = None
  /\ ~Asks(p, "snapshotOpen") /\ ~Asks(p, "scanStart") /\ ~Calls(p, "launch")
Chosen(p) == p.listed => p.preferred \in Root /\ p.treeRoot = p.preferred
\* What is followed or put off is about the filesystem that is selected.
Aimed(p) ==
  /\ p.activation # None /\ (p.ready \/ p.requests # {}) =>
       p.activation.root = p.treeRoot
  /\ p.pendingScan # None => p.pendingScan.root = p.treeRoot
  /\ \A i \in DOMAIN p.later : p.later[i].call = "launch" /\ p.later[i].current =>
       p.later[i].root = p.treeRoot
\* A snapshot is opened, and a scan launched, when nothing stands in its way.
Opening(p) == \A i \in DOMAIN p.later : p.later[i].call = "open" =>
  /\ i = 1 /\ p.ready /\ p.requests = {} /\ p.scanRequest = None
  /\ p.pendingScan = None /\ p.activation = None
Launching(p, out) == p.ready /\ Calls(p, "launch") =>
  /\ p.scanRequest = None /\ p.pendingScan = None
  /\ \A i, j \in DOMAIN p.later :
       p.later[i].call = "launch" /\ p.later[j].call = "launch" => i = j
  /\ Asks(p, "snapshotOpen") => p.activation = None
  /\ \A r \in p.requests : r.op = "snapshotOpen" =>
       \A i \in DOMAIN out : out[i].id # r.id
NextScan(p) == p.ready /\ p.pendingScan # None =>
  /\ ~Asks(p, "snapshotOpen")
  /\ p.scanRequest = None \/ p.activation = None
OneOpen(p) == p.ready /\ Asks(p, "snapshotOpen") =>
  /\ \A r, s \in p.requests : r.op = "snapshotOpen" /\ s.op = "snapshotOpen" => r = s
  /\ p.scanRequest = None \/ p.activation = None

Recorded(p) == p \in PanelRecord /\ IsFiniteSet(p.requests)
Sound(p, in, out) ==
  /\ Recorded(p)
  /\ Wire(p.requests, in, out)
  /\ NoneForgotten(p.requests, in, out, p.activation)
  /\ OneScan(p.requests, in, out, p.scanRequest)
  /\ SameRoot(p.requests, in, out, p.treeRoot)
  /\ RowsNamed(p.requests, p.view, p.activation)
Control(p, in, out) ==
  /\ Offline(p, in, out) /\ Booting(p) /\ Unlisted(p) /\ Chosen(p) /\ Aimed(p)
  /\ Opening(p) /\ Launching(p, out) /\ NextScan(p) /\ OneOpen(p)
Joint(s, t) == s \o t
Piped(p) == Joint(stdin, p.sent)
Fine(p, out) == Sound(p, Piped(p), out) /\ Control(p, Piped(p), out)
IInv == Typed /\ Sound(panel, stdin, stdout) /\ Control(panel, stdin, stdout)

-----------------------------------------------------------------------------
(* A request is sent, or refused.                                          *)

\* What is left to read.
Reading(out) == out = stdout \/ (stdout # <<>> /\ out = Tail(stdout))

LEMMA ReadingLines ==
  ASSUME Typed, NEW out, Reading(out)
  PROVE  /\ out \in Seq(Said)
         /\ \A i \in DOMAIN out : \E j \in DOMAIN stdout : out[i] = stdout[j]
<1>1. stdout \in Seq(Said)
  BY DEF Typed
<1>2. CASE out = stdout
  BY <1>1, <1>2
<1>3. CASE stdout # <<>> /\ out = Tail(stdout)
  BY <1>1, <1>3, Shortened
<1> QED
  BY <1>2, <1>3 DEF Reading

LEMMA Joined ==
  ASSUME NEW S, NEW s \in Seq(S), NEW t \in Seq(S)
  PROVE  /\ Joint(s, t) \in Seq(S) /\ Joint(s, <<>>) = s
         /\ \A x \in S : Joint(s, Append(t, x)) = Append(Joint(s, t), x)
         /\ \A i \in DOMAIN Joint(s, t) :
              \/ \E j \in DOMAIN s : Joint(s, t)[i] = s[j]
              \/ \E j \in DOMAIN t : Joint(s, t)[i] = t[j]
<1>1. s \o t \in Seq(S) /\ s \o <<>> = s
  OBVIOUS
<1>2. \A x \in S : s \o Append(t, x) = Append(s \o t, x)
  OBVIOUS
<1>3. ASSUME NEW i \in DOMAIN (s \o t)
      PROVE  \/ \E j \in DOMAIN s : (s \o t)[i] = s[j]
             \/ \E j \in DOMAIN t : (s \o t)[i] = t[j]
  <2>1. /\ i \in 1..(Len(s) + Len(t)) /\ DOMAIN s = 1..Len(s) /\ DOMAIN t = 1..Len(t)
        /\ Len(s) \in Nat /\ Len(t) \in Nat
        /\ (s \o t)[i] = IF i <= Len(s) THEN s[i] ELSE t[i - Len(s)]
    OBVIOUS
  <2>2. CASE i <= Len(s)
    BY <2>1, <2>2
  <2>3. CASE i > Len(s)
    <3>1. i - Len(s) \in 1..Len(t) /\ (s \o t)[i] = t[i - Len(s)]
      BY <2>1, <2>3
    <3> QED
      BY <2>1, <3>1
  <2> QED
    BY <2>1, <2>2, <2>3
<1> QED
  BY <1>1, <1>2, <1>3 DEF Joint

LEMMA FreshIdAbsent ==
  ASSUME Typed, NEW p, Recorded(p), NEW out, Reading(out)
  PROVE  /\ FreshId(p) \in Number
         /\ Absent(FreshId(p), p.requests, Piped(p), out)
<1> DEFINE P == p.requests \cup Range(p.sent) \cup Range(stdin)
                  \cup Range(stdout) \cup Range(queries) \cup outcomes
           S == IF staging = None THEN {} ELSE {staging.id}
           A == IdsIn(P)
           C == {p.scanRequest}
           id == FreshId(p)
<1>1. /\ p.sent \in Seq(Asked) /\ stdin \in Seq(Asked) /\ stdout \in Seq(Said)
      /\ queries \in Seq(Queued) /\ IsFiniteSet(outcomes) /\ IsFiniteSet(p.requests)
  BY DEF Typed, ServiceTyped, Recorded, PanelRecord
<1>2. IsFiniteSet(P)
  <2>1. /\ IsFiniteSet(Range(p.sent)) /\ IsFiniteSet(Range(stdin))
        /\ IsFiniteSet(Range(stdout)) /\ IsFiniteSet(Range(queries))
    BY <1>1, FiniteRange
  <2>2. IsFiniteSet(p.requests \cup Range(p.sent))
    BY <1>1, <2>1, FiniteUnion
  <2>3. IsFiniteSet(p.requests \cup Range(p.sent) \cup Range(stdin))
    BY <2>1, <2>2, FiniteUnion
  <2>4. IsFiniteSet(p.requests \cup Range(p.sent) \cup Range(stdin) \cup Range(stdout))
    BY <2>1, <2>3, FiniteUnion
  <2>5. IsFiniteSet(p.requests \cup Range(p.sent) \cup Range(stdin) \cup Range(stdout)
                     \cup Range(queries))
    BY <2>1, <2>4, FiniteUnion
  <2> QED
    BY <1>1, <2>5, FiniteUnion
<1>3. id = Least(A \cup S \cup C)
  BY DEF FreshId
<1>4. IsFiniteSet(S) /\ IsFiniteSet(C)
  BY FS_EmptySet, FS_Singleton
<1>5. \A x \in P : x.id \in A
  BY DEF IdsIn
<1>6. staging # None => staging.id \in S
  OBVIOUS
<1>7. /\ \A r \in p.requests : r \in P
      /\ \A i \in DOMAIN p.sent : p.sent[i] \in P
      /\ \A i \in DOMAIN stdin : stdin[i] \in P
      /\ \A i \in DOMAIN stdout : stdout[i] \in P
      /\ \A i \in DOMAIN queries : queries[i] \in P
      /\ \A o \in outcomes : o \in P
  BY DEF Range
<1> HIDE DEF P, S, C
<1>8. IsFiniteSet(A)
  BY <1>2, FiniteIds
<1> HIDE DEF A, id
<1>9. IsFiniteSet(A \cup S \cup C)
  <2>1. IsFiniteSet(A \cup S)
    BY <1>4, <1>8, FiniteUnion
  <2> QED
    BY <1>4, <2>1, FiniteUnion
<1>10. id \in Number /\ id \notin A /\ id \notin S
  BY <1>3, <1>9, LeastFresh
<1>11. \A x \in P : x.id # id
  BY <1>5, <1>10
<1>12. \A i \in DOMAIN Piped(p) : Piped(p)[i] \in P
  <2>1. \A i \in DOMAIN Piped(p) : \/ \E j \in DOMAIN stdin : Piped(p)[i] = stdin[j]
                                   \/ \E j \in DOMAIN p.sent : Piped(p)[i] = p.sent[j]
    <3> DEFINE t == p.sent
    <3>1. t \in Seq(Asked) /\ Piped(p) = Joint(stdin, t)
      BY <1>1 DEF Piped
    <3> HIDE DEF t
    <3>2. \A i \in DOMAIN Joint(stdin, t) :
             \/ \E j \in DOMAIN stdin : Joint(stdin, t)[i] = stdin[j]
             \/ \E j \in DOMAIN t : Joint(stdin, t)[i] = t[j]
      <4>1. stdin \in Seq(Asked)
        BY <1>1
      <4>2. t \in Seq(Asked)
        BY <3>1
      <4> QED
        BY <4>1, <4>2, Joined
    <3> QED
      BY <3>1, <3>2 DEF t
  <2> QED
    BY <1>7, <2>1
<1>13. \A i \in DOMAIN out : out[i] \in P
  BY <1>7, ReadingLines
<1>14. ~Runs(id)
  BY <1>6, <1>10 DEF Runs
<1> QED
  BY <1>7, <1>10, <1>11, <1>12, <1>13, <1>14 DEF Absent, id

With(p, R, s) == [p EXCEPT !.requests = R, !.sent = s]

\* q is p with one more request, for m.
Extended(p, q, m, out) == \E r \in Request, a \in Asked :
  /\ q = With(p, p.requests \cup {r}, Append(p.sent, a))
  /\ r.op = m.op /\ r.gen = m.gen /\ r.token = m.token
  /\ a.id = r.id /\ a.op = m.op /\ a.gen = m.gen /\ a.root = m.root
  /\ Absent(r.id, p.requests, Piped(p), out)
  /\ Joint(stdin, Append(p.sent, a)) = Append(Piped(p), a)

LEMMA Sends ==
  ASSUME Typed, NEW p, Recorded(p), NEW m \in Wanted, NEW out, Reading(out)
  PROVE  \/ Send(p, m) = p
         \/ ~Refused(p, m.op) /\ Extended(p, Send(p, m), m, out)
<1>1. SUFFICES ASSUME ~Refused(p, m.op) PROVE Extended(p, Send(p, m), m, out)
  BY DEF Send
<1> DEFINE id == FreshId(p)
           r == [id |-> id, op |-> m.op, gen |-> m.gen, token |-> m.token]
           a == [id |-> id, op |-> m.op, root |-> m.root,
                 mount |-> m.mount, gen |-> m.gen, asked |-> m.asked]
<1>2. Send(p, m) = With(p, p.requests \cup {r}, Append(p.sent, a))
  BY <1>1 DEF Send, With
<1>3. id \in Number /\ Absent(id, p.requests, Piped(p), out)
  BY FreshIdAbsent
<1> HIDE DEF id
<1>4. r \in Request /\ a \in Asked
  BY <1>3 DEF Request, Asked, Wanted
<1>5. Joint(stdin, Append(p.sent, a)) = Append(Piped(p), a)
  <2>1. stdin \in Seq(Asked) /\ p.sent \in Seq(Asked)
    BY DEF Typed, Recorded, PanelRecord
  <2> HIDE DEF a
  <2> QED
    BY <1>4, <2>1, Joined DEF Piped
<1>6. /\ r.op = m.op /\ r.gen = m.gen /\ r.token = m.token /\ r.id = id
      /\ a.id = id /\ a.op = m.op /\ a.gen = m.gen /\ a.root = m.root
  OBVIOUS
<1> HIDE DEF r, a
<1> QED
  BY <1>2, <1>3, <1>4, <1>5, <1>6 DEF Extended

\* What a request leaves as it is.
Steady(p, q) ==
  /\ q.listed = p.listed /\ q.preferred = p.preferred /\ q.treeRoot = p.treeRoot
  /\ q.process = p.process /\ q.ready = p.ready /\ q.later = p.later
  /\ q.activation = p.activation /\ q.view = p.view
  /\ q.pendingScan = p.pendingScan
Grows(p, q, op, out) ==
  /\ Steady(p, q) /\ p.requests \subseteq q.requests
  /\ \A r \in q.requests \ p.requests :
       r.op = op /\ \A i \in DOMAIN out : out[i].id # r.id
  /\ \A r, s \in q.requests \ p.requests : r = s
  /\ ~p.ready /\ op # "hello" => q.requests = p.requests /\ q.sent = p.sent

LEMMA Updated ==
  ASSUME NEW p \in PanelRecord, NEW R, NEW s, NEW q,
         q = With(p, R, s)
  PROVE  /\ q.requests = R /\ q.sent = s /\ q.scanRequest = p.scanRequest
         /\ Steady(p, q)
         /\ R \in SUBSET Request /\ s \in Seq(Asked) => q \in PanelRecord
BY DEF PanelRecord, Steady, With

\* scanRequest after a request to scan was sent from p, or refused.
Following(p, q) == [q EXCEPT !.scanRequest =
                      IF Len(q.sent) = Len(p.sent) THEN None ELSE Last(q.sent).id]

\* What the panel may ask for.
Sensible(p, m) ==
  /\ m.op = "scanStart" => m.gen = None /\ m.token = None /\ p.scanRequest = None
  /\ m.op \in {"snapshotOpen", "scanStart"} => m.root = p.treeRoot
  /\ m.op = "children" /\ m.token = None => m.gen = p.view
  /\ m.op \in {"metadata", "activationCommit"} => m.token # None
  /\ p.activation # None /\ m.token = p.activation.token
       => m.gen = p.activation.gen

LEMMA ExtendedKept ==
  ASSUME Typed, NEW p, NEW m \in Wanted, NEW out, Reading(out),
         Sound(p, Piped(p), out), Sensible(p, m), NEW q,
         ~Refused(p, m.op), Extended(p, q, m, out)
  PROVE  /\ Recorded(q) /\ Grows(p, q, m.op, out) /\ q.scanRequest = p.scanRequest
         /\ m.op # "scanStart" => Sound(q, Piped(q), out)
         /\ m.op = "scanStart" => Sound(Following(p, q), Piped(Following(p, q)), out)
<1> DEFINE R == p.requests
           in == Piped(p)
<1>1. Recorded(p) /\ p \in PanelRecord
  BY DEF Sound, Recorded
<1>2. PICK r \in Request, a \in Asked :
        /\ q = With(p, p.requests \cup {r}, Append(p.sent, a))
        /\ r.op = m.op /\ r.gen = m.gen /\ r.token = m.token
        /\ a.id = r.id /\ a.op = m.op /\ a.gen = m.gen /\ a.root = m.root
        /\ Absent(r.id, R, in, out)
        /\ Joint(stdin, Append(p.sent, a)) = Append(in, a)
  BY DEF Extended
<1>3. p.sent \in Seq(Asked) /\ R \subseteq Request /\ stdin \in Seq(Asked)
      /\ IsFiniteSet(R)
  BY <1>1 DEF PanelRecord, Recorded, Typed
<1>4. in \in Seq(Asked)
  BY <1>3, Joined DEF Piped
<1>5. /\ q.requests = R \cup {r} /\ q.sent = Append(p.sent, a)
      /\ Steady(p, q) /\ q.scanRequest = p.scanRequest
  <2> DEFINE now == Append(p.sent, a)
             all == p.requests \cup {r}
  <2>1. q = With(p, all, now)
    BY <1>2
  <2> HIDE DEF now, all
  <2>2. q.requests = all /\ q.sent = now /\ Steady(p, q) /\ q.scanRequest = p.scanRequest
    BY <1>1, <2>1, Updated
  <2> QED
    BY <2>2 DEF all, now
<1> HIDE DEF R, in
<1>6. q.sent \in Seq(Asked) /\ q.requests \subseteq Request
  BY <1>3, <1>5, Appended
<1>7. Recorded(q)
  <2>1. q \in PanelRecord
    BY <1>1, <1>2, <1>5, <1>6, Updated DEF R
  <2>2. IsFiniteSet(q.requests)
    BY <1>3, <1>5, FS_AddElement
  <2> QED
    BY <2>1, <2>2 DEF Recorded
<1>8. Grows(p, q, m.op, out)
  BY <1>2, <1>5 DEF Grows, Refused, Absent, R
<1>9. /\ Wire(R, in, out) /\ NoneForgotten(R, in, out, p.activation)
      /\ OneScan(R, in, out, p.scanRequest) /\ SameRoot(R, in, out, p.treeRoot)
      /\ RowsNamed(R, p.view, p.activation)
  BY DEF Sound, R, in
<1>10. Piped(q) = Append(in, a)
  BY <1>2, <1>5 DEF Piped
<1>11. Wire(q.requests, Piped(q), out)
  <2>1. Wire(R \cup {r}, Append(in, a), out)
    BY <1>2, <1>4, <1>9, SentWire DEF Sensible
  <2> QED
    BY <1>5, <1>10, <2>1
<1>12. NoneForgotten(q.requests, Piped(q), out, q.activation)
  <2>1. NoneForgotten(R \cup {r}, Append(in, a), out, p.activation)
    BY <1>2, <1>4, <1>9, SentAwaited
  <2> QED
    BY <1>5, <1>10, <2>1 DEF Steady
<1>13. SameRoot(q.requests, Piped(q), out, q.treeRoot)
  <2>1. SameRoot(R \cup {r}, Append(in, a), out, p.treeRoot)
    BY <1>2, <1>4, <1>9, SentSameRoot DEF Sensible
  <2> QED
    BY <1>5, <1>10, <2>1 DEF Steady
<1>14. RowsNamed(q.requests, q.view, q.activation)
  <2>1. /\ Navigates(r) => r.gen = p.view
        /\ r.op \in {"metadata", "activationCommit"} => r.token # None
        /\ r.op = "scanStart" => r.token = None
        /\ p.activation # None /\ r.token = p.activation.token
             => r.gen = p.activation.gen
    BY <1>2 DEF Navigates, Sensible
  <2>2. RowsNamed(R \cup {r}, p.view, p.activation)
    BY <1>9, <2>1 DEF RowsNamed
  <2> QED
    BY <1>5, <2>2 DEF Steady
<1>15. ASSUME m.op # "scanStart"
       PROVE  OneScan(q.requests, Piped(q), out, q.scanRequest)
  <2>1. OneScan(R \cup {r}, Append(in, a), out, p.scanRequest)
    BY <1>2, <1>4, <1>9, <1>15, SentOneScan
  <2> QED
    BY <1>5, <1>10, <2>1
<1>16. ASSUME m.op = "scanStart"
       PROVE  Sound(Following(p, q), Piped(Following(p, q)), out)
  <2> DEFINE after == IF Len(q.sent) = Len(p.sent) THEN None ELSE Last(q.sent).id
             z == Following(p, q)
  <2>1. after = r.id
    <3>1. /\ Len(q.sent) = Len(p.sent) + 1 /\ q.sent[Len(p.sent) + 1] = a
          /\ Len(p.sent) \in Nat
      BY <1>3, <1>5, Appended
    <3>2. Len(q.sent) # Len(p.sent) /\ Last(q.sent) = a
      BY <3>1 DEF Last
    <3> QED
      BY <1>2, <3>2
  <2>2. \A s \in R : s.id # None
    BY <1>3, NoneIsNothing DEF Request, Number
  <2>3. r.id \in Number
    BY DEF Request
  <2> HIDE DEF after
  <2>4. OneScan(R \cup {r}, Append(in, a), out, after)
    BY <1>2, <1>4, <1>9, <1>16, <2>1, <2>2, SentOneScan DEF Sensible
  <2>5. z = [q EXCEPT !.scanRequest = after]
    BY DEF Following, after
  <2>6. /\ z.requests = q.requests /\ z.sent = q.sent /\ z.scanRequest = after
        /\ z.activation = q.activation /\ z.treeRoot = q.treeRoot /\ z.view = q.view
        /\ z \in PanelRecord
    <3> HIDE DEF z
    <3> QED
      BY <1>7, <2>1, <2>3, <2>5 DEF Recorded, PanelRecord
  <2> HIDE DEF z
  <2>7. Piped(z) = Piped(q) /\ Recorded(z)
    BY <1>7, <2>6 DEF Piped, Recorded
  <2>8. OneScan(z.requests, Piped(z), out, z.scanRequest)
    BY <1>5, <1>10, <2>4, <2>6, <2>7
  <2>9. Sound(z, Piped(z), out)
    BY <1>11, <1>12, <1>13, <1>14, <2>6, <2>7, <2>8 DEF Sound
  <2> QED
    BY <2>9 DEF z
<1>17. m.op # "scanStart" => Sound(q, Piped(q), out)
  BY <1>7, <1>11, <1>12, <1>13, <1>14, <1>15 DEF Sound
<1> QED
  BY <1>5, <1>7, <1>8, <1>16, <1>17

LEMMA Sent ==
  ASSUME Typed, NEW p, NEW m \in Wanted, NEW out, Reading(out),
         Sound(p, Piped(p), out), Sensible(p, m)
  PROVE  LET q == Send(p, m) IN
         /\ Recorded(q) /\ Grows(p, q, m.op, out) /\ q.scanRequest = p.scanRequest
         /\ m.op # "scanStart" => Sound(q, Piped(q), out)
         /\ m.op = "scanStart" => Sound(Following(p, q), Piped(Following(p, q)), out)
<1>1. Recorded(p) /\ p \in PanelRecord
  BY DEF Sound, Recorded
<1> DEFINE q == Send(p, m)
<1> HIDE DEF q
<1>2. CASE q = p
  <2>1. Grows(p, p, m.op, out)
    BY DEF Grows, Steady
  <2>2. m.op = "scanStart" => Following(p, p) = p
    BY <1>1 DEF PanelRecord, Following, Sensible
  <2>3. m.op = "scanStart" => Sound(Following(p, p), Piped(Following(p, p)), out)
    BY <2>2
  <2> QED
    BY <1>1, <1>2, <2>1, <2>3 DEF q
<1>3. CASE q # p
  <2>1. ~Refused(p, m.op) /\ Extended(p, q, m, out)
    BY <1>1, <1>3, Sends DEF q
  <2> QED
    BY <2>1, ExtendedKept DEF q
<1> QED
  BY <1>2, <1>3

-----------------------------------------------------------------------------
(* The functions of the panel.                                             *)

\* The rest of the record is of no concern here.
Alike(p, q) == /\ Steady(p, q) /\ q.requests = p.requests /\ q.sent = p.sent
               /\ q.scanRequest = p.scanRequest

LEMMA AlikeFine ==
  ASSUME NEW p, NEW q, NEW out, Recorded(q), Alike(p, q), Fine(p, out)
  PROVE  Fine(q, out)
<1>1. Piped(q) = Piped(p)
  BY DEF Piped, Alike
<1>2. Sound(q, Piped(q), out)
  BY <1>1 DEF Fine, Sound, Alike, Steady
<1>3. Control(q, Piped(q), out)
  <2>1. \A op : Asks(q, op) <=> Asks(p, op)
    BY DEF Asks, Alike
  <2>2. \A call : Calls(q, call) <=> Calls(p, call)
    BY DEF Calls, Alike, Steady
  <2>3. Offline(q, Piped(q), out) /\ Booting(q) /\ Unlisted(q) /\ Chosen(q)
    BY <1>1, <2>1, <2>2 DEF Fine, Control, Offline, Booting, Unlisted, Chosen, Alike, Steady
  <2>4. Aimed(q) /\ Opening(q)
    BY DEF Fine, Control, Aimed, Opening, Alike, Steady
  <2>5. Launching(q, out) /\ NextScan(q) /\ OneOpen(q)
    BY <2>1, <2>2 DEF Fine, Control, Launching, NextScan, OneOpen, Alike, Steady
  <2> QED
    BY <2>3, <2>4, <2>5 DEF Control
<1> QED
  BY <1>2, <1>3 DEF Fine

LEMMA GrowsFine ==
  ASSUME NEW p, NEW q, NEW op, NEW out, Fine(p, out), Sound(q, Piped(q), out),
         Grows(p, q, op, out), q.scanRequest = p.scanRequest,
         op \notin {"hello", "snapshotOpen", "scanStart"}, ~Calls(p, "open")
  PROVE  Fine(q, out)
<1> USE DEF Steady
<1>1. /\ Steady(p, q) /\ p.requests \subseteq q.requests
      /\ \A r \in q.requests : r \in p.requests \/ r.op = op
      /\ ~p.ready => q.requests = p.requests /\ q.sent = p.sent
  BY DEF Grows
<1>2. Control(p, Piped(p), out)
  BY DEF Fine
<1>3. /\ Asks(q, "hello") <=> Asks(p, "hello")
      /\ Asks(q, "snapshotOpen") <=> Asks(p, "snapshotOpen")
      /\ Asks(q, "scanStart") <=> Asks(p, "scanStart")
  BY <1>1 DEF Asks
<1>4. \A call : Calls(q, call) <=> Calls(p, call)
  BY <1>1 DEF Calls
<1>5. Offline(q, Piped(q), out)
  BY <1>1, <1>2 DEF Control, Offline, Piped
<1>6. Booting(q)
  BY <1>1, <1>2, <1>3 DEF Control, Booting
<1>7. Unlisted(q) /\ Chosen(q)
  BY <1>1, <1>2, <1>3, <1>4 DEF Control, Unlisted, Chosen
<1>8. Aimed(q)
  BY <1>1, <1>2 DEF Control, Aimed
<1>9. Opening(q)
  BY <1>1, <1>4 DEF Opening, Calls
<1>10. Launching(q, out)
  BY <1>1, <1>2, <1>3, <1>4 DEF Control, Launching
<1>11. NextScan(q) /\ OneOpen(q)
  BY <1>1, <1>2, <1>3 DEF Control, NextScan, OneOpen
<1> QED
  BY <1>5, <1>6, <1>7, <1>8, <1>9, <1>10, <1>11 DEF Fine, Control

LEMMA AboutWanted ==
  ASSUME NEW op \in Op, NEW gen \in MaybeGen, NEW token \in MaybeGen
  PROVE  /\ About(op, gen, token) \in Wanted
         /\ About(op, gen, token).op = op /\ About(op, gen, token).gen = gen
         /\ About(op, gen, token).token = token
BY DEF About, Plain, Wanted, MaybeGen, MaybeRoot

\* Any request but those to open, to scan and the first may be sent.
LEMMA SentFine ==
  ASSUME Typed, NEW p, NEW m \in Wanted, NEW out, Reading(out), Fine(p, out),
         Sensible(p, m), m.op \notin {"hello", "snapshotOpen", "scanStart"},
         ~Calls(p, "open")
  PROVE  LET q == Send(p, m) IN
         /\ Fine(q, out) /\ Grows(p, q, m.op, out) /\ q.scanRequest = p.scanRequest
         /\ Recorded(q)
<1>1. Sound(p, Piped(p), out)
  BY DEF Fine
<1> DEFINE q == Send(p, m)
<1>2. /\ Recorded(q) /\ Grows(p, q, m.op, out) /\ q.scanRequest = p.scanRequest
      /\ Sound(q, Piped(q), out)
  BY <1>1, Sent
<1> HIDE DEF q
<1>3. Fine(q, out)
  BY <1>2, GrowsFine
<1> QED
  BY <1>2, <1>3 DEF q

LEMMA CancelFine ==
  ASSUME Typed, NEW p, NEW out, Reading(out), Fine(p, out), ~Calls(p, "open")
  PROVE  /\ Fine(CancelActiveScan(p), out)
         /\ Steady(p, CancelActiveScan(p))
         /\ CancelActiveScan(p).scanRequest = p.scanRequest
<1>1. p \in PanelRecord /\ Recorded(p)
  BY DEF Fine, Sound, Recorded
<1> DEFINE z == [p EXCEPT !.cancelling = TRUE]
           m == About("scanCancel", p.staging, None)
<1>2. CASE p.scanRequest = None \/ p.staging = None \/ p.cancelling
  BY <1>2 DEF CancelActiveScan, Steady
<1>3. CASE ~(p.scanRequest = None \/ p.staging = None \/ p.cancelling)
  <2>1. CancelActiveScan(p) = Send(z, m)
    BY <1>3 DEF CancelActiveScan
  <2>2. /\ m \in Wanted /\ m.op = "scanCancel" /\ m.token = None
    <3>1. "scanCancel" \in Op /\ p.staging \in MaybeGen /\ None \in MaybeGen
      BY <1>1 DEF PanelRecord, Op, MaybeGen
    <3> QED
      BY <3>1, AboutWanted
  <2>3. Alike(p, z) /\ z \in PanelRecord /\ z.requests = p.requests
        /\ z.later = p.later /\ z.activation = p.activation
    BY <1>1 DEF PanelRecord, Alike, Steady
  <2> HIDE DEF z, m
  <2>4. Fine(z, out)
    BY <1>1, <2>3, AlikeFine DEF Recorded
  <2>5. Sensible(z, m)
    <3>1. z.activation # None => z.activation.token # None
      BY <2>3, NoneIsNothing DEF PanelRecord, Activation
    <3> QED
      BY <2>2, <3>1 DEF Sensible
  <2>6. ~Calls(z, "open")
    BY <2>3 DEF Calls
  <2>7. /\ Fine(Send(z, m), out) /\ Grows(z, Send(z, m), m.op, out)
        /\ Send(z, m).scanRequest = z.scanRequest
    BY <2>2, <2>4, <2>5, <2>6, SentFine
  <2> QED
    BY <2>1, <2>3, <2>7 DEF Grows, Alike, Steady
<1> QED
  BY <1>2, <1>3

LEMMA StartFine ==
  ASSUME NEW p, NEW out, Fine(p, out)
  PROVE  /\ Fine(StartBroker(p), out)
         /\ \A q : q = StartBroker(p) =>
              /\ q.listed = p.listed /\ q.preferred = p.preferred
              /\ q.treeRoot = p.treeRoot /\ q.ready = p.ready /\ q.later = p.later
              /\ q.activation = p.activation /\ q.requests = p.requests
              /\ q.pendingScan = p.pendingScan /\ q.scanRequest = p.scanRequest
              /\ q.available = p.available
<1> DEFINE z == [p EXCEPT !.process = "starting", !.terminating = FALSE,
                          !.requests = {}]
<1>1. p \in PanelRecord /\ Recorded(p) /\ Control(p, Piped(p), out)
  BY DEF Fine, Sound, Recorded
<1>2. CASE Running(p) \/ p.ready
  BY <1>2 DEF StartBroker
<1>3. CASE ~(Running(p) \/ p.ready)
  <2>1. StartBroker(p) = z
    BY <1>3 DEF StartBroker
  <2>2. p.process # "up" /\ p.requests = {}
    BY <1>1, <1>3 DEF Running, Control, Offline
  <2>3. /\ z \in PanelRecord /\ z.requests = {} /\ z.process = "starting" /\ z.sent = p.sent
        /\ z.listed = p.listed /\ z.preferred = p.preferred
        /\ z.treeRoot = p.treeRoot /\ z.ready = p.ready /\ z.later = p.later
        /\ z.activation = p.activation /\ z.view = p.view
        /\ z.pendingScan = p.pendingScan /\ z.scanRequest = p.scanRequest
        /\ z.available = p.available
    BY <1>1 DEF PanelRecord
  <2> HIDE DEF z
  <2>4. Piped(z) = Piped(p)
    BY <2>3 DEF Piped
  <2>5. Sound(z, Piped(z), out)
    BY <2>2, <2>3, <2>4 DEF Fine, Sound, Recorded
  <2>6. \A op : Asks(z, op) <=> Asks(p, op)
    BY <2>2, <2>3 DEF Asks
  <2>7. \A call : Calls(z, call) <=> Calls(p, call)
    BY <2>3 DEF Calls
  <2>8. Offline(z, Piped(z), out) /\ Booting(z) /\ Unlisted(z) /\ Chosen(z)
    BY <1>1, <2>2, <2>3, <2>4, <2>6, <2>7
       DEF Control, Offline, Booting, Unlisted, Chosen
  <2>9. Aimed(z) /\ Opening(z)
    BY <1>1, <2>2, <2>3 DEF Control, Aimed, Opening
  <2>10. Launching(z, out) /\ NextScan(z) /\ OneOpen(z)
    BY <1>1, <2>2, <2>3, <2>6, <2>7 DEF Control, Launching, NextScan, OneOpen
  <2>11. Fine(z, out)
    BY <2>5, <2>8, <2>9, <2>10 DEF Fine, Control
  <2> QED
    BY <2>1, <2>2, <2>3, <2>11
<1> QED
  BY <1>2, <1>3

LEMMA LaunchFine ==
  ASSUME Typed, NEW p, NEW out, Reading(out), Fine(p, out), NEW scan \in PutOff,
         scan.current /\ p.ready =>
           /\ p.listed /\ scan.root = p.treeRoot
           /\ p.scanRequest = None /\ p.pendingScan = None
           /\ ~Calls(p, "launch") /\ ~Calls(p, "open")
           /\ Asks(p, "snapshotOpen") => p.activation = None
  PROVE  Fine(LaunchScan(p, scan), out)
<1>1. p \in PanelRecord /\ Recorded(p) /\ Control(p, Piped(p), out)
  BY DEF Fine, Sound, Recorded
<1> DEFINE z == [p EXCEPT !.cancelling = FALSE]
           m == [Plain("scanStart") EXCEPT !.root = scan.root, !.mount = scan.mount,
                                           !.asked = scan.asked]
<1>2. CASE ~(scan.current /\ p.ready)
  BY <1>2 DEF LaunchScan
<1>3. CASE scan.current /\ p.ready
  <2> DEFINE q == Send(z, m)
             w == Following(z, q)
  <2>1. LaunchScan(p, scan) = w
    BY <1>3 DEF LaunchScan, Following
  <2>2. /\ m \in Wanted /\ m.op = "scanStart" /\ m.token = None /\ m.gen = None
        /\ m.root = scan.root
    BY DEF PutOff, Plain, Wanted, Op, MaybeGen, MaybeRoot
  <2>3. Alike(p, z) /\ z \in PanelRecord /\ z.requests = p.requests
    BY <1>1 DEF PanelRecord, Alike, Steady
  <2> HIDE DEF z, m
  <2>4. Fine(z, out)
    BY <1>1, <2>3, AlikeFine DEF Recorded
  <2>5. Sensible(z, m)
    <3>1. z.activation # None => z.activation.token # None
      BY <2>3, NoneIsNothing DEF PanelRecord, Activation
    <3>2. z.treeRoot = p.treeRoot /\ z.scanRequest = p.scanRequest
      BY <2>3 DEF Alike, Steady
    <3> QED
      BY <1>3, <2>2, <3>1, <3>2 DEF Sensible
  <2>6. /\ Recorded(q) /\ Grows(z, q, "scanStart", out) /\ Sound(w, Piped(w), out)
    BY <2>2, <2>4, <2>5, Sent DEF Fine
  <2> HIDE DEF q
  <2>7. Steady(q, w) /\ w.requests = q.requests
    BY <2>6 DEF Recorded, PanelRecord, Following, Steady
  <2> HIDE DEF w
  <2>8. Steady(p, w)
    BY <2>3, <2>6, <2>7 DEF Alike, Grows, Steady
  <2>9. /\ p.requests \subseteq w.requests
        /\ \A r \in w.requests : r \in p.requests \/ r.op = "scanStart"
    BY <2>3, <2>6, <2>7 DEF Alike, Grows
  <2>10. p.process = "up" /\ ~Asks(p, "hello")
    BY <1>1, <1>3 DEF Control, Offline, Booting
  <2>11. /\ ~Asks(w, "hello") /\ (Asks(w, "snapshotOpen") <=> Asks(p, "snapshotOpen"))
    BY <2>9, <2>10 DEF Asks
  <2>12. \A call : Calls(w, call) <=> Calls(p, call)
    BY <2>8 DEF Calls, Steady
  <2>13. Offline(w, Piped(w), out) /\ Booting(w) /\ Unlisted(w)
    BY <1>3, <2>8, <2>10, <2>11 DEF Offline, Booting, Unlisted, Steady
  <2>14. Chosen(w) /\ Aimed(w)
    BY <1>1, <1>3, <2>8 DEF Control, Chosen, Aimed, Steady
  <2>15. Opening(w) /\ Launching(w, out) /\ NextScan(w)
    BY <1>3, <2>8, <2>12 DEF Opening, Launching, NextScan, Calls, Steady
  <2>16. OneOpen(w)
    BY <1>1, <1>3, <2>8, <2>9, <2>11 DEF Control, OneOpen, Steady
  <2>17. Fine(w, out)
    BY <2>6, <2>13, <2>14, <2>15, <2>16 DEF Fine, Control
  <2> QED
    BY <2>1, <2>17
<1> QED
  BY <1>2, <1>3

LEMMA OpenFine ==
  ASSUME Typed, NEW p, NEW out, Reading(out), Fine(p, out), NEW root \in MaybeRoot,
         p.ready /\ p.listed /\ root = p.treeRoot =>
           /\ ~Asks(p, "snapshotOpen") /\ p.pendingScan = None
           /\ p.scanRequest = None \/ p.activation = None
           /\ ~Calls(p, "open")
           /\ Calls(p, "launch") => p.activation = None
  PROVE  Fine(RequestSnapshotOpen(p, root), out)
<1>1. p \in PanelRecord /\ Recorded(p) /\ Control(p, Piped(p), out)
  BY DEF Fine, Sound, Recorded
<1>2. CASE Selected(p) = None \/ root # p.treeRoot
  BY <1>2 DEF RequestSnapshotOpen
<1>3. CASE ~(Selected(p) = None \/ root # p.treeRoot) /\ ~p.ready
  <2> DEFINE z == [p EXCEPT !.pendingOpen = root]
  <2>1. RequestSnapshotOpen(p, root) = StartBroker(z)
    BY <1>3 DEF RequestSnapshotOpen
  <2>2. Alike(p, z) /\ z \in PanelRecord /\ z.requests = p.requests
    BY <1>1 DEF PanelRecord, Alike, Steady
  <2> HIDE DEF z
  <2>3. Fine(z, out)
    BY <1>1, <2>2, AlikeFine DEF Recorded
  <2> QED
    BY <2>1, <2>3, StartFine
<1>4. CASE ~(Selected(p) = None \/ root # p.treeRoot) /\ p.ready
  <2> DEFINE m == [Plain("snapshotOpen") EXCEPT !.root = root, !.mount = Selected(p)]
             q == Send(p, m)
  <2>1. RequestSnapshotOpen(p, root) = q
    BY <1>4 DEF RequestSnapshotOpen
  <2>2. p.listed /\ Selected(p) \in MaybeRoot
    BY <1>1, <1>4 DEF Selected, PanelRecord
  <2>3. /\ m \in Wanted /\ m.op = "snapshotOpen" /\ m.token = None /\ m.root = root
    BY <2>2 DEF Plain, Wanted, Op, MaybeGen, MaybeRoot
  <2> HIDE DEF m
  <2>4. Sensible(p, m)
    <3>1. p.activation # None => p.activation.token # None
      BY <1>1, NoneIsNothing DEF PanelRecord, Activation
    <3> QED
      BY <1>4, <2>3, <3>1 DEF Sensible
  <2>5. /\ Recorded(q) /\ Grows(p, q, "snapshotOpen", out) /\ Sound(q, Piped(q), out)
        /\ q.scanRequest = p.scanRequest
    BY <2>3, <2>4, Sent DEF Fine
  <2> HIDE DEF q
  <2>6. Steady(p, q)
    BY <2>5 DEF Grows
  <2>7. /\ p.requests \subseteq q.requests
        /\ \A r \in q.requests \ p.requests :
             r.op = "snapshotOpen" /\ \A i \in DOMAIN out : out[i].id # r.id
        /\ \A r, s \in q.requests \ p.requests : r = s
    BY <2>5 DEF Grows
  <2>8. p.process = "up" /\ ~Asks(p, "hello") /\ ~Asks(p, "snapshotOpen")
    BY <1>1, <1>4, <2>2 DEF Control, Offline, Booting
  <2>9. ~Asks(q, "hello") /\ (Asks(q, "scanStart") <=> Asks(p, "scanStart"))
    BY <2>7, <2>8 DEF Asks
  <2>10. \A call : Calls(q, call) <=> Calls(p, call)
    BY <2>6 DEF Calls, Steady
  <2>11. Offline(q, Piped(q), out) /\ Booting(q) /\ Unlisted(q)
    BY <1>4, <2>2, <2>6, <2>8, <2>9 DEF Offline, Booting, Unlisted, Steady
  <2>12. Chosen(q) /\ Aimed(q)
    BY <1>1, <1>4, <2>6 DEF Control, Chosen, Aimed, Steady
  <2>13. Opening(q) /\ NextScan(q)
    BY <1>4, <2>2, <2>6, <2>10 DEF Opening, NextScan, Calls, Steady
  <2>14. \A r \in q.requests : r.op = "snapshotOpen" => r \in q.requests \ p.requests
    BY <2>8 DEF Asks
  <2>15. Launching(q, out)
    BY <1>1, <1>4, <2>2, <2>5, <2>6, <2>7, <2>10, <2>14 DEF Control, Launching, Steady
  <2>16. OneOpen(q)
    BY <1>4, <2>2, <2>5, <2>6, <2>7, <2>14 DEF OneOpen, Steady
  <2>17. Fine(q, out)
    BY <2>5, <2>11, <2>12, <2>13, <2>15, <2>16 DEF Fine, Control
  <2> QED
    BY <2>1, <2>17
<1> QED
  BY <1>2, <1>3, <1>4

LEMMA ScanFine ==
  ASSUME Typed, NEW p, NEW out, Reading(out), Fine(p, out), NEW asked \in BOOLEAN,
         ~Calls(p, "open"), p.process = "up",
         p.ready => /\ ~Asks(p, "snapshotOpen") /\ ~Calls(p, "launch")
                    /\ p.scanRequest = None \/ p.activation = None
                    /\ p.scanRequest = None => p.pendingScan = None
  PROVE  Fine(RequestScan(p, asked), out)
<1>1. p \in PanelRecord /\ Recorded(p) /\ Control(p, Piped(p), out)
  BY DEF Fine, Sound, Recorded
<1> DEFINE scan == [call |-> "scan", root |-> p.treeRoot, mount |-> Selected(p),
                    asked |-> asked, current |-> TRUE]
           z == [p EXCEPT !.pendingScan = scan]
<1>2. CASE Selected(p) = None
  BY <1>2 DEF RequestScan
<1>3. CASE Selected(p) # None
  <2>1. p.listed /\ Selected(p) \in MaybeRoot /\ p.treeRoot \in MaybeRoot
    BY <1>1, <1>3 DEF Selected, PanelRecord
  <2>2. scan \in PutOff /\ scan.root = p.treeRoot
    BY <2>1 DEF PutOff, MaybeRoot
  <2>3. RequestScan(p, asked) =
          IF ~p.ready THEN StartBroker(z)
          ELSE IF p.scanRequest # None THEN CancelActiveScan(z)
          ELSE LaunchScan(p, scan)
    BY <1>3 DEF RequestScan
  <2>4. CASE p.ready /\ p.scanRequest = None
    BY <2>1, <2>2, <2>3, <2>4, LaunchFine
  <2>5. CASE ~p.ready \/ p.scanRequest # None
    <3> HIDE DEF scan
    <3>1. /\ z \in PanelRecord /\ z.pendingScan = scan
          /\ z.listed = p.listed /\ z.preferred = p.preferred /\ z.treeRoot = p.treeRoot
          /\ z.process = p.process /\ z.ready = p.ready /\ z.later = p.later
          /\ z.activation = p.activation /\ z.view = p.view
          /\ z.requests = p.requests /\ z.sent = p.sent /\ z.scanRequest = p.scanRequest
      BY <1>1, <2>2 DEF PanelRecord
    <3> HIDE DEF z
    <3>2. Piped(z) = Piped(p)
      BY <3>1 DEF Piped
    <3>3. Sound(z, Piped(z), out)
      BY <3>1, <3>2 DEF Fine, Sound, Recorded
    <3>4. /\ \A op : Asks(z, op) <=> Asks(p, op)
          /\ \A call : Calls(z, call) <=> Calls(p, call)
      BY <3>1 DEF Asks, Calls
    <3>5. Offline(z, Piped(z), out) /\ Booting(z) /\ Unlisted(z) /\ Chosen(z)
      BY <1>1, <2>1, <3>1, <3>2, <3>4 DEF Control, Offline, Booting, Unlisted, Chosen
    <3>6. Aimed(z)
      BY <1>1, <2>2, <3>1 DEF Control, Aimed
    <3>7. Opening(z)
      BY <3>1 DEF Opening, Calls
    <3>8. Launching(z, out) /\ NextScan(z) /\ OneOpen(z)
      BY <1>1, <2>5, <3>1, <3>4 DEF Control, Launching, NextScan, OneOpen
    <3>9. Fine(z, out) /\ ~Calls(z, "open")
      BY <3>3, <3>4, <3>5, <3>6, <3>7, <3>8 DEF Fine, Control
    <3>10. Fine(StartBroker(z), out)
      BY <3>9, StartFine
    <3>11. Fine(CancelActiveScan(z), out)
      BY <3>9, CancelFine
    <3> QED
      BY <2>3, <2>5, <3>10, <3>11
  <2> QED
    BY <2>4, <2>5
<1> QED
  BY <1>2, <1>3

LEMMA SelectFine ==
  ASSUME Typed, NEW p, NEW out, Reading(out), Fine(p, out), NEW root \in Root,
         p.later = <<>>,
         \/ p.listed /\ p.preferred = root /\ p.treeRoot = root
         \/ /\ p.scanRequest = None /\ ~Asks(p, "snapshotOpen")
            /\ p.activation = None \/ (~p.ready /\ p.requests = {})
  PROVE  Fine(SelectFilesystem(p, root), out)
<1>1. p \in PanelRecord /\ Recorded(p) /\ Control(p, Piped(p), out)
  BY DEF Fine, Sound, Recorded
<1>2. CASE Selected(p) = root /\ p.treeRoot = root
  BY <1>2 DEF SelectFilesystem
<1>3. CASE ~(Selected(p) = root /\ p.treeRoot = root)
  <2> DEFINE y == NextTreeGeneration(p)
             z == [y EXCEPT !.listed = TRUE, !.preferred = root, !.treeRoot = root]
  <2>1. /\ p.scanRequest = None /\ ~Asks(p, "snapshotOpen")
        /\ p.activation = None \/ (~p.ready /\ p.requests = {})
    BY <1>3 DEF Selected
  <2>2. y = [p EXCEPT !.pendingScan = None, !.later = <<>>]
    <3>1. [i \in DOMAIN p.later |-> [p.later[i] EXCEPT !.current = FALSE]] = <<>>
      OBVIOUS
    <3> QED
      BY <3>1 DEF NextTreeGeneration
  <2>3. CancelActiveScan(y) = y
    <3>1. y.scanRequest = None
      BY <1>1, <2>1, <2>2 DEF PanelRecord
    <3> QED
      BY <3>1 DEF CancelActiveScan
  <2>4. SelectFilesystem(p, root) = RequestSnapshotOpen(z, root)
    BY <1>3, <2>3 DEF SelectFilesystem
  <2>5. /\ z \in PanelRecord /\ z.pendingScan = None /\ z.later = <<>>
        /\ z.listed = TRUE /\ z.preferred = root /\ z.treeRoot = root
        /\ z.process = p.process /\ z.ready = p.ready
        /\ z.activation = p.activation /\ z.view = p.view
        /\ z.requests = p.requests /\ z.sent = p.sent /\ z.scanRequest = p.scanRequest
    <3> DEFINE x == [p EXCEPT !.pendingScan = None, !.later = <<>>]
    <3>1. /\ x \in PanelRecord /\ x.pendingScan = None /\ x.later = <<>>
          /\ x.process = p.process /\ x.ready = p.ready
          /\ x.activation = p.activation /\ x.view = p.view
          /\ x.requests = p.requests /\ x.sent = p.sent
          /\ x.scanRequest = p.scanRequest
      BY <1>1 DEF PanelRecord
    <3> HIDE DEF x
    <3>2. z = [x EXCEPT !.listed = TRUE, !.preferred = root, !.treeRoot = root]
      BY <2>2 DEF x
    <3>3. root \in MaybeRoot
      BY DEF MaybeRoot
    <3> HIDE DEF z
    <3>4. z \in PanelRecord
      BY <3>1, <3>2, <3>3, ZenonT(30) DEF PanelRecord
    <3>5. /\ z.pendingScan = x.pendingScan /\ z.later = x.later
          /\ z.listed = TRUE /\ z.preferred = root /\ z.treeRoot = root
          /\ z.process = x.process /\ z.ready = x.ready
          /\ z.activation = x.activation /\ z.view = x.view
          /\ z.requests = x.requests /\ z.sent = x.sent
          /\ z.scanRequest = x.scanRequest
      BY <3>1, <3>2 DEF PanelRecord
    <3> QED
      BY <3>1, <3>4, <3>5
  <2> HIDE DEF y, z
  <2>6. Piped(z) = Piped(p)
    BY <2>5 DEF Piped
  <2>7. \A op : Asks(z, op) <=> Asks(p, op)
    BY <2>5 DEF Asks
  <2>8. \A call : ~Calls(z, call)
    BY <2>5 DEF Calls
  <2>9. SameRoot(z.requests, Piped(z), out, z.treeRoot)
    <3> SUFFICES ASSUME NEW r \in p.requests
        PROVE  /\ \A i \in DOMAIN Piped(p) : Piped(p)[i].id = r.id =>
                    r.op \notin {"snapshotOpen", "scanStart"}
               /\ \A i \in DOMAIN out : out[i].id = r.id =>
                    out[i].type \notin {"snapshotAvailable", "snapshotActivated"}
               /\ \A o \in outcomes : o.id # r.id
               /\ ~Runs(r.id)
      BY <2>5, <2>6 DEF SameRoot
    <3>1. r.op # "snapshotOpen"
      BY <2>1 DEF Asks
    <3>2. r.op = "scanStart" => ~Awaits(r, Piped(p), out)
      <4>1. OneScan(p.requests, Piped(p), out, None)
        BY <2>1 DEF Fine, Sound
      <4>2. r.id # None
        BY <1>1, NoneIsNothing DEF PanelRecord, Request, Number
      <4> QED
        BY <4>1, <4>2 DEF OneScan
    <3>3. Matched(p.requests, Piped(p), out)
      BY DEF Fine, Sound, Wire
    <3>4. \A i \in DOMAIN out : out[i].id = r.id =>
            out[i].type \notin {"snapshotAvailable", "snapshotActivated"}
      <4> SUFFICES ASSUME NEW i \in DOMAIN out, out[i].id = r.id,
                          out[i].type \in {"snapshotAvailable", "snapshotActivated"}
          PROVE  FALSE
        OBVIOUS
      <4>1. r.op \in AnsweredBy(out[i].type)
        BY <3>3 DEF Matched
      <4>2. r.op = "scanStart"
        BY <3>1, <4>1, AnswerTypes
      <4> QED
        BY <3>2, <4>2 DEF Awaits
    <3>5. \A o \in outcomes : o.id = r.id => r.op = "scanStart"
      BY <3>3 DEF Matched
    <3>6. Runs(r.id) => r.op = "scanStart"
      BY <3>3 DEF Matched
    <3> QED
      BY <3>1, <3>2, <3>4, <3>5, <3>6 DEF Awaits
  <2>10. Sound(z, Piped(z), out)
    BY <2>5, <2>6, <2>9 DEF Fine, Sound, Recorded
  <2>11. Offline(z, Piped(z), out) /\ Booting(z) /\ Unlisted(z) /\ Chosen(z)
    BY <1>1, <2>5, <2>6, <2>7 DEF Control, Offline, Booting, Unlisted, Chosen
  <2>12. Aimed(z)
    BY <2>1, <2>5 DEF Aimed
  <2>13. Opening(z) /\ Launching(z, out) /\ NextScan(z) /\ OneOpen(z)
    BY <2>1, <2>5, <2>7, <2>8 DEF Opening, Launching, NextScan, OneOpen, Calls
  <2>14. Fine(z, out)
    BY <2>10, <2>11, <2>12, <2>13 DEF Fine, Control
  <2>15. root \in MaybeRoot
    BY DEF MaybeRoot
  <2>16. Fine(RequestSnapshotOpen(z, root), out)
    BY <2>1, <2>5, <2>7, <2>8, <2>14, <2>15, OpenFine
  <2> QED
    BY <2>4, <2>16
<1> QED
  BY <1>2, <1>3

LEMMA LaunchPendingFine ==
  ASSUME NEW p, NEW out, Fine(p, out), ~Asks(p, "hello"),
         p.ready /\ p.pendingScan # None => p.scanRequest = None /\ p.activation = None
  PROVE  Fine(LaunchPendingScan(p), out)
<1>1. p \in PanelRecord /\ Recorded(p) /\ Control(p, Piped(p), out)
  BY DEF Fine, Sound, Recorded
<1> DEFINE y == [p EXCEPT !.pendingScan = None]
           call == Launch(p.pendingScan)
           z == [p EXCEPT !.pendingScan = None, !.later = Append(p.later, call)]
<1>2. CASE p.pendingScan = None
  <2>1. LaunchPendingScan(p) = y
    BY <1>2 DEF LaunchPendingScan
  <2>2. y = p
    BY <1>1, <1>2 DEF PanelRecord
  <2> QED
    BY <2>1, <2>2
<1>3. CASE p.pendingScan # None
  <2>1. LaunchPendingScan(p) = z
    BY <1>1, <1>3 DEF LaunchPendingScan, Later, PanelRecord
  <2>2. /\ call \in PutOff /\ call.call = "launch" /\ call.root = p.treeRoot
    BY <1>1, <1>3 DEF Launch, PutOff, PanelRecord, Control, Aimed
  <2>3. p.later \in Seq(Call) /\ call \in Call
    BY <1>1, <2>2 DEF PanelRecord, Call
  <2> HIDE DEF call
  <2> DEFINE later == Append(p.later, call)
  <2>4. /\ later \in Seq(Call) /\ DOMAIN later = 1..(Len(p.later) + 1)
        /\ \A i \in DOMAIN later :
             later[i] = IF i = Len(p.later) + 1 THEN call ELSE p.later[i]
        /\ \A i \in DOMAIN later : i = Len(p.later) + 1 \/ i \in DOMAIN p.later
        /\ DOMAIN p.later = 1..Len(p.later) /\ Len(p.later) \in Nat
    BY <2>3, Appended
  <2>5. z = [p EXCEPT !.pendingScan = None, !.later = later]
    OBVIOUS
  <2> HIDE DEF later, z
  <2>6. /\ z \in PanelRecord /\ z.pendingScan = None /\ z.later = later
        /\ z.listed = p.listed /\ z.preferred = p.preferred /\ z.treeRoot = p.treeRoot
        /\ z.process = p.process /\ z.ready = p.ready
        /\ z.activation = p.activation /\ z.view = p.view
        /\ z.requests = p.requests /\ z.sent = p.sent /\ z.scanRequest = p.scanRequest
    BY <1>1, <2>4, <2>5 DEF PanelRecord
  <2>7. Piped(z) = Piped(p)
    BY <2>6 DEF Piped
  <2>8. Sound(z, Piped(z), out)
    BY <2>6, <2>7 DEF Fine, Sound, Recorded
  <2>9. \A op : Asks(z, op) <=> Asks(p, op)
    BY <2>6 DEF Asks
  <2>10. p.ready => ~Calls(p, "launch") /\ ~Asks(p, "snapshotOpen")
    BY <1>1, <1>3 DEF Control, Launching, NextScan
  <2>11. ~Calls(p, "open")
    BY <1>1, <1>3 DEF Control, Opening, Calls
  <2>12. Offline(z, Piped(z), out) /\ Booting(z)
    BY <1>1, <2>6, <2>7, <2>9 DEF Control, Offline, Booting
  <2>13. Unlisted(z) /\ Chosen(z)
    BY <1>1, <1>3, <2>6 DEF Control, Unlisted, Chosen
  <2>14. Aimed(z)
    BY <1>1, <2>2, <2>4, <2>6 DEF Control, Aimed
  <2>15. Opening(z)
    BY <2>2, <2>4, <2>6, <2>11 DEF Opening, Calls
  <2>16. Launching(z, out)
    BY <1>3, <2>2, <2>4, <2>6, <2>9, <2>10 DEF Launching, Calls, Asks
  <2>17. NextScan(z) /\ OneOpen(z)
    BY <1>1, <2>6, <2>9 DEF Control, NextScan, OneOpen
  <2>18. Fine(z, out)
    BY <2>8, <2>12, <2>13, <2>14, <2>15, <2>16, <2>17 DEF Fine, Control
  <2> QED
    BY <2>1, <2>18
<1> QED
  BY <1>2, <1>3

\* Requests that are given up, an activation or a scan that is over.
LEMMA LessFine ==
  ASSUME NEW p, NEW z, NEW out, Fine(p, out), z \in PanelRecord,
         z.requests \subseteq p.requests, z.sent = p.sent,
         z.listed = p.listed, z.preferred = p.preferred, z.treeRoot = p.treeRoot,
         z.process = p.process, z.later = p.later,
         z.ready = p.ready \/ (~z.ready /\ ~Calls(p, "open")),
         z.pendingScan \in {p.pendingScan, None},
         z.scanRequest \in {p.scanRequest, None}, z.activation \in {p.activation, None},
         NoneForgotten(z.requests, Piped(p), out, z.activation),
         OneScan(z.requests, Piped(p), out, z.scanRequest),
         RowsNamed(z.requests, z.view, z.activation)
  PROVE  Fine(z, out)
<1>1. p \in PanelRecord /\ Recorded(p) /\ Control(p, Piped(p), out)
  BY DEF Fine, Sound, Recorded
<1>2. Piped(z) = Piped(p)
  BY DEF Piped
<1>3. Recorded(z)
  BY <1>1, FS_Subset DEF Recorded
<1>4. Wire(z.requests, Piped(p), out) /\ SameRoot(z.requests, Piped(p), out, z.treeRoot)
  BY FewerRequests DEF Fine, Sound
<1>5. Sound(z, Piped(z), out)
  BY <1>2, <1>3, <1>4 DEF Sound
<1>6. /\ \A op : Asks(z, op) => Asks(p, op)
      /\ \A call : Calls(z, call) <=> Calls(p, call)
  BY DEF Asks, Calls
<1>7. Offline(z, Piped(z), out) /\ Booting(z) /\ Unlisted(z) /\ Chosen(z)
  BY <1>1, <1>2, <1>6 DEF Control, Offline, Booting, Unlisted, Chosen
<1>8. Aimed(z)
  BY <1>1 DEF Control, Aimed
<1>9. Opening(z)
  BY <1>1 DEF Control, Opening, Calls
<1>10. Launching(z, out) /\ NextScan(z) /\ OneOpen(z)
  BY <1>1, <1>6 DEF Control, Launching, NextScan, OneOpen
<1> QED
  BY <1>5, <1>7, <1>8, <1>9, <1>10 DEF Fine, Control

LEMMA FreshTokens ==
  ASSUME NEW p, Recorded(p)
  PROVE  /\ FreshToken(p) \in Number /\ FreshToken(p) # None
         /\ \A r \in p.requests : r.token # FreshToken(p)
<1> DEFINE S == {r.token : r \in p.requests}
           A == IF p.activation = None THEN {} ELSE {p.activation.token}
<1>1. IsFiniteSet(S)
  BY FiniteTokens DEF Recorded
<1>2. IsFiniteSet(A)
  BY FS_EmptySet, FS_Singleton
<1>3. FreshToken(p) = Least(S \cup A)
  BY DEF FreshToken
<1>4. \A r \in p.requests : r.token \in S
  OBVIOUS
<1> HIDE DEF S, A
<1>5. IsFiniteSet(S \cup A)
  BY <1>1, <1>2, FiniteUnion
<1>6. FreshToken(p) \in Number /\ FreshToken(p) \notin S
  BY <1>3, <1>5, LeastFresh
<1> QED
  BY <1>4, <1>6, NoneIsNothing DEF Number

LEMMA BeginFine ==
  ASSUME Typed, NEW p, NEW out, Reading(out), Fine(p, out),
         NEW gen \in MaybeGen, NEW root \in MaybeRoot, root = p.treeRoot,
         p.listed, p.process = "up", ~Asks(p, "hello"), ~Calls(p, "open"),
         p.ready => /\ ~Calls(p, "launch")
                    /\ p.pendingScan = None \/ p.scanRequest = None
                    /\ ~Asks(p, "snapshotOpen") \/ p.scanRequest = None
  PROVE  Fine(BeginActivation(p, gen, root), out)
<1>1. p \in PanelRecord /\ Recorded(p) /\ Control(p, Piped(p), out)
  BY DEF Fine, Sound, Recorded
<1> DEFINE token == FreshToken(p)
           act == [token |-> token, gen |-> gen, root |-> root, rows |-> {}]
           z == [p EXCEPT !.activation = act]
           m1 == About("metadata", gen, token)
           m2 == About("children", gen, token)
           q == Send(z, m1)
<1>2. BeginActivation(p, gen, root) = Send(q, m2)
  BY DEF BeginActivation
<1>3. token \in Number /\ token # None /\ \A r \in p.requests : r.token # token
  BY <1>1, FreshTokens
<1> HIDE DEF token
<1>4. act \in Activation /\ act # None /\ act.token = token /\ act.gen = gen /\ act.root = root
  <2>1. act \in Activation
    BY <1>3 DEF Activation, Number, MaybeGen, MaybeRoot
  <2> QED
    BY <2>1, NoneIsNoCall
<1>5. /\ m1 \in Wanted /\ m1.op = "metadata" /\ m1.gen = gen /\ m1.token = token
      /\ m2 \in Wanted /\ m2.op = "children" /\ m2.gen = gen /\ m2.token = token
  <2>1. "metadata" \in Op /\ "children" \in Op /\ token \in MaybeGen
    BY <1>3 DEF Op, Number, MaybeGen
  <2> QED
    BY <2>1, AboutWanted
<1> HIDE DEF act, m1, m2
<1>6. /\ z \in PanelRecord /\ z.activation = act
      /\ z.listed = p.listed /\ z.preferred = p.preferred /\ z.treeRoot = p.treeRoot
      /\ z.process = p.process /\ z.ready = p.ready /\ z.later = p.later
      /\ z.pendingScan = p.pendingScan /\ z.view = p.view
      /\ z.requests = p.requests /\ z.sent = p.sent /\ z.scanRequest = p.scanRequest
  BY <1>1, <1>4 DEF PanelRecord
<1> HIDE DEF z
<1>7. Piped(z) = Piped(p)
  BY <1>6 DEF Piped
<1>8. NoneForgotten(z.requests, Piped(p), out, z.activation)
  <2>1. NoneForgotten(p.requests, Piped(p), out, p.activation)
    BY DEF Fine, Sound
  <2> QED
    BY <1>3, <1>4, <1>6, <2>1 DEF NoneForgotten, Passed
<1>9. RowsNamed(z.requests, z.view, z.activation)
  <2>1. RowsNamed(p.requests, p.view, p.activation)
    BY DEF Fine, Sound
  <2> QED
    BY <1>3, <1>4, <1>6, <2>1 DEF RowsNamed
<1>10. Sound(z, Piped(z), out)
  BY <1>1, <1>6, <1>7, <1>8, <1>9 DEF Fine, Sound, Recorded
<1>11. /\ \A op : Asks(z, op) <=> Asks(p, op)
       /\ \A call : Calls(z, call) <=> Calls(p, call)
  BY <1>6 DEF Asks, Calls
<1>12. Offline(z, Piped(z), out) /\ Booting(z) /\ Unlisted(z) /\ Chosen(z)
  BY <1>1, <1>6, <1>11 DEF Control, Offline, Booting, Unlisted, Chosen
<1>13. Aimed(z)
  BY <1>1, <1>4, <1>6 DEF Control, Aimed
<1>14. Opening(z) /\ Launching(z, out)
  BY <1>6, <1>11 DEF Opening, Launching, Calls
<1>15. NextScan(z) /\ OneOpen(z)
  BY <1>1, <1>6, <1>11 DEF Control, NextScan, OneOpen
<1>16. Fine(z, out)
  BY <1>10, <1>12, <1>13, <1>14, <1>15 DEF Fine, Control
<1>17. /\ Fine(q, out) /\ Grows(z, q, "metadata", out)
  <2>1. Sensible(z, m1)
    BY <1>3, <1>4, <1>5, <1>6 DEF Sensible
  <2> QED
    BY <1>5, <1>11, <1>16, <2>1, SentFine
<1> HIDE DEF q
<1>18. Fine(Send(q, m2), out)
  <2>1. q.activation = act /\ q.later = z.later
    BY <1>6, <1>17 DEF Grows, Steady
  <2>2. Sensible(q, m2)
    BY <1>3, <1>4, <1>5, <2>1 DEF Sensible
  <2>3. ~Calls(q, "open")
    BY <1>11, <2>1 DEF Calls
  <2> QED
    BY <1>5, <1>17, <2>2, <2>3, SentFine
<1> QED
  BY <1>2, <1>18

LEMMA AbortFine ==
  ASSUME Typed, NEW p, NEW out, Reading(out), Fine(p, out),
         ~Asks(p, "hello"), ~Calls(p, "open")
  PROVE  Fine(AbortPendingActivation(p), out)
<1>1. p \in PanelRecord /\ Recorded(p) /\ Control(p, Piped(p), out)
  BY DEF Fine, Sound, Recorded
<1>2. CASE p.activation = None
  BY <1>2 DEF AbortPendingActivation
<1>3. CASE p.activation # None
  <2> DEFINE act == p.activation
             left == {r \in p.requests : r.token # act.token}
             z == [p EXCEPT !.activation = None, !.requests = left]
             m == About("activationAbort", act.gen, act.token)
             q == Send(z, m)
  <2>1. AbortPendingActivation(p) = LaunchPendingScan(q)
    BY <1>3 DEF AbortPendingActivation
  <2>2. act \in Activation /\ act.token # None
    BY <1>1, <1>3, NoneIsNothing DEF PanelRecord, Activation
  <2>3. m \in Wanted /\ m.op = "activationAbort"
    <3>1. "activationAbort" \in Op /\ act.gen \in MaybeGen /\ act.token \in MaybeGen
      BY <2>2 DEF Op, MaybeGen, Activation
    <3> QED
      BY <3>1, AboutWanted
  <2>4. left \subseteq p.requests /\ left \subseteq Request /\ \A r \in left : r.token # act.token
    BY <1>1 DEF PanelRecord
  <2> HIDE DEF left, m
  <2>5. /\ z \in PanelRecord /\ z.activation = None
        /\ z.listed = p.listed /\ z.preferred = p.preferred /\ z.treeRoot = p.treeRoot
        /\ z.process = p.process /\ z.ready = p.ready /\ z.later = p.later
        /\ z.pendingScan = p.pendingScan /\ z.view = p.view
        /\ z.requests = left /\ z.sent = p.sent /\ z.scanRequest = p.scanRequest
    BY <1>1, <2>4 DEF PanelRecord
  <2> HIDE DEF z, act
  <2>6. NoneForgotten(z.requests, Piped(p), out, z.activation)
    <3>1. NoneForgotten(p.requests, Piped(p), out, p.activation)
      BY DEF Fine, Sound
    <3> QED
      BY <2>4, <2>5, <3>1 DEF NoneForgotten, Passed
  <2>7. OneScan(z.requests, Piped(p), out, z.scanRequest)
    BY <2>4, <2>5 DEF Fine, Sound, OneScan
  <2>8. RowsNamed(z.requests, z.view, z.activation)
    BY <2>4, <2>5 DEF Fine, Sound, RowsNamed
  <2>9. Fine(z, out)
    BY <2>4, <2>5, <2>6, <2>7, <2>8, LessFine
  <2>10. Sensible(z, m) /\ ~Calls(z, "open") /\ ~Asks(z, "hello")
    BY <2>3, <2>4, <2>5 DEF Sensible, Calls, Asks
  <2>11. /\ Fine(q, out) /\ Grows(z, q, "activationAbort", out)
         /\ q.scanRequest = z.scanRequest
    BY <2>3, <2>9, <2>10, SentFine
  <2> HIDE DEF q
  <2>12. ~Asks(q, "hello")
    BY <2>10, <2>11 DEF Asks, Grows
  <2>13. q.ready /\ q.pendingScan # None => q.scanRequest = None /\ q.activation = None
    BY <1>1, <1>3, <2>5, <2>11 DEF Grows, Steady, Control, NextScan
  <2> QED
    BY <2>1, <2>11, <2>12, <2>13, LaunchPendingFine
<1> QED
  BY <1>2, <1>3

LEMMA CommitFine ==
  ASSUME Typed, NEW p, NEW out, Reading(out), Fine(p, out), ~Asks(p, "hello"),
         p.activation # None, p.activation.root = p.treeRoot
  PROVE  Fine(CommitInitialView(p), out)
<1>1. p \in PanelRecord /\ Recorded(p) /\ Control(p, Piped(p), out)
  BY DEF Fine, Sound, Recorded
<1> DEFINE left == {r \in p.requests : ~Navigates(r)}
           gen == p.activation.gen
           root == p.activation.root
           z == [p EXCEPT !.requests = left, !.view = gen, !.shown = root,
                          !.treeRoot = root, !.available = TRUE, !.activation = None]
<1>2. CommitInitialView(p) = LaunchPendingScan(z)
  BY DEF CommitInitialView
<1>3. gen \in MaybeGen /\ root \in MaybeRoot /\ root = p.treeRoot
  BY <1>1 DEF PanelRecord, Activation, MaybeGen, MaybeRoot
<1>4. left \subseteq p.requests /\ left \subseteq Request /\ \A r \in left : ~Navigates(r)
  BY <1>1 DEF PanelRecord
<1> HIDE DEF left, gen, root
<1>5. /\ z \in PanelRecord /\ z.activation = None
      /\ z.listed = p.listed /\ z.preferred = p.preferred /\ z.treeRoot = p.treeRoot
      /\ z.process = p.process /\ z.ready = p.ready /\ z.later = p.later
      /\ z.pendingScan = p.pendingScan
      /\ z.requests = left /\ z.sent = p.sent /\ z.scanRequest = p.scanRequest
  BY <1>1, <1>3, <1>4 DEF PanelRecord
<1> HIDE DEF z
<1>6. NoneForgotten(z.requests, Piped(p), out, z.activation)
  <2>1. NoneForgotten(p.requests, Piped(p), out, p.activation)
    BY DEF Fine, Sound
  <2> QED
    BY <1>4, <1>5, <2>1 DEF NoneForgotten, Passed
<1>7. OneScan(z.requests, Piped(p), out, z.scanRequest)
  BY <1>4, <1>5 DEF Fine, Sound, OneScan
<1>8. RowsNamed(z.requests, z.view, z.activation)
  BY <1>4, <1>5 DEF Fine, Sound, RowsNamed
<1>9. Fine(z, out)
  BY <1>4, <1>5, <1>6, <1>7, <1>8, LessFine
<1>10. ~Asks(z, "hello")
  BY <1>4, <1>5 DEF Asks
<1>11. z.ready /\ z.pendingScan # None => z.scanRequest = None /\ z.activation = None
  BY <1>1, <1>5 DEF Control, NextScan
<1> QED
  BY <1>2, <1>9, <1>10, <1>11, LaunchPendingFine

LEMMA FailFine ==
  ASSUME NEW p, NEW out, Fine(p, out), ~Calls(p, "open")
  PROVE  Fine(FailBroker(p), out)
<1>1. p \in PanelRecord /\ Recorded(p) /\ Control(p, Piped(p), out)
  BY DEF Fine, Sound, Recorded
<1> DEFINE z == FailBroker(p)
<1>2. /\ z \in PanelRecord /\ z.activation = None /\ z.ready = FALSE
      /\ z.listed = p.listed /\ z.preferred = p.preferred /\ z.treeRoot = p.treeRoot
      /\ z.process = p.process /\ z.later = p.later
      /\ z.pendingScan = None
      /\ z.requests = {} /\ z.sent = p.sent /\ z.scanRequest = None
  <2> DEFINE dead == Running(p)
  <2>1. dead \in BOOLEAN /\ {} \in SUBSET Request
    BY DEF Running
  <2>2. z = [p EXCEPT !.ready = FALSE, !.available = FALSE, !.requests = {},
            !.pendingScan = None, !.activation = None,
            !.scanRequest = None, !.staging = None, !.cancelling = FALSE,
            !.terminating = dead]
    BY DEF FailBroker
  <2> HIDE DEF dead, z
  <2> QED
    BY <1>1, <2>1, <2>2 DEF PanelRecord, MaybeGen
<1> HIDE DEF z
<1>3. Piped(z) = Piped(p)
  BY <1>2 DEF Piped
<1>4. Sound(z, Piped(z), out)
  <2>1. {} \in SUBSET p.requests
    OBVIOUS
  <2>2. Wire({}, Piped(p), out)
    BY <2>1, FewerRequests DEF Fine, Sound
  <2>3. /\ NoneForgotten({}, Piped(p), out, None) /\ OneScan({}, Piped(p), out, None)
        /\ SameRoot({}, Piped(p), out, p.treeRoot) /\ RowsNamed({}, z.view, None)
    BY DEF NoneForgotten, OneScan, SameRoot, RowsNamed
  <2>4. Recorded(z)
    BY <1>2, FS_EmptySet DEF Recorded
  <2> QED
    BY <1>2, <1>3, <2>2, <2>3, <2>4 DEF Sound
<1>5. /\ \A op : ~Asks(z, op)
      /\ \A call : Calls(z, call) <=> Calls(p, call)
  BY <1>2 DEF Asks, Calls
<1>6. Offline(z, Piped(z), out) /\ Booting(z) /\ Unlisted(z) /\ Chosen(z)
  BY <1>1, <1>2, <1>3, <1>5 DEF Control, Offline, Booting, Unlisted, Chosen
<1>7. Aimed(z)
  BY <1>1, <1>2 DEF Control, Aimed
<1>8. Opening(z) /\ Launching(z, out) /\ NextScan(z) /\ OneOpen(z)
  BY <1>2, <1>5 DEF Opening, Launching, NextScan, OneOpen, Calls
<1> QED
  BY <1>4, <1>6, <1>7, <1>8 DEF Fine, Control, z

-----------------------------------------------------------------------------
(* The steps of the panel.                                                 *)

LEMMA NothingSent ==
  ASSUME Typed
  PROVE  Piped(panel) = stdin /\ (IInv <=> Fine(panel, stdout)) /\ Reading(stdout)
<1>1. stdin \in Seq(Asked) /\ panel.sent = <<>> /\ <<>> \in Seq(Asked)
  BY DEF Typed
<1>2. Piped(panel) = Joint(stdin, <<>>)
  BY <1>1 DEF Piped
<1>3. Joint(stdin, <<>>) = stdin
  BY <1>1, Joined
<1> QED
  BY <1>2, <1>3 DEF IInv, Fine, Reading

\* What holds of the values of a step holds after it.
LEMMA SoundAfter ==
  ASSUME NEW R, NEW in, NEW out, panel'.requests = R, stdin' = in, stdout' = out,
         UNCHANGED <<queries, outcomes, staging>>
  PROVE  /\ Wire(R, in, out) => Wire(panel.requests, stdin, stdout)'
         /\ serving' = serving /\ NoneForgotten(R, in, out, panel'.activation)
              => NoneForgotten(panel.requests, stdin, stdout, panel.activation)'
         /\ (\A r \in R : Awaits(r, in, out))
              => NoneForgotten(panel.requests, stdin, stdout, panel.activation)'
         /\ OneScan(R, in, out, panel'.scanRequest)
              => OneScan(panel.requests, stdin, stdout, panel.scanRequest)'
         /\ SameRoot(R, in, out, panel'.treeRoot)
              => SameRoot(panel.requests, stdin, stdout, panel.treeRoot)'
         /\ RowsNamed(R, panel'.view, panel'.activation)
              => RowsNamed(panel.requests, panel.view, panel.activation)'
<1>1. Wire(R, in, out) => Wire(panel.requests, stdin, stdout)'
  <2>1. Apart(R, in, out) => Apart(panel.requests, stdin, stdout)'
    BY DEF Apart, Runs
  <2>2. Matched(R, in, out) => Matched(panel.requests, stdin, stdout)'
    BY DEF Matched, Runs
  <2>3. ScansNamed(out) => ScansNamed(stdout)'
    BY DEF ScansNamed
  <2>4. Ended(R, out) => Ended(panel.requests, stdout)'
    BY DEF Ended, Runs, Told
  <2>5. RefusedAlone(R, out) => RefusedAlone(panel.requests, stdout)'
    BY DEF RefusedAlone, Runs
  <2>6. Started(R, out) => Started(panel.requests, stdout)'
    BY DEF Started, Runs
  <2> QED
    BY <2>1, <2>2, <2>3, <2>4, <2>5, <2>6 DEF Wire
<1>2. serving' = serving /\ NoneForgotten(R, in, out, panel'.activation)
        => NoneForgotten(panel.requests, stdin, stdout, panel.activation)'
  BY DEF NoneForgotten, Awaits, Runs
<1>2a. (\A r \in R : Awaits(r, in, out))
         => NoneForgotten(panel.requests, stdin, stdout, panel.activation)'
  BY DEF NoneForgotten, Awaits, Runs
<1>3. OneScan(R, in, out, panel'.scanRequest)
        => OneScan(panel.requests, stdin, stdout, panel.scanRequest)'
  BY DEF OneScan, Awaits, Runs
<1>4. SameRoot(R, in, out, panel'.treeRoot)
        => SameRoot(panel.requests, stdin, stdout, panel.treeRoot)'
  BY DEF SameRoot, Runs
<1>5. RowsNamed(R, panel'.view, panel'.activation)
        => RowsNamed(panel.requests, panel.view, panel.activation)'
  BY DEF RowsNamed
<1> QED
  BY <1>1, <1>2, <1>2a, <1>3, <1>4, <1>5

LEMMA StepFine ==
  ASSUME Typed, NEW p, NEW out, Reading(out), Fine(p, out),
         panel' = [p EXCEPT !.sent = <<>>], stdin' = stdin \o p.sent,
         stdout' = out, UNCHANGED <<stored, held, outcomes, queries>>,
         \/ serving' = serving
         \/ /\ serving' = TRUE /\ p.process = "up"
            /\ \A r \in p.requests : Awaits(r, Piped(p), out)
  PROVE  IInv'
<1> DEFINE in == Piped(p)
<1>1. p \in PanelRecord /\ Recorded(p) /\ Control(p, in, out) /\ Sound(p, in, out)
  BY DEF Fine, Sound, Recorded
<1>2. /\ UNCHANGED <<stored, active, previous, staging, outcomes, queries>>
      /\ \/ serving' = serving
         \/ /\ serving' = TRUE /\ p.process = "up"
            /\ \A r \in p.requests : Awaits(r, in, out)
  BY DEF held
<1>3. /\ panel' \in PanelRecord /\ panel'.sent = <<>> /\ panel'.activation = p.activation
      /\ panel'.listed = p.listed /\ panel'.preferred = p.preferred
      /\ panel'.treeRoot = p.treeRoot /\ panel'.process = p.process
      /\ panel'.ready = p.ready /\ panel'.later = p.later
      /\ panel'.pendingScan = p.pendingScan /\ panel'.view = p.view
      /\ panel'.requests = p.requests /\ panel'.scanRequest = p.scanRequest
  <2>1. <<>> \in Seq(Asked)
    OBVIOUS
  <2> QED
    BY <1>1, <2>1 DEF PanelRecord
<1>4. stdin' = in
  BY DEF Piped, Joint
<1>5. in \in Seq(Asked)
  <2>1. stdin \in Seq(Asked) /\ p.sent \in Seq(Asked)
    BY <1>1 DEF Typed, PanelRecord
  <2> QED
    BY <2>1, Joined DEF Piped
<1> HIDE DEF in
<1>6. Typed'
  <2>1. ServiceTyped'
    BY <1>2 DEF Typed, ServiceTyped
  <2>2. out \in Seq(Said)
    BY ReadingLines
  <2>3. IsFiniteSet(p.requests)
    BY <1>1 DEF Recorded
  <2> QED
    BY <1>3, <1>4, <1>5, <2>1, <2>2, <2>3 DEF Typed
<1>7. Sound(panel, stdin, stdout)'
  <2>1. /\ Wire(panel.requests, stdin, stdout)'
        /\ NoneForgotten(panel.requests, stdin, stdout, panel.activation)'
        /\ OneScan(panel.requests, stdin, stdout, panel.scanRequest)'
        /\ SameRoot(panel.requests, stdin, stdout, panel.treeRoot)'
        /\ RowsNamed(panel.requests, panel.view, panel.activation)'
    BY <1>1, <1>2, <1>3, <1>4, SoundAfter DEF Sound
  <2>2. Recorded(panel)'
    BY <1>1, <1>3 DEF Recorded
  <2> QED
    BY <2>1, <2>2 DEF Sound
<1>8. Control(panel, stdin, stdout)'
  <2>1. Offline(panel, stdin, stdout)'
    BY <1>1, <1>2, <1>3, <1>4 DEF Control, Offline
  <2>2. Booting(panel)' /\ Unlisted(panel)' /\ Chosen(panel)'
    BY <1>1, <1>3 DEF Control, Booting, Unlisted, Chosen, Asks, Calls
  <2>3. Aimed(panel)' /\ Opening(panel)'
    BY <1>1, <1>3 DEF Control, Aimed, Opening
  <2>4. Launching(panel, stdout)'
    BY <1>1, <1>3 DEF Control, Launching, Asks, Calls
  <2>5. NextScan(panel)' /\ OneOpen(panel)'
    BY <1>1, <1>3 DEF Control, NextScan, OneOpen, Asks
  <2> QED
    BY <2>1, <2>2, <2>3, <2>4, <2>5 DEF Control
<1> QED
  BY <1>6, <1>7, <1>8 DEF IInv

LEMMA BecomesFine ==
  ASSUME Typed, NEW p, Fine(p, stdout), Becomes(p)
  PROVE  IInv'
BY NothingSent, StepFine DEF Becomes, service

\* The panel gives up what it had put off.
LEMMA CalmFine ==
  ASSUME NEW p, NEW z, NEW out, Fine(p, out), z \in PanelRecord, z.sent = p.sent,
         z.listed = p.listed, z.preferred = p.preferred, z.treeRoot = p.treeRoot,
         z.process = p.process, z.later = p.later, z.view = p.view,
         z.requests = p.requests, z.scanRequest = p.scanRequest,
         z.activation = p.activation,
         z.ready = p.ready \/ (~z.ready /\ ~Calls(p, "open")),
         z.pendingScan \in {p.pendingScan, None}
  PROVE  Fine(z, out)
BY LessFine DEF Fine, Sound

LEMMA Idle ==
  ASSUME IInv, Quiet
  PROVE  /\ Typed /\ Fine(panel, stdout) /\ Reading(stdout) /\ panel \in PanelRecord
         /\ \A call : ~Calls(panel, call)
         /\ ~Pending => /\ panel.activation = None /\ panel.pendingScan = None
                        /\ panel.pendingOpen = None /\ ~Asks(panel, "snapshotOpen")
         /\ panel.ready => panel.process = "up"
         /\ Unlisted(panel) /\ Chosen(panel)
<1>1. Typed /\ Fine(panel, stdout) /\ Reading(stdout) /\ panel \in PanelRecord
  BY NothingSent DEF IInv, Typed
<1>2. \A call : ~Calls(panel, call)
  BY DEF Quiet, Calls
<1>3. ~Pending => /\ panel.activation = None /\ panel.pendingScan = None
                  /\ panel.pendingOpen = None /\ ~Asks(panel, "snapshotOpen")
  BY DEF Pending, Asks, Navigates
<1>4. (panel.ready => panel.process = "up") /\ Unlisted(panel) /\ Chosen(panel)
  BY DEF IInv, Control, Offline
<1> QED
  BY <1>1, <1>2, <1>3, <1>4

LEMMA UserOpensKept ==
  ASSUME Hurry \subseteq {"browse"}, IInv, Quiet, UserOpens
  PROVE  IInv'
<1>1. PICK root \in Root \cup {None} : MaySwitch(root) /\ Open(root)
  BY DEF UserOpens
<1> DEFINE target == IF root = None THEN panel.preferred ELSE root
           z == [panel EXCEPT !.opened = TRUE]
           p == StartBroker(z)
           w == [p EXCEPT !.preferred = target, !.discovering = TRUE]
<1>2. Typed /\ Fine(panel, stdout) /\ panel \in PanelRecord /\ Reading(stdout)
      /\ panel.later = <<>> /\ Unlisted(panel) /\ Chosen(panel)
  BY Idle DEF Quiet
<1>3. Becomes(IF ~panel.listed THEN w
              ELSE IF Selected(p) # target \/ p.treeRoot # target
              THEN SelectFilesystem(p, target)
              ELSE IF p.available THEN p
              ELSE RequestSnapshotOpen(p, target))
  BY <1>1 DEF Open
<1>4. target \in MaybeRoot
  BY <1>2 DEF MaybeRoot, PanelRecord
<1>5. Alike(panel, z) /\ z \in PanelRecord /\ z.requests = panel.requests
  BY <1>2 DEF PanelRecord, Alike, Steady
<1> HIDE DEF z
<1>6. Fine(z, stdout)
  <2>1. Recorded(z)
    BY <1>2, <1>5 DEF Recorded, Typed
  <2> QED
    BY <1>2, <1>5, <2>1, AlikeFine
<1>7. /\ Fine(p, stdout) /\ p.listed = panel.listed /\ p.preferred = panel.preferred
      /\ p.treeRoot = panel.treeRoot /\ p.ready = panel.ready /\ p.later = <<>>
      /\ p.activation = panel.activation /\ p.requests = panel.requests
      /\ p.pendingScan = panel.pendingScan /\ p.scanRequest = panel.scanRequest
  BY <1>2, <1>5, <1>6, StartFine DEF Alike, Steady
<1> HIDE DEF p
<1>8. p \in PanelRecord /\ Recorded(p) /\ Control(p, Piped(p), stdout)
  BY <1>7 DEF Fine, Sound, Recorded
<1>9. /\ \A op : Asks(p, op) <=> Asks(panel, op)
      /\ \A call : ~Calls(p, call)
  BY <1>7 DEF Asks, Calls
<1>10. CASE ~panel.listed
  <2> HIDE DEF target
  <2>1. /\ w \in PanelRecord /\ w.sent = p.sent /\ w.listed = FALSE
        /\ w.treeRoot = p.treeRoot /\ w.process = p.process /\ w.later = <<>>
        /\ w.view = p.view /\ w.requests = p.requests /\ w.scanRequest = p.scanRequest
        /\ w.activation = p.activation /\ w.ready = p.ready
        /\ w.pendingScan = p.pendingScan
    BY <1>4, <1>7, <1>8, <1>10 DEF PanelRecord
  <2> HIDE DEF w
  <2>2. Piped(w) = Piped(p)
    BY <2>1 DEF Piped
  <2>3. Sound(w, Piped(w), stdout)
    BY <1>7, <2>1, <2>2 DEF Fine, Sound, Recorded
  <2>4. /\ \A op : Asks(w, op) <=> Asks(p, op)
        /\ \A call : ~Calls(w, call)
    BY <2>1 DEF Asks, Calls
  <2>5. Offline(w, Piped(w), stdout) /\ Booting(w) /\ Unlisted(w) /\ Chosen(w)
    BY <1>7, <1>8, <1>10, <2>1, <2>2, <2>4 DEF Control, Offline, Booting, Unlisted, Chosen
  <2>6. Aimed(w) /\ Opening(w)
    BY <1>7, <1>8, <2>1 DEF Control, Aimed, Opening
  <2>7. Launching(w, stdout) /\ NextScan(w) /\ OneOpen(w)
    BY <1>8, <2>1, <2>4 DEF Control, Launching, NextScan, OneOpen
  <2>8. Fine(w, stdout)
    BY <2>3, <2>5, <2>6, <2>7 DEF Fine, Control
  <2> QED
    BY <1>2, <1>3, <1>10, <2>8, BecomesFine
<1>11. CASE panel.listed /\ (Selected(p) # target \/ p.treeRoot # target)
  <2>1. Becomes(SelectFilesystem(p, target))
    BY <1>3, <1>11
  <2>2. panel.preferred \in Root /\ panel.treeRoot = panel.preferred
    BY <1>2, <1>11 DEF Chosen
  <2>3. root # None /\ target = root /\ root # panel.preferred /\ target \in Root
    BY <1>7, <1>11, <2>2 DEF Selected
  <2>4. panel.scanRequest = None /\ (~Pending \/ (~panel.ready /\ panel.requests = {}))
    BY <1>1, <2>3 DEF MaySwitch
  <2>5. ~Asks(panel, "snapshotOpen")
    BY <2>4, Idle DEF Asks
  <2>6. panel.activation = None \/ (~panel.ready /\ panel.requests = {})
    BY <2>4, Idle
  <2>7. Fine(SelectFilesystem(p, target), stdout)
    BY <1>2, <1>7, <1>9, <2>3, <2>4, <2>5, <2>6, SelectFine
  <2> QED
    BY <1>2, <2>1, <2>7, BecomesFine
<1>12. CASE panel.listed /\ ~(Selected(p) # target \/ p.treeRoot # target) /\ p.available
  BY <1>2, <1>3, <1>7, <1>12, BecomesFine
<1>13. CASE panel.listed /\ ~(Selected(p) # target \/ p.treeRoot # target) /\ ~p.available
  <2>1. Becomes(RequestSnapshotOpen(p, target))
    BY <1>3, <1>13
  <2>2. panel.ready => ~Pending
    BY <1>1 DEF MaySwitch
  <2>3. Fine(RequestSnapshotOpen(p, target), stdout)
    <3>1. p.ready => /\ ~Asks(p, "snapshotOpen") /\ p.pendingScan = None
                     /\ p.activation = None
      BY <1>7, <1>9, <2>2, Idle
    <3> HIDE DEF target
    <3> QED
      BY <1>2, <1>4, <1>7, <1>9, <3>1, OpenFine
  <2> QED
    BY <1>2, <2>1, <2>3, BecomesFine
<1> QED
  BY <1>10, <1>11, <1>12, <1>13

LEMMA UserClosesKept ==
  ASSUME IInv, Quiet, UserCloses
  PROVE  IInv'
<1> DEFINE z == [panel EXCEPT !.opened = FALSE, !.pendingScan = None,
                              !.pendingOpen = None]
           p == CancelActiveScan(z)
           m == Plain("shutdown")
           q == Send(p, m)
           w == [q EXCEPT !.ready = FALSE]
           y == [p EXCEPT !.terminating = TRUE]
<1>1. Typed /\ Fine(panel, stdout) /\ panel \in PanelRecord /\ Reading(stdout)
      /\ panel.later = <<>> /\ \A call : ~Calls(panel, call)
  BY Idle DEF Quiet
<1>2. Becomes(IF ~Running(p) THEN p ELSE IF p.ready THEN w ELSE y)
  BY DEF UserCloses
<1>3. /\ z \in PanelRecord /\ z.sent = panel.sent
      /\ z.listed = panel.listed /\ z.preferred = panel.preferred
      /\ z.treeRoot = panel.treeRoot /\ z.process = panel.process
      /\ z.later = panel.later /\ z.view = panel.view /\ z.requests = panel.requests
      /\ z.scanRequest = panel.scanRequest /\ z.activation = panel.activation
      /\ z.ready = panel.ready /\ z.pendingScan = None
  <2>1. None \in MaybeRoot
    BY DEF MaybeRoot
  <2> QED
    BY <1>1, <2>1 DEF PanelRecord
<1> HIDE DEF z
<1>4. Fine(z, stdout) /\ ~Calls(z, "open")
  BY <1>1, <1>3, CalmFine DEF Calls
<1>5. Fine(p, stdout) /\ ~Calls(p, "open")
  <2>1. Fine(p, stdout) /\ Steady(z, p)
    BY <1>1, <1>4, CancelFine
  <2> HIDE DEF p
  <2> QED
    BY <1>4, <2>1 DEF Calls, Steady
<1> HIDE DEF p
<1>6. p \in PanelRecord /\ Recorded(p)
  BY <1>5 DEF Fine, Sound, Recorded
<1>7. Fine(w, stdout)
  <2>1. m \in Wanted /\ m.op = "shutdown" /\ m.token = None
    BY DEF Plain, Wanted, Op, MaybeGen, MaybeRoot
  <2> HIDE DEF m
  <2>2. Sensible(p, m)
    <3>1. p.activation # None => p.activation.token # None
      BY <1>6, NoneIsNothing DEF PanelRecord, Activation
    <3> QED
      BY <2>1, <3>1 DEF Sensible
  <2>3. Fine(q, stdout) /\ Grows(p, q, "shutdown", stdout) /\ Recorded(q)
    BY <1>1, <1>5, <2>1, <2>2, SentFine
  <2> HIDE DEF q
  <2>4. ~Calls(q, "open") /\ q \in PanelRecord
    BY <1>5, <2>3 DEF Calls, Grows, Steady, Recorded
  <2>5. /\ w \in PanelRecord /\ w.sent = q.sent
        /\ w.listed = q.listed /\ w.preferred = q.preferred
        /\ w.treeRoot = q.treeRoot /\ w.process = q.process
        /\ w.later = q.later /\ w.view = q.view /\ w.requests = q.requests
        /\ w.scanRequest = q.scanRequest /\ w.activation = q.activation
        /\ w.ready = FALSE /\ w.pendingScan = q.pendingScan
    BY <2>4 DEF PanelRecord
  <2> HIDE DEF w
  <2> QED
    BY <2>3, <2>4, <2>5, CalmFine
<1>8. Fine(y, stdout)
  <2>1. Alike(p, y) /\ y \in PanelRecord /\ y.requests = p.requests
    BY <1>6 DEF PanelRecord, Alike, Steady
  <2> HIDE DEF y
  <2> QED
    BY <1>5, <1>6, <2>1, AlikeFine DEF Recorded
<1> HIDE DEF w, y
<1> QED
  BY <1>1, <1>2, <1>5, <1>7, <1>8, BecomesFine

LEMMA UserSelectsKept ==
  ASSUME Hurry \subseteq {"browse"}, IInv, Quiet, UserSelects
  PROVE  IInv'
<1>1. PICK root \in Root : /\ panel.listed /\ MaySwitch(root)
                           /\ Becomes(SelectFilesystem(panel, root))
  BY DEF UserSelects
<1>2. Typed /\ Fine(panel, stdout) /\ panel \in PanelRecord /\ Reading(stdout)
      /\ panel.later = <<>> /\ Unlisted(panel) /\ Chosen(panel)
  BY Idle DEF Quiet
<1>3. panel.preferred \in Root /\ panel.treeRoot = panel.preferred
  BY <1>1, <1>2 DEF Chosen
<1>4. CASE root = panel.preferred
  <2>1. Fine(SelectFilesystem(panel, root), stdout)
    BY <1>1, <1>2, <1>3, <1>4, SelectFine
  <2> QED
    BY <1>1, <1>2, <2>1, BecomesFine
<1>5. CASE root # panel.preferred
  <2>1. panel.scanRequest = None /\ (~Pending \/ (~panel.ready /\ panel.requests = {}))
    BY <1>1, <1>5, NoneIsNoRoot DEF MaySwitch
  <2>2. ~Asks(panel, "snapshotOpen")
    BY <2>1, Idle DEF Asks
  <2>3. panel.activation = None \/ (~panel.ready /\ panel.requests = {})
    BY <2>1, Idle
  <2>4. Fine(SelectFilesystem(panel, root), stdout)
    BY <1>1, <1>2, <2>1, <2>2, <2>3, SelectFine
  <2> QED
    BY <1>1, <1>2, <2>4, BecomesFine
<1> QED
  BY <1>4, <1>5

LEMMA UserRescansKept ==
  ASSUME Hurry \subseteq {"browse"}, IInv, Quiet, UserRescans
  PROVE  IInv'
<1>1. /\ panel.scanRequest = None /\ panel.ready /\ ~Pending
      /\ Becomes(RequestScan(panel, TRUE))
  BY DEF UserRescans
<1>2. Typed /\ Fine(panel, stdout) /\ Reading(stdout) /\ panel.process = "up"
      /\ ~Calls(panel, "open") /\ ~Calls(panel, "launch")
      /\ ~Asks(panel, "snapshotOpen") /\ panel.pendingScan = None
  BY <1>1, Idle
<1>3. Fine(RequestScan(panel, TRUE), stdout)
  BY <1>1, <1>2, ScanFine
<1> QED
  BY <1>1, <1>2, <1>3, BecomesFine

LEMMA UserRefreshesKept ==
  ASSUME IInv, Quiet, UserRefreshes
  PROVE  IInv'
<1> DEFINE p == IF panel.ready THEN panel ELSE StartBroker(panel)
           y == NextTreeGeneration(p)
           c == CancelActiveScan(y)
           w == [c EXCEPT !.discovering = TRUE]
<1>1. Becomes(w)
  BY DEF UserRefreshes
<1>2. Typed /\ Fine(panel, stdout) /\ panel \in PanelRecord /\ Reading(stdout)
      /\ panel.later = <<>>
  BY Idle DEF Quiet
<1>3. Fine(p, stdout) /\ p.later = <<>>
  BY <1>2, StartFine
<1> HIDE DEF p
<1>4. p \in PanelRecord
  BY <1>3 DEF Fine, Sound, Recorded
<1>5. y = [p EXCEPT !.pendingScan = None, !.later = <<>>]
  <2>1. [i \in DOMAIN p.later |-> [p.later[i] EXCEPT !.current = FALSE]] = <<>>
    BY <1>3
  <2> QED
    BY <2>1 DEF NextTreeGeneration
<1> HIDE DEF y
<1>6. /\ y \in PanelRecord /\ y.sent = p.sent
      /\ y.listed = p.listed /\ y.preferred = p.preferred
      /\ y.treeRoot = p.treeRoot /\ y.process = p.process
      /\ y.later = p.later /\ y.view = p.view /\ y.requests = p.requests
      /\ y.scanRequest = p.scanRequest /\ y.activation = p.activation
      /\ y.ready = p.ready /\ y.pendingScan = None
  BY <1>3, <1>4, <1>5 DEF PanelRecord
<1>7. Fine(y, stdout) /\ ~Calls(y, "open")
  BY <1>3, <1>6, CalmFine DEF Calls
<1>8. Fine(c, stdout)
  BY <1>2, <1>7, CancelFine
<1> HIDE DEF c
<1>9. c \in PanelRecord /\ Recorded(c)
  BY <1>8 DEF Fine, Sound, Recorded
<1>10. Alike(c, w) /\ w \in PanelRecord /\ w.requests = c.requests
  BY <1>9 DEF PanelRecord, Alike, Steady
<1> HIDE DEF w
<1>11. Fine(w, stdout)
  BY <1>8, <1>9, <1>10, AlikeFine DEF Recorded
<1> QED
  BY <1>1, <1>2, <1>11, BecomesFine

LEMMA ListedKept ==
  ASSUME IInv, Quiet, Listed
  PROVE  IInv'
<1> DEFINE z == [panel EXCEPT !.discovering = FALSE]
<1>1. PICK root \in Root : /\ root = panel.preferred \/ panel.preferred = None
                           /\ Becomes(SelectFilesystem(z, root))
  BY DEF Listed
<1>2. Typed /\ Fine(panel, stdout) /\ panel \in PanelRecord /\ Reading(stdout)
      /\ panel.later = <<>> /\ Unlisted(panel) /\ Chosen(panel)
  BY Idle DEF Quiet
<1>3. Alike(panel, z) /\ z \in PanelRecord /\ z.requests = panel.requests
  BY <1>2 DEF PanelRecord, Alike, Steady
<1> HIDE DEF z
<1>4. Fine(z, stdout)
  <2>1. Recorded(z)
    BY <1>2, <1>3 DEF Recorded, Typed
  <2> QED
    BY <1>2, <1>3, <2>1, AlikeFine
<1>5. z.later = <<>> /\ (Asks(z, "snapshotOpen") <=> Asks(panel, "snapshotOpen"))
      /\ z.listed = panel.listed /\ z.preferred = panel.preferred
      /\ z.treeRoot = panel.treeRoot /\ z.scanRequest = panel.scanRequest
      /\ z.activation = panel.activation
  BY <1>2, <1>3 DEF Alike, Steady, Asks
<1>6. \/ z.listed /\ z.preferred = root /\ z.treeRoot = root
      \/ z.scanRequest = None /\ ~Asks(z, "snapshotOpen") /\ z.activation = None
  <2>1. CASE panel.listed
    BY <1>1, <1>2, <1>5, <2>1, NoneIsNoRoot DEF Chosen
  <2>2. CASE ~panel.listed
    BY <1>2, <1>5, <2>2 DEF Unlisted
  <2> QED
    BY <2>1, <2>2
<1>7. Fine(SelectFilesystem(z, root), stdout)
  BY <1>2, <1>4, <1>5, <1>6, SelectFine
<1> QED
  BY <1>1, <1>2, <1>7, BecomesFine

LEMMA UserBrowsesKept ==
  ASSUME IInv, Quiet, UserBrowses
  PROVE  IInv'
<1> DEFINE m == About("children", panel.view, None)
<1>1. Becomes(Send(panel, m))
  BY DEF UserBrowses
<1>2. Typed /\ Fine(panel, stdout) /\ panel \in PanelRecord /\ Reading(stdout)
      /\ ~Calls(panel, "open")
  BY Idle
<1>3. m \in Wanted /\ m.op = "children" /\ m.gen = panel.view /\ m.token = None
  <2>1. "children" \in Op /\ panel.view \in MaybeGen /\ None \in MaybeGen
    BY <1>2 DEF PanelRecord, Op, MaybeGen
  <2> QED
    BY <2>1, AboutWanted
<1> HIDE DEF m
<1>4. Sensible(panel, m)
  <2>1. panel.activation # None => panel.activation.token # None
    BY <1>2, NoneIsNothing DEF PanelRecord, Activation
  <2> QED
    BY <1>3, <2>1 DEF Sensible
<1>5. Fine(Send(panel, m), stdout)
  BY <1>2, <1>3, <1>4, SentFine
<1> QED
  BY <1>1, <1>2, <1>5, BecomesFine

LEMMA DeadlineKept ==
  ASSUME IInv, Quiet, DeadlinePasses
  PROVE  IInv'
<1>1. Becomes(FailBroker(panel))
  BY DEF DeadlinePasses
<1>2. Typed /\ Fine(panel, stdout) /\ ~Calls(panel, "open")
  BY Idle
<1>3. Fine(FailBroker(panel), stdout)
  BY <1>2, FailFine
<1> QED
  BY <1>1, <1>2, <1>3, BecomesFine

LEMMA BrokerActsKept ==
  ASSUME IInv, Quiet, BrokerActs
  PROVE  IInv'
<1>1. /\ Typed /\ Sound(panel, stdin, stdout) /\ Control(panel, stdin, stdout)
      /\ panel.later = <<>>
  BY DEF IInv, Quiet
<1>2. WireKept /\ Typed' /\ panel' = panel
  BY <1>1, BrokerKept DEF Sound
<1>3. serving
  BY DEF BrokerActs, Serve, Work, Hello, SnapshotOpen, ScanStart, ScanCancel, Query,
         ActivationCommit, ActivationAbort, Shutdown, Takes, ScanActivates, ScanFails,
         ScanReports, QueryAnswers
<1>4. Sound(panel, stdin, stdout)'
  <2>1. Recorded(panel)' /\ RowsNamed(panel.requests, panel.view, panel.activation)'
    BY <1>1, <1>2 DEF Sound, Recorded, RowsNamed
  <2> QED
    BY <1>1, <1>2, <2>1 DEF Sound, WireKept
<1>5. panel.process = "up"
  BY <1>1, <1>3 DEF Control, Offline
<1>6. Control(panel, stdin, stdout)'
  <2>1. Offline(panel, stdin, stdout)'
    BY <1>2, <1>5 DEF Offline
  <2>2. Booting(panel)' /\ Unlisted(panel)' /\ Chosen(panel)' /\ Aimed(panel)'
        /\ Opening(panel)' /\ NextScan(panel)' /\ OneOpen(panel)'
    BY <1>1, <1>2 DEF Control, Booting, Unlisted, Chosen, Aimed, Opening, NextScan,
                      OneOpen, Asks, Calls
  <2>3. Launching(panel, stdout)'
    BY <1>1, <1>2 DEF Launching, Calls
  <2> QED
    BY <2>1, <2>2, <2>3 DEF Control
<1> QED
  BY <1>2, <1>4, <1>6 DEF IInv

LEMMA BrokerStartedKept ==
  ASSUME IInv, Quiet, BrokerStarted
  PROVE  IInv'
<1> DEFINE z == [panel EXCEPT !.process = "up"]
           m == Plain("hello")
           q == Send(z, m)
<1>1. /\ panel.process = "starting" /\ panel' = [q EXCEPT !.sent = <<>>]
      /\ stdin' = q.sent /\ serving' = TRUE
      /\ UNCHANGED <<stored, held, outcomes, queries, stdout>>
  BY DEF BrokerStarted
<1>2. /\ Typed /\ Fine(panel, stdout) /\ panel \in PanelRecord /\ Reading(stdout)
      /\ panel.later = <<>> /\ Control(panel, stdin, stdout)
  BY Idle DEF Quiet, IInv
<1>3. /\ panel.requests = {} /\ panel.activation = None /\ panel.scanRequest = None
      /\ ~panel.ready /\ stdin = <<>> /\ ~serving
  BY <1>1, <1>2 DEF Control, Offline
<1>4. /\ z \in PanelRecord /\ z.sent = panel.sent /\ z.process = "up"
      /\ z.listed = panel.listed /\ z.preferred = panel.preferred
      /\ z.treeRoot = panel.treeRoot /\ z.later = <<>> /\ z.view = panel.view
      /\ z.requests = {} /\ z.scanRequest = None /\ z.activation = None
      /\ ~z.ready /\ z.pendingScan = panel.pendingScan
  BY <1>2, <1>3 DEF PanelRecord
<1>5. m \in Wanted /\ m.op = "hello"
  BY DEF Plain, Wanted, Op, MaybeGen, MaybeRoot
<1> HIDE DEF z, m
<1>6. Piped(z) = Piped(panel)
  BY <1>4 DEF Piped
<1>7. Sound(z, Piped(z), stdout)
  BY <1>2, <1>3, <1>4, <1>6 DEF Fine, Sound, Recorded
<1>8. Sensible(z, m)
  BY <1>4, <1>5 DEF Sensible
<1>9. /\ Recorded(q) /\ Grows(z, q, "hello", stdout) /\ q.scanRequest = z.scanRequest
      /\ Sound(q, Piped(q), stdout)
  BY <1>2, <1>5, <1>7, <1>8, Sent
<1>10. \A r \in q.requests : Awaits(r, Piped(q), stdout)
  <2>1. CASE q = z
    BY <1>4, <2>1
  <2>2. CASE q # z
    <3>1. Extended(z, q, m, stdout)
      BY <1>2, <1>5, <1>7, <2>2, Sends DEF Sound
    <3> HIDE DEF q
    <3>2. PICK r \in Request, a \in Asked :
            /\ q = With(z, z.requests \cup {r}, Append(z.sent, a)) /\ a.id = r.id
            /\ Joint(stdin, Append(z.sent, a)) = Append(Piped(z), a)
      BY <3>1 DEF Extended
    <3> DEFINE now == Append(z.sent, a)
               all == z.requests \cup {r}
    <3>3. q = With(z, all, now)
      BY <3>2
    <3> HIDE DEF now, all
    <3>4. q.requests = all /\ q.sent = now
      BY <1>4, <3>3, Updated
    <3>5. Piped(q) = Append(Piped(z), a)
      BY <3>2, <3>4 DEF Piped, now
    <3>6. Piped(z) \in Seq(Asked)
      <4>1. Piped(z) = stdin /\ stdin \in Seq(Asked)
        BY <1>2, <1>6, NothingSent DEF Typed
      <4> QED
        BY <4>1
    <3> DEFINE in == Piped(z)
               longer == Append(in, a)
    <3>7. Len(in) + 1 \in DOMAIN longer /\ longer[Len(in) + 1] = a
      BY <3>6, Appended
    <3>8. \A s \in q.requests : s = r
      BY <1>4, <3>4 DEF all
    <3> HIDE DEF in
    <3> QED
      BY <3>2, <3>5, <3>7, <3>8 DEF Awaits, in
  <2> QED
    BY <2>1, <2>2
<1> HIDE DEF q
<1>11. /\ Steady(z, q) /\ \A r \in q.requests : r.op = "hello"
       /\ \A r, s \in q.requests : r = s
  BY <1>4, <1>9 DEF Grows
<1>12. /\ q.later = <<>> /\ q.activation = None /\ q.scanRequest = None
       /\ ~q.ready /\ q.process = "up" /\ q.listed = panel.listed
       /\ q.preferred = panel.preferred /\ q.treeRoot = panel.treeRoot
       /\ q.pendingScan = panel.pendingScan
  BY <1>4, <1>9, <1>11 DEF Steady
<1>13. Control(q, Piped(q), stdout)
  <2>1. Offline(q, Piped(q), stdout) /\ Booting(q)
    BY <1>11, <1>12 DEF Offline, Booting
  <2>2. ~Asks(q, "snapshotOpen") /\ ~Asks(q, "scanStart") /\ \A call : ~Calls(q, call)
    BY <1>11, <1>12 DEF Asks, Calls
  <2>3. Unlisted(q) /\ Chosen(q)
    BY <1>2, <1>12, <2>2 DEF Control, Unlisted, Chosen
  <2>4. Aimed(q)
    BY <1>2, <1>12 DEF Control, Aimed
  <2>5. Opening(q) /\ Launching(q, stdout) /\ NextScan(q) /\ OneOpen(q)
    BY <1>12, <2>2 DEF Opening, Launching, NextScan, OneOpen, Calls
  <2> QED
    BY <2>1, <2>3, <2>4, <2>5 DEF Control
<1>14. Fine(q, stdout)
  BY <1>9, <1>13 DEF Fine
<1>15. stdin' = stdin \o q.sent
  <2>1. q.sent \in Seq(Asked)
    BY <1>9 DEF Recorded, PanelRecord
  <2>2. <<>> \o q.sent = q.sent
    BY <2>1
  <2> QED
    BY <1>1, <1>3, <2>2
<1>16. stdout' = stdout /\ UNCHANGED <<stored, held, outcomes, queries>>
  BY <1>1
<1> QED
  BY <1>1, <1>2, <1>10, <1>12, <1>14, <1>15, <1>16, StepFine

LEMMA BrokerExitsKept ==
  ASSUME IInv, Quiet, BrokerExits
  PROVE  IInv'
<1> DEFINE p == Exited(panel)
           r == IF p.preferred = None THEN p ELSE [p EXCEPT !.pendingOpen = p.preferred]
           call == [call |-> "start", current |-> TRUE]
           w == [r EXCEPT !.later = Append(r.later, call)]
<1>1. panel' = (IF p.opened THEN w ELSE p) /\ Gone
  BY DEF BrokerExits, Later
<1>2. /\ Typed /\ panel \in PanelRecord /\ panel.later = <<>> /\ panel.sent = <<>>
      /\ Control(panel, stdin, stdout)
  BY Idle DEF Quiet, IInv, Typed
<1>3. /\ p \in PanelRecord /\ p.process = "off" /\ p.requests = {} /\ ~p.ready
      /\ p.activation = None /\ p.scanRequest = None /\ p.sent = <<>> /\ p.later = <<>>
      /\ p.listed = panel.listed /\ p.preferred = panel.preferred
      /\ p.treeRoot = panel.treeRoot /\ p.pendingScan = panel.pendingScan
  <2>1. {} \in SUBSET Request /\ None \in MaybeGen
    BY DEF MaybeGen
  <2> QED
    BY <1>2, <2>1 DEF PanelRecord, Exited
<1> HIDE DEF p
<1>4. /\ r \in PanelRecord /\ r.process = "off" /\ r.requests = {} /\ ~r.ready
      /\ r.activation = None /\ r.scanRequest = None /\ r.sent = <<>> /\ r.later = <<>>
      /\ r.listed = panel.listed /\ r.preferred = panel.preferred
      /\ r.treeRoot = panel.treeRoot /\ r.pendingScan = panel.pendingScan
  BY <1>3 DEF PanelRecord
<1> HIDE DEF r
<1>5. /\ w \in PanelRecord /\ w.process = "off" /\ w.requests = {} /\ ~w.ready
      /\ w.activation = None /\ w.scanRequest = None /\ w.sent = <<>>
      /\ w.listed = panel.listed /\ w.preferred = panel.preferred
      /\ w.treeRoot = panel.treeRoot /\ w.pendingScan = panel.pendingScan
      /\ \A i \in DOMAIN w.later : w.later[i].call = "start"
  <2> DEFINE later == Append(r.later, call)
  <2>1. call \in Call /\ call.call = "start" /\ r.later \in Seq(Call)
    BY <1>4 DEF Call, PanelRecord
  <2> HIDE DEF call
  <2>2. /\ later \in Seq(Call)
        /\ \A i \in DOMAIN later : i = Len(r.later) + 1 \/ i \in DOMAIN r.later
        /\ \A i \in DOMAIN later :
             later[i] = IF i = Len(r.later) + 1 THEN call ELSE r.later[i]
    BY <2>1, Appended
  <2>3. DOMAIN r.later = {}
    BY <1>4
  <2>4. \A i \in DOMAIN later : later[i].call = "start"
    BY <2>1, <2>2, <2>3
  <2>5. w = [r EXCEPT !.later = later]
    OBVIOUS
  <2> HIDE DEF later, w
  <2> QED
    BY <1>4, <2>2, <2>4, <2>5 DEF PanelRecord
<1> HIDE DEF w
<1>6. /\ panel' \in PanelRecord /\ panel'.process = "off" /\ panel'.requests = {}
      /\ ~panel'.ready /\ panel'.sent = <<>>
      /\ panel'.activation = None /\ panel'.scanRequest = None
      /\ panel'.listed = panel.listed /\ panel'.preferred = panel.preferred
      /\ panel'.treeRoot = panel.treeRoot /\ panel'.pendingScan = panel.pendingScan
      /\ \A i \in DOMAIN panel'.later : panel'.later[i].call = "start"
  <2>1. CASE p.opened
    BY <1>1, <1>5, <2>1
  <2>2. CASE ~p.opened
    <3>1. DOMAIN p.later = {}
      BY <1>3
    <3> QED
      BY <1>1, <1>3, <2>2, <3>1
  <2> QED
    BY <2>1, <2>2
<1>7. /\ serving' = FALSE /\ active' = None /\ previous' = None /\ staging' = None
      /\ outcomes' = {} /\ queries' = <<>> /\ stdin' = <<>> /\ stdout' = <<>>
      /\ stored' = stored
  BY <1>1 DEF Gone
<1>8. Typed'
  <2>1. ServiceTyped'
    <3>1. <<>> \in Seq(Queued) /\ IsFiniteSet({})
      BY FS_EmptySet
    <3> QED
      BY <1>2, <1>7, <3>1 DEF Typed, ServiceTyped
  <2>2. <<>> \in Seq(Asked) /\ <<>> \in Seq(Said) /\ IsFiniteSet({})
    BY FS_EmptySet
  <2> QED
    BY <1>6, <1>7, <2>1, <2>2 DEF Typed
<1>9. Sound(panel, stdin, stdout)'
  <2>1. DOMAIN stdin' = {} /\ DOMAIN stdout' = {} /\ DOMAIN queries' = {}
    BY <1>7
  <2>2. Wire(panel.requests, stdin, stdout)'
    BY <1>6, <1>7, <2>1
       DEF Wire, Apart, Matched, ScansNamed, Ended, RefusedAlone, Started
  <2>3. Recorded(panel)'
    BY <1>6, FS_EmptySet DEF Recorded
  <2>4. /\ NoneForgotten(panel.requests, stdin, stdout, panel.activation)'
        /\ OneScan(panel.requests, stdin, stdout, panel.scanRequest)'
        /\ SameRoot(panel.requests, stdin, stdout, panel.treeRoot)'
        /\ RowsNamed(panel.requests, panel.view, panel.activation)'
    BY <1>6 DEF NoneForgotten, OneScan, SameRoot, RowsNamed
  <2> QED
    BY <2>2, <2>3, <2>4 DEF Sound
<1>10. Control(panel, stdin, stdout)'
  <2>1. Offline(panel, stdin, stdout)' /\ Booting(panel)'
    BY <1>6, <1>7 DEF Offline, Booting, Asks
  <2>2. Unlisted(panel)' /\ Chosen(panel)'
    BY <1>2, <1>6 DEF Control, Unlisted, Chosen, Asks, Calls
  <2>3. Aimed(panel)'
    BY <1>2, <1>6 DEF Control, Aimed
  <2>4. Opening(panel)' /\ Launching(panel, stdout)' /\ NextScan(panel)' /\ OneOpen(panel)'
    BY <1>6 DEF Opening, Launching, NextScan, OneOpen
  <2> QED
    BY <2>1, <2>2, <2>3, <2>4 DEF Control
<1> QED
  BY <1>8, <1>9, <1>10 DEF IInv

LEMMA CallsLaterKept ==
  ASSUME IInv, CallsLater
  PROVE  IInv'
<1> DEFINE c == Head(panel.later)
           rest == Tail(panel.later)
           p == [panel EXCEPT !.later = rest]
<1>1. /\ panel.later # <<>>
      /\ c.call = "open" => Becomes(RequestSnapshotOpen(p, c.root))
      /\ c.call = "launch" => Becomes(LaunchScan(p, c))
      /\ c.call = "cancel" => Becomes(CancelActiveScan(p))
      /\ c.call = "start" => Becomes(IF p.opened THEN StartBroker(p) ELSE p)
  BY DEF CallsLater
<1>2. /\ Typed /\ Fine(panel, stdout) /\ panel \in PanelRecord /\ Reading(stdout)
      /\ Control(panel, stdin, stdout) /\ panel.later \in Seq(Call)
  BY NothingSent DEF IInv, Typed, PanelRecord
<1>3. /\ rest \in Seq(Call) /\ DOMAIN panel.later = 1..Len(panel.later)
      /\ DOMAIN rest = 1..(Len(panel.later) - 1) /\ Len(panel.later) \in Nat
      /\ \A i \in DOMAIN rest :
           rest[i] = panel.later[i + 1] /\ i + 1 \in DOMAIN panel.later
      /\ c = panel.later[1] /\ 1 \in DOMAIN panel.later /\ c \in Call
  BY <1>1, <1>2, Shortened
<1> HIDE DEF c, rest
<1>4. /\ p \in PanelRecord /\ p.sent = panel.sent /\ p.later = rest
      /\ p.listed = panel.listed /\ p.preferred = panel.preferred
      /\ p.treeRoot = panel.treeRoot /\ p.process = panel.process
      /\ p.view = panel.view /\ p.requests = panel.requests
      /\ p.scanRequest = panel.scanRequest /\ p.activation = panel.activation
      /\ p.ready = panel.ready /\ p.pendingScan = panel.pendingScan
  BY <1>2, <1>3 DEF PanelRecord
<1> HIDE DEF p
<1>5. /\ \A op : Asks(p, op) <=> Asks(panel, op)
      /\ \A call : Calls(p, call) => Calls(panel, call)
      /\ ~Calls(p, "open")
  <2>1. \A op : Asks(p, op) <=> Asks(panel, op)
    BY <1>4 DEF Asks
  <2>2. \A call : Calls(p, call) => Calls(panel, call)
    BY <1>3, <1>4 DEF Calls
  <2>3. ASSUME NEW i \in DOMAIN rest, rest[i].call = "open" PROVE FALSE
    <3>1. i + 1 = 1
      BY <1>2, <1>3, <2>3 DEF Control, Opening
    <3> QED
      BY <1>3, <3>1
  <2> QED
    BY <1>4, <2>1, <2>2, <2>3 DEF Calls
<1>6. Fine(p, stdout)
  <2>1. Piped(p) = Piped(panel)
    BY <1>4 DEF Piped
  <2>2. Sound(p, Piped(p), stdout)
    BY <1>2, <1>4, <2>1 DEF Fine, Sound, Recorded
  <2>3. Control(panel, Piped(panel), stdout)
    BY <1>2 DEF Fine
  <2>4. Offline(p, Piped(p), stdout) /\ Booting(p) /\ Unlisted(p) /\ Chosen(p)
    <3>1. Asks(panel, "hello") => rest = <<>>
      BY <1>1, <2>3 DEF Control, Booting
    <3> QED
      BY <1>4, <1>5, <2>1, <2>3, <3>1 DEF Control, Offline, Booting, Unlisted, Chosen
  <2>5. Aimed(p) /\ Opening(p)
    <3>1. Aimed(panel)
      BY <2>3 DEF Control
    <3>2. ASSUME NEW i \in DOMAIN rest, rest[i].call = "launch", rest[i].current
          PROVE  rest[i].root = panel.treeRoot
      BY <1>3, <3>1, <3>2 DEF Aimed
    <3>3. Aimed(p)
      BY <1>4, <3>1, <3>2 DEF Aimed
    <3>4. Opening(p)
      BY <1>5 DEF Opening, Calls
    <3> QED
      BY <3>3, <3>4
  <2>6. Launching(p, stdout)
    <3>1. ASSUME panel.ready, Calls(p, "launch")
          PROVE  \A i, j \in DOMAIN rest :
                   rest[i].call = "launch" /\ rest[j].call = "launch" => i = j
      <4>1. ASSUME NEW i \in DOMAIN rest, NEW j \in DOMAIN rest,
                   rest[i].call = "launch", rest[j].call = "launch"
            PROVE  i = j
        <5>1. i + 1 = j + 1
          BY <1>3, <1>5, <2>3, <3>1, <4>1, SMTT(30) DEF Control, Launching
        <5> QED
          BY <1>3, <5>1
      <4> QED
        BY <4>1
    <3> QED
      BY <1>4, <1>5, <2>3, <3>1 DEF Control, Launching
  <2>7. NextScan(p) /\ OneOpen(p)
    BY <1>4, <1>5, <2>3 DEF Control, NextScan, OneOpen
  <2> QED
    BY <2>2, <2>4, <2>5, <2>6, <2>7 DEF Fine, Control
<1>7. CASE c.call = "open"
  <2>1. /\ panel.ready /\ panel.requests = {} /\ panel.scanRequest = None
        /\ panel.pendingScan = None /\ panel.activation = None
    BY <1>2, <1>3, <1>7 DEF Control, Opening
  <2>2. c.root \in MaybeRoot
    BY <1>3, <1>7 DEF Call, MaybeRoot
  <2>3. ~Asks(p, "snapshotOpen")
    BY <1>4, <2>1 DEF Asks
  <2>4. Fine(RequestSnapshotOpen(p, c.root), stdout)
    BY <1>2, <1>4, <1>5, <1>6, <2>1, <2>2, <2>3, OpenFine
  <2> QED
    BY <1>1, <1>2, <1>7, <2>4, BecomesFine
<1>8. CASE c.call = "launch"
  <2>1. c \in PutOff /\ Calls(panel, "launch")
    BY <1>3, <1>8 DEF Call, Calls
  <2>2. ASSUME c.current, p.ready
        PROVE  /\ p.listed /\ c.root = p.treeRoot
               /\ p.scanRequest = None /\ p.pendingScan = None
               /\ Asks(p, "snapshotOpen") => p.activation = None
    BY <1>2, <1>3, <1>4, <1>5, <1>8, <2>1, <2>2 DEF Control, Unlisted, Aimed, Launching
  <2>3. ASSUME p.ready PROVE ~Calls(p, "launch")
    <3>1. ASSUME NEW i \in DOMAIN rest, rest[i].call = "launch" PROVE FALSE
      <4>1. i + 1 = 1
        BY <1>2, <1>3, <1>4, <1>8, <2>1, <2>3, <3>1 DEF Control, Launching
      <4> QED
        BY <1>3, <4>1
    <3> QED
      BY <1>4, <3>1 DEF Calls
  <2>4. Fine(LaunchScan(p, c), stdout)
    BY <1>2, <1>5, <1>6, <2>1, <2>2, <2>3, LaunchFine
  <2> QED
    BY <1>1, <1>2, <1>8, <2>4, BecomesFine
<1>9. CASE c.call = "cancel"
  BY <1>1, <1>2, <1>5, <1>6, <1>9, CancelFine, BecomesFine
<1>10. CASE c.call = "start"
  <2>1. Fine(IF p.opened THEN StartBroker(p) ELSE p, stdout)
    BY <1>6, StartFine
  <2> QED
    BY <1>1, <1>2, <1>10, <2>1, BecomesFine
<1> QED
  BY <1>3, <1>7, <1>8, <1>9, <1>10 DEF Call

-----------------------------------------------------------------------------
(* A line is read.                                                         *)

LEMMA TailFine ==
  ASSUME Typed, stdout # <<>>, NEW p, Fine(p, stdout),
         \A r \in p.requests : r.id = Line.id =>
           /\ Line.type = "scanStarted" => r.gen = Line.gen
           /\ \/ Awaits(r, Piped(p), Tail(stdout))
              \/ Passed(r, p.activation) \/ RefusedScan(r)
  PROVE  Fine(p, Tail(stdout))
<1> DEFINE in == Piped(p)
           rest == Tail(stdout)
<1>1. /\ Sound(p, in, stdout) /\ Control(p, in, stdout) /\ stdout \in Seq(Said)
      /\ \A i \in DOMAIN rest : rest[i] = stdout[i + 1] /\ i + 1 \in DOMAIN stdout
  BY Shortened DEF Fine, Typed
<1>2. Wire(p.requests, in, rest)
  BY <1>1, ReadWire DEF Sound, Line
<1>3. /\ NoneForgotten(p.requests, in, rest, p.activation)
      /\ OneScan(p.requests, in, rest, p.scanRequest)
      /\ SameRoot(p.requests, in, rest, p.treeRoot)
  BY <1>1, ReadRest DEF Sound, Line
<1>4. Sound(p, in, rest)
  BY <1>1, <1>2, <1>3 DEF Sound
<1>5. Offline(p, in, rest)
  BY <1>1 DEF Control, Offline
<1>6. Launching(p, rest)
  BY <1>1 DEF Control, Launching
<1> QED
  BY <1>1, <1>4, <1>5, <1>6 DEF Control, Fine

LEMMA TurnsFine ==
  ASSUME Typed, stdout # <<>>, NEW p, Fine(p, Tail(stdout)), Turns(p)
  PROVE  IInv'
<1>1. Reading(Tail(stdout))
  BY DEF Reading
<1> QED
  BY <1>1, StepFine DEF Turns, service

\* What is known when a line arrives for a pending request.
LEMMA Arrived ==
  ASSUME IInv, Arrives
  PROVE  /\ Typed /\ Fine(panel, stdout) /\ panel \in PanelRecord
         /\ stdout # <<>> /\ Reading(Tail(stdout)) /\ Reading(stdout)
         /\ Control(panel, Piped(panel), stdout)
         /\ Sound(panel, Piped(panel), stdout)
         /\ Line \in Said /\ 1 \in DOMAIN stdout /\ stdout[1] = Line
         /\ Expected \in panel.requests /\ Expected.id = Line.id
         /\ \A r \in panel.requests : r.id = Line.id => r = Expected
         /\ Expected.op \in AnsweredBy(Line.type)
         /\ panel.process = "up" /\ ~Calls(panel, "open")
<1>1. /\ Typed /\ Fine(panel, stdout) /\ panel \in PanelRecord
      /\ stdout # <<>> /\ Reading(Tail(stdout)) /\ Reading(stdout)
  BY NothingSent DEF IInv, Typed, Arrives, Reading
<1>2. /\ Control(panel, Piped(panel), stdout) /\ Sound(panel, Piped(panel), stdout)
      /\ stdout \in Seq(Said)
  BY <1>1 DEF Fine, Typed
<1>3. Line \in Said /\ 1 \in DOMAIN stdout /\ stdout[1] = Line
  BY <1>1, <1>2, Shortened DEF Line
<1>4. Expected \in panel.requests /\ Expected.id = Line.id
  <2>1. \E r \in panel.requests : r.id = Line.id
    BY DEF Arrives, IdsIn
  <2> QED
    BY <2>1 DEF Expected
<1>5. \A r \in panel.requests : r.id = Line.id => r = Expected
  BY <1>2, <1>4 DEF Sound, Wire, Apart
<1>6. Expected.op \in AnsweredBy(Line.type)
  <2>1. Matched(panel.requests, Piped(panel), stdout)
    BY <1>2 DEF Sound, Wire
  <2> QED
    BY <1>3, <1>4, <2>1 DEF Matched
<1>7. panel.process = "up" /\ ~Calls(panel, "open")
  BY <1>1, <1>2, <1>4 DEF Control, Offline, Opening, Calls
<1> QED
  BY <1>1, <1>2, <1>3, <1>4, <1>5, <1>6, <1>7

\* What an answer leaves of the panel when its request is settled.
LEMMA SettledFine ==
  ASSUME IInv, Arrives, NEW p, p = Settled
  PROVE  /\ Fine(p, Tail(stdout)) /\ Fine(p, stdout) /\ p \in PanelRecord
         /\ p.requests = panel.requests \ {Expected}
         /\ p.sent = panel.sent /\ p.later = panel.later
         /\ p.listed = panel.listed /\ p.preferred = panel.preferred
         /\ p.treeRoot = panel.treeRoot /\ p.process = panel.process
         /\ p.view = panel.view /\ p.scanRequest = panel.scanRequest
         /\ p.activation = panel.activation /\ p.ready = panel.ready
         /\ p.pendingScan = panel.pendingScan /\ p.staging = panel.staging
         /\ p.pendingOpen = panel.pendingOpen /\ p.cancelling = panel.cancelling
<1> DEFINE R == panel.requests \ {Expected}
           in == Piped(panel)
<1>1. /\ Typed /\ Fine(panel, stdout) /\ panel \in PanelRecord /\ stdout # <<>>
      /\ Sound(panel, in, stdout)
      /\ \A r \in panel.requests : r.id = Line.id <=> r = Expected
  BY Arrived
<1>2. {r \in panel.requests : r.id \notin {Line.id}} = R
  BY <1>1
<1> HIDE DEF R, in
<1>3. p = [panel EXCEPT !.requests = R]
  BY <1>2 DEF Settled, Finish
<1>4. R \subseteq panel.requests
  BY DEF R
<1>5. /\ p \in PanelRecord /\ p.requests = R /\ p.sent = panel.sent
      /\ p.listed = panel.listed /\ p.preferred = panel.preferred
      /\ p.treeRoot = panel.treeRoot /\ p.process = panel.process
      /\ p.later = panel.later /\ p.view = panel.view
      /\ p.scanRequest = panel.scanRequest /\ p.activation = panel.activation
      /\ p.ready = panel.ready /\ p.pendingScan = panel.pendingScan
      /\ p.staging = panel.staging
      /\ p.pendingOpen = panel.pendingOpen /\ p.cancelling = panel.cancelling
  BY <1>1, <1>3, <1>4, SMTT(30) DEF PanelRecord
<1>6. /\ NoneForgotten(p.requests, in, stdout, p.activation)
      /\ OneScan(p.requests, in, stdout, p.scanRequest)
      /\ RowsNamed(p.requests, p.view, p.activation)
  BY <1>1, <1>4, <1>5 DEF Sound, NoneForgotten, OneScan, RowsNamed
<1>7. Fine(p, stdout)
  BY <1>1, <1>4, <1>5, <1>6, LessFine DEF in
<1>8. \A r \in p.requests : r.id # Line.id
  BY <1>1, <1>5 DEF R
<1>9. Fine(p, Tail(stdout))
  BY <1>1, <1>7, <1>8, TailFine
<1> QED
  BY <1>5, <1>7, <1>9 DEF R

LEMMA UnexpectedKept ==
  ASSUME IInv, Unexpected
  PROVE  IInv'
<1>1. Typed /\ Fine(panel, stdout) /\ stdout # <<>> /\ Turns(panel)
  BY NothingSent DEF IInv, Unexpected
<1>2. \A r \in panel.requests : r.id # Line.id
  BY DEF Unexpected, IdsIn
<1>3. Fine(panel, Tail(stdout))
  BY <1>1, <1>2, TailFine
<1> QED
  BY <1>1, <1>3, TurnsFine

LEMMA AcknowledgedKept ==
  ASSUME IInv, Acknowledged
  PROVE  IInv'
<1>1. Arrives /\ Turns(Settled)
  BY DEF Acknowledged
<1> DEFINE p == Settled
<1>2. Fine(p, Tail(stdout)) /\ Typed /\ stdout # <<>>
  BY <1>1, Arrived, SettledFine
<1> QED
  BY <1>1, <1>2, TurnsFine

LEMMA RequestRefusedKept ==
  ASSUME IInv, RequestRefused
  PROVE  IInv'
<1> DEFINE p == Settled
<1>1. /\ Arrives /\ Line.type = "error"
      /\ \/ Turns(p)
         \/ Expected.op \in {"metadata", "children"} /\ Turns(AbortPendingActivation(p))
         \/ Turns(FailBroker(p))
  BY DEF RequestRefused
<1>2. /\ Typed /\ stdout # <<>> /\ Reading(Tail(stdout)) /\ ~Calls(panel, "open")
      /\ Control(panel, Piped(panel), stdout) /\ Expected \in panel.requests
  BY <1>1, Arrived
<1>3. /\ Fine(p, Tail(stdout)) /\ p.later = panel.later
      /\ p.requests = panel.requests \ {Expected}
  BY <1>1, SettledFine
<1> HIDE DEF p
<1>4. ~Calls(p, "open")
  BY <1>2, <1>3 DEF Calls
<1>5. ASSUME Expected.op \in {"metadata", "children"} PROVE ~Asks(p, "hello")
  BY <1>2, <1>3, <1>5 DEF Control, Booting, Asks
<1>6. Expected.op \in {"metadata", "children"} =>
        Fine(AbortPendingActivation(p), Tail(stdout))
  BY <1>2, <1>3, <1>4, <1>5, AbortFine
<1>7. Fine(FailBroker(p), Tail(stdout))
  BY <1>2, <1>3, <1>4, FailFine
<1> QED
  BY <1>1, <1>2, <1>3, <1>6, <1>7, TurnsFine

\* A line that settles nothing.
LEMMA DroppedKept ==
  ASSUME IInv, Arrives, Turns(panel), Line.type # "scanStarted",
         Passed(Expected, panel.activation) \/ RefusedScan(Expected)
  PROVE  IInv'
<1>1. /\ Typed /\ Fine(panel, stdout) /\ stdout # <<>>
      /\ \A r \in panel.requests : r.id = Line.id => r = Expected
  BY Arrived
<1>2. Fine(panel, Tail(stdout))
  BY <1>1, TailFine
<1> QED
  BY <1>1, <1>2, TurnsFine

LEMMA RowsArriveKept ==
  ASSUME IInv, RowsArrive
  PROVE  IInv'
<1> DEFINE p == Settled
<1>1. /\ Arrives /\ Line.type = "queryResult" /\ Navigates(Expected)
      /\ Turns(IF Line.gen = panel.view THEN p ELSE panel)
  BY DEF RowsArrive
<1>2. /\ Typed /\ stdout # <<>> /\ Sound(panel, Piped(panel), stdout)
      /\ Expected \in panel.requests /\ Expected.id = Line.id
      /\ 1 \in DOMAIN stdout /\ stdout[1] = Line
  BY <1>1, Arrived
<1>3. Line.gen = Expected.gen
  <2>1. Matched(panel.requests, Piped(panel), stdout)
    BY <1>2 DEF Sound, Wire
  <2> QED
    BY <1>1, <1>2, <2>1 DEF Matched
<1>4. Expected.gen = panel.view
  BY <1>1, <1>2 DEF Sound, RowsNamed
<1>5. Fine(p, Tail(stdout))
  BY <1>1, SettledFine
<1> QED
  BY <1>1, <1>2, <1>3, <1>4, <1>5, TurnsFine

\* Rows and a commit that are not awaited are of an activation that has gone.
LEMMA NotAwaited ==
  ASSUME IInv, Arrives, ~Awaited, Expected.token # None,
         Line.type \in {"queryResult", "activationCommitted"}
  PROVE  Passed(Expected, panel.activation)
<1>1. /\ Sound(panel, Piped(panel), stdout)
      /\ Expected \in panel.requests /\ Expected.id = Line.id
      /\ 1 \in DOMAIN stdout /\ stdout[1] = Line
  BY Arrived
<1>2. Line.gen = Expected.gen
  <2>1. Matched(panel.requests, Piped(panel), stdout)
    BY <1>1 DEF Sound, Wire
  <2> QED
    BY <1>1, <2>1 DEF Matched
<1>3. panel.activation # None /\ Expected.token = panel.activation.token
        => Expected.gen = panel.activation.gen
  BY <1>1 DEF Sound, RowsNamed
<1> QED
  BY <1>2, <1>3 DEF Awaited, Passed

\* An activation has got some of its rows.
LEMMA RowsFine ==
  ASSUME NEW p, NEW z, NEW out, Fine(p, out), z \in PanelRecord,
         z.requests = p.requests, z.sent = p.sent,
         z.listed = p.listed, z.preferred = p.preferred, z.treeRoot = p.treeRoot,
         z.process = p.process, z.later = p.later, z.ready = p.ready,
         z.view = p.view, z.pendingScan = p.pendingScan,
         z.scanRequest = p.scanRequest,
         p.activation # None, z.activation # None,
         z.activation.token = p.activation.token,
         z.activation.gen = p.activation.gen,
         z.activation.root = p.activation.root
  PROVE  Fine(z, out)
<1> DEFINE in == Piped(p)
<1>1. /\ p \in PanelRecord /\ Recorded(p) /\ Control(p, in, out)
      /\ Sound(p, in, out)
  BY DEF Fine, Sound, Recorded
<1>2. Piped(z) = in
  BY DEF Piped
<1> HIDE DEF in
<1>3. Sound(z, in, out)
  <2>1. NoneForgotten(z.requests, in, out, z.activation)
    BY <1>1 DEF Sound, NoneForgotten, Passed
  <2>2. RowsNamed(z.requests, z.view, z.activation)
    BY <1>1 DEF Sound, RowsNamed
  <2> QED
    BY <1>1, <2>1, <2>2 DEF Sound, Recorded
<1>4. /\ \A op : Asks(z, op) <=> Asks(p, op)
      /\ \A call : Calls(z, call) <=> Calls(p, call)
  BY DEF Asks, Calls
<1>5. Offline(z, in, out) /\ Booting(z) /\ Unlisted(z) /\ Chosen(z)
  BY <1>1, <1>4 DEF Control, Offline, Booting, Unlisted, Chosen
<1>6. Aimed(z) /\ Opening(z)
  BY <1>1 DEF Control, Aimed, Opening
<1>7. Launching(z, out) /\ NextScan(z) /\ OneOpen(z)
  BY <1>1, <1>4 DEF Control, Launching, NextScan, OneOpen
<1> QED
  BY <1>2, <1>3, <1>5, <1>6, <1>7 DEF Fine, Control

LEMMA FirstRowsKept ==
  ASSUME IInv, FirstRowsArrive
  PROVE  IInv'
<1> DEFINE s == Settled
           act == s.activation
           now == [act EXCEPT !.rows = @ \cup {Expected.op}]
           p == [s EXCEPT !.activation = now]
           m == About("activationCommit", p.activation.gen, p.activation.token)
<1>1. /\ Arrives /\ Line.type = "queryResult" /\ ~Navigates(Expected)
      /\ \/ ~Awaited /\ Turns(panel)
         \/ Awaited /\ Turns(p)
         \/ Awaited /\ Turns(Send(p, m))
  <2>1. p = [s EXCEPT !.activation.rows = @ \cup {Expected.op}]
    OBVIOUS
  <2> HIDE DEF p
  <2> QED
    BY <2>1 DEF FirstRowsArrive
<1>2. /\ Typed /\ stdout # <<>> /\ Reading(Tail(stdout)) /\ ~Calls(panel, "open")
      /\ Sound(panel, Piped(panel), stdout) /\ Expected \in panel.requests
      /\ Expected.op \in {"metadata", "children"} /\ panel \in PanelRecord
  BY <1>1, Arrived, AnswerTypes
<1>3. Expected.token # None
  BY <1>1, <1>2 DEF Sound, RowsNamed, Navigates
<1>4. CASE ~Awaited
  <2>1. Passed(Expected, panel.activation)
    BY <1>1, <1>3, <1>4, NotAwaited
  <2> QED
    BY <1>1, <1>4, <2>1, DroppedKept
<1>5. CASE Awaited
  <2>1. /\ Fine(s, Tail(stdout)) /\ s \in PanelRecord
        /\ s.activation = panel.activation /\ s.later = panel.later
    BY <1>1, SettledFine
  <2> HIDE DEF s
  <2>2. act \in Activation /\ act # None
    BY <1>5, <2>1 DEF Awaited, PanelRecord
  <2> HIDE DEF act
  <2>3. /\ now \in Activation /\ now # None
        /\ now.token = act.token /\ now.gen = act.gen /\ now.root = act.root
    <3>1. now \in Activation /\ now.token = act.token /\ now.gen = act.gen
          /\ now.root = act.root
      BY <1>2, <2>2 DEF Activation
    <3> HIDE DEF now
    <3> QED
      BY <3>1, NoneIsNoCall
  <2> HIDE DEF now
  <2>4. /\ p \in PanelRecord /\ p.requests = s.requests /\ p.sent = s.sent
        /\ p.listed = s.listed /\ p.preferred = s.preferred
        /\ p.treeRoot = s.treeRoot /\ p.process = s.process
        /\ p.later = s.later /\ p.ready = s.ready /\ p.view = s.view
        /\ p.pendingScan = s.pendingScan /\ p.scanRequest = s.scanRequest
        /\ p.activation = now
    BY <2>1, <2>3 DEF PanelRecord
  <2> HIDE DEF p
  <2>5. Fine(p, Tail(stdout)) /\ ~Calls(p, "open")
    <3>1. ~Calls(p, "open")
      BY <1>2, <2>1, <2>4 DEF Calls
    <3> QED
      BY <2>1, <2>2, <2>3, <2>4, <3>1, RowsFine DEF act
  <2>6. m \in Wanted /\ m.op = "activationCommit" /\ m.gen = now.gen
        /\ m.token = now.token /\ now.token # None
    <3>1. /\ "activationCommit" \in Op /\ now.gen \in MaybeGen /\ now.token \in MaybeGen
          /\ now.token # None
      BY <2>3, NoneIsNothing DEF Activation, Op, MaybeGen
    <3> QED
      BY <2>4, <3>1, AboutWanted
  <2> HIDE DEF m
  <2>7. Sensible(p, m)
    BY <2>4, <2>6 DEF Sensible
  <2>8. Fine(Send(p, m), Tail(stdout))
    BY <1>2, <2>5, <2>6, <2>7, SentFine
  <2> QED
    BY <1>1, <1>2, <1>5, <2>5, <2>8, TurnsFine
<1> QED
  BY <1>4, <1>5

LEMMA ActivationCommittedKept ==
  ASSUME IInv, ActivationCommitted
  PROVE  IInv'
<1> DEFINE p == Settled
<1>1. /\ Arrives /\ Line.type = "activationCommitted"
      /\ \/ ~Awaited /\ Turns(panel)
         \/ Awaited /\ Turns(CommitInitialView(p))
  BY DEF ActivationCommitted
<1>2. /\ Typed /\ stdout # <<>> /\ Reading(Tail(stdout))
      /\ Sound(panel, Piped(panel), stdout) /\ Control(panel, Piped(panel), stdout)
      /\ Expected \in panel.requests /\ Expected.op = "activationCommit"
  BY <1>1, Arrived, AnswerTypes
<1>3. CASE ~Awaited
  <2>1. Expected.token # None
    BY <1>2 DEF Sound, RowsNamed
  <2>2. Passed(Expected, panel.activation)
    BY <1>1, <1>3, <2>1, NotAwaited
  <2> QED
    BY <1>1, <1>3, <2>2, DroppedKept
<1>4. CASE Awaited
  <2>1. /\ Fine(p, Tail(stdout)) /\ p.activation = panel.activation
        /\ p.treeRoot = panel.treeRoot /\ p.requests = panel.requests \ {Expected}
    BY <1>1, SettledFine
  <2> HIDE DEF p
  <2>2. ~Asks(p, "hello")
    BY <1>2, <2>1 DEF Control, Booting, Asks
  <2>3. panel.activation # None /\ panel.activation.root = panel.treeRoot
    BY <1>2, <1>4 DEF Awaited, Control, Aimed
  <2>4. Fine(CommitInitialView(p), Tail(stdout))
    BY <1>2, <2>1, <2>2, <2>3, CommitFine
  <2> QED
    BY <1>1, <1>2, <1>4, <2>4, TurnsFine
<1> QED
  BY <1>3, <1>4

\* A line that ends a scan is about the scan that is followed.
LEMMA ScanEnds ==
  ASSUME IInv, Arrives, Expected.op = "scanStart", Line.type \in Over
  PROVE  Line.gen = Expected.gen /\ Line.id = panel.scanRequest /\ Line.gen \in Nat
<1>1. /\ Sound(panel, Piped(panel), stdout) /\ stdout \in Seq(Said)
      /\ Expected \in panel.requests /\ Expected.id = Line.id
      /\ 1 \in DOMAIN stdout /\ stdout[1] = Line
  BY Arrived DEF Typed
<1>2. /\ Ended(panel.requests, stdout) /\ ScansNamed(stdout)
      /\ OneScan(panel.requests, Piped(panel), stdout, panel.scanRequest)
  BY <1>1 DEF Sound, Wire
<1>3. Line.gen \in Nat
  BY <1>1, <1>2 DEF ScansNamed
<1>4. Line.id = panel.scanRequest
  BY <1>1, <1>2 DEF OneScan, Awaits
<1>5. Told(Expected, Line.gen, 1, stdout)
  BY <1>1, <1>2 DEF Ended
<1>6. \A j \in DOMAIN stdout : ~(j < 1)
  <2>1. DOMAIN stdout = 1..Len(stdout)
    BY <1>1
  <2> QED
    BY <2>1
<1> QED
  BY <1>3, <1>4, <1>5, <1>6 DEF Told

LEMMA ScanLineDroppedKept ==
  ASSUME IInv, ScanLineDropped
  PROVE  IInv'
<1>1. /\ Arrives /\ Expected.op = "scanStart" /\ Line.type # "scanStarted"
      /\ ~Followed /\ Turns(panel)
  BY DEF ScanLineDropped
<1>2. /\ Sound(panel, Piped(panel), stdout) /\ Line \in Said
      /\ Expected \in panel.requests /\ Expected.id = Line.id
      /\ Expected.op \in AnsweredBy(Line.type)
      /\ 1 \in DOMAIN stdout /\ stdout[1] = Line
  BY <1>1, Arrived
<1>3. Line.type \in Over \cup {"error"}
  <2>1. Line.type \in Type
    BY <1>2 DEF Said
  <2> QED
    BY <1>1, <1>2, <2>1, AnswerTypes DEF Type, Over
<1>4. Line.type = "error"
  BY <1>1, <1>3, ScanEnds DEF Followed, Over
<1>5. RefusedScan(Expected)
  BY <1>1, <1>2, <1>4 DEF Sound, Wire, RefusedAlone, RefusedScan
<1> QED
  BY <1>1, <1>5, DroppedKept

\* The panel after a scan is over.
LEMMA OverFine ==
  ASSUME IInv, Arrives, Expected.op = "scanStart", Line.type \in Over,
         NEW z, z = [ScanOver EXCEPT !.cancelling = FALSE] \/ z = ScanOver
  PROVE  /\ Fine(z, Tail(stdout)) /\ z \in PanelRecord /\ z.process = "up"
         /\ z.listed /\ z.treeRoot = panel.treeRoot /\ z.activation = panel.activation
         /\ z.scanRequest = None /\ ~Asks(z, "hello") /\ ~Calls(z, "open")
         /\ z.ready => ~Calls(z, "launch")
         /\ z.ready /\ z.pendingScan # None => z.activation = None
<1> DEFINE p == Settled
<1>1. /\ Control(panel, Piped(panel), stdout) /\ panel.process = "up"
      /\ ~Calls(panel, "open") /\ Expected \in panel.requests
      /\ Expected.id = Line.id /\ panel \in PanelRecord
      /\ \A r \in panel.requests : r.id = Line.id => r = Expected
  BY Arrived
<1>2. Line.id = panel.scanRequest /\ panel.scanRequest # None
  <2>1. Line.id \in Number
    BY <1>1 DEF PanelRecord, Request
  <2> QED
    BY <2>1, ScanEnds, NoneIsNothing DEF Number
<1>3. \/ z = [p EXCEPT !.scanRequest = None, !.staging = None]
      \/ z = [[p EXCEPT !.scanRequest = None, !.staging = None]
                EXCEPT !.cancelling = FALSE]
  BY DEF ScanOver
<1>4. /\ Fine(p, Tail(stdout)) /\ p \in PanelRecord
      /\ p.requests = panel.requests \ {Expected} /\ p.later = panel.later
      /\ p.listed = panel.listed /\ p.treeRoot = panel.treeRoot
      /\ p.process = panel.process /\ p.scanRequest = panel.scanRequest
      /\ p.activation = panel.activation /\ p.ready = panel.ready
      /\ p.pendingScan = panel.pendingScan
  BY SettledFine
<1> HIDE DEF p
<1>5. /\ z \in PanelRecord /\ z.requests = p.requests /\ z.sent = p.sent
      /\ z.listed = p.listed /\ z.preferred = p.preferred
      /\ z.treeRoot = p.treeRoot /\ z.process = p.process
      /\ z.later = p.later /\ z.ready = p.ready /\ z.view = p.view
      /\ z.pendingScan = p.pendingScan /\ z.scanRequest = None
      /\ z.activation = p.activation
  <2> DEFINE a == [p EXCEPT !.scanRequest = None, !.staging = None]
             b == [a EXCEPT !.cancelling = FALSE]
  <2>1. None \in MaybeGen
    BY DEF MaybeGen
  <2>2. /\ a \in PanelRecord /\ a.requests = p.requests /\ a.sent = p.sent
        /\ a.listed = p.listed /\ a.preferred = p.preferred
        /\ a.treeRoot = p.treeRoot /\ a.process = p.process
        /\ a.later = p.later /\ a.ready = p.ready /\ a.view = p.view
        /\ a.pendingScan = p.pendingScan /\ a.scanRequest = None
        /\ a.activation = p.activation
    BY <1>4, <2>1 DEF PanelRecord
  <2>3. z = a \/ z = b
    BY <1>3
  <2> HIDE DEF a
  <2>4. /\ b \in PanelRecord /\ b.requests = a.requests /\ b.sent = a.sent
        /\ b.listed = a.listed /\ b.preferred = a.preferred
        /\ b.treeRoot = a.treeRoot /\ b.process = a.process
        /\ b.later = a.later /\ b.ready = a.ready /\ b.view = a.view
        /\ b.pendingScan = a.pendingScan /\ b.scanRequest = a.scanRequest
        /\ b.activation = a.activation
    <3>1. b \in PanelRecord
      BY <2>2, ZenonT(30) DEF PanelRecord
    <3>2. a \in PanelRecord
      BY <2>2
    <3> QED
      BY <3>1, <3>2 DEF PanelRecord
  <2> HIDE DEF b
  <2>5. CASE z = a
    BY <2>2, <2>5
  <2>6. CASE z = b
    BY <2>2, <2>4, <2>6
  <2> QED
    BY <2>3, <2>5, <2>6
<1>6. OneScan(z.requests, Piped(p), Tail(stdout), None)
  BY <1>1, <1>2, <1>4, <1>5 DEF Fine, Sound, OneScan
<1>7. Fine(z, Tail(stdout))
  BY <1>4, <1>5, <1>6, LessFine DEF Fine, Sound
<1>8. z.listed /\ ~Asks(z, "hello") /\ ~Calls(z, "open")
  BY <1>1, <1>4, <1>5 DEF Control, Unlisted, Booting, Asks, Calls
<1>9. /\ z.ready => ~Calls(z, "launch")
      /\ z.ready /\ z.pendingScan # None => z.activation = None
  BY <1>1, <1>2, <1>4, <1>5 DEF Control, Launching, NextScan, Calls
<1> QED
  BY <1>1, <1>4, <1>5, <1>7, <1>8, <1>9

LEMMA ScanNotDoneKept ==
  ASSUME IInv, ScanNotDone
  PROVE  IInv'
<1> DEFINE z == [ScanOver EXCEPT !.cancelling = FALSE]
<1>1. /\ Arrives /\ Expected.op = "scanStart" /\ Line.type \in Over
      /\ Turns(LaunchPendingScan(z))
  BY DEF ScanNotDone, Over
<1>2. /\ Fine(z, Tail(stdout)) /\ ~Asks(z, "hello") /\ z.scanRequest = None
      /\ z.ready /\ z.pendingScan # None => z.activation = None
  BY <1>1, OverFine
<1> HIDE DEF z
<1>3. Fine(LaunchPendingScan(z), Tail(stdout))
  BY <1>2, LaunchPendingFine
<1>4. Typed /\ stdout # <<>>
  BY <1>1, Arrived
<1> QED
  BY <1>1, <1>3, <1>4, TurnsFine

LEMMA SnapshotActivatedKept ==
  ASSUME IInv, SnapshotActivated
  PROVE  IInv'
<1> DEFINE y == ScanOver
           z == [y EXCEPT !.cancelling = FALSE]
           m == About("activationAbort", Line.gen, None)
           q == Send(z, m)
<1>1. /\ Arrives /\ Expected.op = "scanStart" /\ Line.type \in Over
      /\ Line.type = "snapshotActivated"
      /\ \/ Turns(LaunchPendingScan(q))
         \/ Turns(BeginActivation(y, Line.gen, Line.root))
  BY DEF SnapshotActivated, Over, GivenBack
<1>2. /\ Typed /\ stdout # <<>> /\ Reading(Tail(stdout)) /\ Line \in Said
      /\ Sound(panel, Piped(panel), stdout) /\ Expected \in panel.requests
      /\ Expected.id = Line.id /\ 1 \in DOMAIN stdout /\ stdout[1] = Line
  BY <1>1, Arrived
<1>3. Line.gen \in Nat
  BY <1>1, ScanEnds
<1>4. /\ Fine(z, Tail(stdout)) /\ ~Asks(z, "hello") /\ z.scanRequest = None
      /\ ~Calls(z, "open") /\ z \in PanelRecord
      /\ z.ready /\ z.pendingScan # None => z.activation = None
  BY <1>1, OverFine
<1> HIDE DEF z
<1>5. Fine(LaunchPendingScan(q), Tail(stdout))
  <2>1. m \in Wanted /\ m.op = "activationAbort" /\ m.token = None
    <3>1. "activationAbort" \in Op /\ Line.gen \in MaybeGen /\ None \in MaybeGen
      BY <1>3 DEF Op, MaybeGen
    <3> QED
      BY <3>1, AboutWanted
  <2> HIDE DEF m
  <2>2. Sensible(z, m)
    <3>1. z.activation # None => z.activation.token # None
      BY <1>4, NoneIsNothing DEF PanelRecord, Activation
    <3> QED
      BY <2>1, <3>1 DEF Sensible
  <2>3. Fine(q, Tail(stdout)) /\ Grows(z, q, "activationAbort", Tail(stdout))
        /\ q.scanRequest = None
    BY <1>2, <1>4, <2>1, <2>2, SentFine
  <2> HIDE DEF q
  <2>4. ~Asks(q, "hello")
    BY <1>4, <2>3 DEF Asks, Grows
  <2>5. q.ready /\ q.pendingScan # None => q.activation = None
    BY <1>4, <2>3 DEF Grows, Steady
  <2> QED
    BY <2>3, <2>4, <2>5, LaunchPendingFine
<1>6. Fine(BeginActivation(y, Line.gen, Line.root), Tail(stdout))
  <2>1. /\ Fine(y, Tail(stdout)) /\ y \in PanelRecord /\ y.process = "up"
        /\ y.listed /\ y.treeRoot = panel.treeRoot
        /\ y.scanRequest = None /\ ~Asks(y, "hello") /\ ~Calls(y, "open")
        /\ y.ready => ~Calls(y, "launch")
    BY <1>1, OverFine
  <2> HIDE DEF y
  <2>2. Line.root = panel.treeRoot
    BY <1>1, <1>2 DEF Sound, SameRoot
  <2>3. Line.gen \in MaybeGen /\ Line.root \in MaybeRoot
    BY <1>2 DEF Said
  <2> QED
    BY <1>2, <2>1, <2>2, <2>3, BeginFine
<1> HIDE DEF y, q
<1> QED
  BY <1>1, <1>2, <1>5, <1>6, TurnsFine

LEMMA SnapshotAnswerKept ==
  ASSUME IInv, SnapshotAnswer
  PROVE  IInv'
<1> DEFINE p == Settled
<1>1. /\ Arrives /\ Expected.op = "snapshotOpen"
      /\ \/ /\ Line.type = "snapshotAvailable"
            /\ Turns(BeginActivation(p, Line.gen, Line.root))
         \/ Turns(RequestScan(p, FALSE))
  BY DEF SnapshotAnswer
<1>2. /\ Typed /\ stdout # <<>> /\ Reading(Tail(stdout)) /\ Line \in Said
      /\ Sound(panel, Piped(panel), stdout) /\ Control(panel, Piped(panel), stdout)
      /\ Expected \in panel.requests /\ Expected.id = Line.id
      /\ 1 \in DOMAIN stdout /\ stdout[1] = Line
      /\ panel.process = "up" /\ ~Calls(panel, "open")
  BY <1>1, Arrived
<1>3. /\ Fine(p, Tail(stdout)) /\ p \in PanelRecord
      /\ p.requests = panel.requests \ {Expected} /\ p.later = panel.later
      /\ p.listed = panel.listed /\ p.treeRoot = panel.treeRoot
      /\ p.process = panel.process /\ p.scanRequest = panel.scanRequest
      /\ p.activation = panel.activation /\ p.ready = panel.ready
      /\ p.pendingScan = panel.pendingScan
  BY <1>1, SettledFine
<1> HIDE DEF p
<1>4. Asks(panel, "snapshotOpen")
  BY <1>1, <1>2 DEF Asks
<1>5. ~Calls(p, "open") /\ ~Asks(p, "hello") /\ p.listed
  BY <1>1, <1>2, <1>3, <1>4 DEF Control, Booting, Unlisted, Asks, Calls
<1>6. ASSUME p.ready
      PROVE  /\ ~Asks(p, "snapshotOpen") /\ ~Calls(p, "launch")
             /\ p.pendingScan = None
             /\ p.scanRequest = None \/ p.activation = None
  <2>1. ~Calls(panel, "launch")
    BY <1>1, <1>2, <1>3, <1>6 DEF Control, Launching
  <2>2. panel.pendingScan = None
    BY <1>2, <1>3, <1>4, <1>6 DEF Control, NextScan
  <2>3. /\ ~Asks(p, "snapshotOpen")
        /\ p.scanRequest = None \/ p.activation = None
    BY <1>1, <1>2, <1>3, <1>4, <1>6 DEF Control, OneOpen, Asks
  <2> QED
    BY <1>3, <2>1, <2>2, <2>3 DEF Calls
<1>7. ASSUME Line.type = "snapshotAvailable"
      PROVE  Fine(BeginActivation(p, Line.gen, Line.root), Tail(stdout))
  <2>1. Line.root = p.treeRoot
    BY <1>2, <1>3, <1>7 DEF Sound, SameRoot
  <2>2. Line.gen \in MaybeGen /\ Line.root \in MaybeRoot
    BY <1>2 DEF Said
  <2>3. p.process = "up"
    BY <1>2, <1>3
  <2> QED
    BY <1>2, <1>3, <1>5, <1>6, <2>1, <2>2, <2>3, BeginFine
<1>8. Fine(RequestScan(p, FALSE), Tail(stdout))
  <2>1. p.process = "up" /\ FALSE \in BOOLEAN
    BY <1>2, <1>3
  <2> QED
    BY <1>2, <1>3, <1>5, <1>6, <2>1, ScanFine
<1> QED
  BY <1>1, <1>2, <1>7, <1>8, TurnsFine

\* The panel learns the generation g of the scan that request r asked for.
LEMMA NamedWire ==
  ASSUME NEW R \in SUBSET Request, NEW in, NEW out \in Seq(Said),
         Wire(R, in, out), NEW r \in R, r.op = "scanStart", NEW i \in DOMAIN out,
         out[i].id = r.id, out[i].type = "scanStarted",
         NEW q \in Request, q.id = r.id, q.op = r.op, q.gen = out[i].gen
  PROVE  Wire((R \ {r}) \cup {q}, in, out)
<1> DEFINE S == (R \ {r}) \cup {q}
<1>1. \A s \in S : s = q \/ (s \in R /\ s.id # r.id)
  BY DEF Wire, Apart
<1>2. q \in S /\ R \ {r} \subseteq S
  OBVIOUS
<1> HIDE DEF S
<1>3. Apart(S, in, out)
  BY <1>1 DEF Wire, Apart
<1>4. Matched(S, in, out)
  <2>1. \A j \in DOMAIN in : in[j].id # q.id
    BY DEF Wire, Apart
  <2>2. Matched(R, in, out)
    BY DEF Wire
  <2>3. \A j \in DOMAIN queries : queries[j].id # q.id
    BY <2>2 DEF Matched
  <2>4. \A j \in DOMAIN out : out[j].id = q.id =>
          /\ q.op \in AnsweredBy(out[j].type)
          /\ out[j].type \notin {"queryResult", "activationCommitted"}
    BY <2>2, AnswerTypes DEF Matched
  <2>5. \A s \in S : s = q \/ s \in R
    BY <1>1
  <2> QED
    BY <2>1, <2>2, <2>3, <2>4, <2>5 DEF Matched
<1>5. /\ Runs(r.id) => staging.gen = q.gen
      /\ \A o \in outcomes : o.id = r.id => o.gen = q.gen
      /\ \A j \in DOMAIN out : out[j].id = r.id /\ out[j].type \in Over =>
           out[j].gen = q.gen
  BY DEF Wire, Started
<1>6. Ended(S, out)
  <2>1. \A g, n : Told(q, q.gen, n, out)
    BY DEF Told
  <2>2. Ended(R, out)
    BY DEF Wire
  <2> QED
    BY <1>1, <1>5, <2>1, <2>2 DEF Ended
<1>7. RefusedAlone(S, out)
  <2>1. RefusedAlone(R, out)
    BY DEF Wire
  <2>2. \A j \in DOMAIN out : out[j].id = r.id => out[j].type # "error"
    BY <2>1 DEF RefusedAlone
  <2> QED
    BY <1>1, <2>1, <2>2 DEF RefusedAlone
<1>8. Started(S, out)
  <2>1. Started(R, out)
    BY DEF Wire
  <2> QED
    BY <1>1, <2>1 DEF Started
<1> QED
  BY <1>3, <1>4, <1>6, <1>7, <1>8 DEF Wire, S

\* A call is put off that only concerns the scan in progress.
LEMMA LaterFine ==
  ASSUME NEW p, NEW out, Fine(p, out), ~Asks(p, "hello"), NEW call \in Call,
         call.call = "cancel"
  PROVE  Fine(Later(p, call), out)
<1>1. p \in PanelRecord /\ Recorded(p) /\ Control(p, Piped(p), out)
      /\ p.later \in Seq(Call)
  BY DEF Fine, Sound, Recorded, PanelRecord
<1> DEFINE later == Append(p.later, call)
           z == [p EXCEPT !.later = later]
<1>2. Later(p, call) = z
  BY DEF Later
<1>3. /\ later \in Seq(Call)
      /\ \A i \in DOMAIN later :
           later[i] = IF i = Len(p.later) + 1 THEN call ELSE p.later[i]
      /\ \A i \in DOMAIN later : i = Len(p.later) + 1 \/ i \in DOMAIN p.later
  BY <1>1, Appended
<1>4. \A i \in DOMAIN later : later[i].call \in {"open", "launch"} =>
        i \in DOMAIN p.later /\ later[i] = p.later[i]
  BY <1>3
<1> HIDE DEF later
<1>5. /\ z \in PanelRecord /\ z.requests = p.requests /\ z.sent = p.sent
      /\ z.listed = p.listed /\ z.preferred = p.preferred
      /\ z.treeRoot = p.treeRoot /\ z.process = p.process
      /\ z.later = later /\ z.ready = p.ready /\ z.view = p.view
      /\ z.pendingScan = p.pendingScan /\ z.scanRequest = p.scanRequest
      /\ z.activation = p.activation
  BY <1>1, <1>3 DEF PanelRecord
<1> HIDE DEF z
<1>6. Piped(z) = Piped(p)
  BY <1>5 DEF Piped
<1>7. Sound(z, Piped(z), out)
  BY <1>5, <1>6 DEF Fine, Sound, Recorded
<1>8. /\ \A op : Asks(z, op) <=> Asks(p, op)
      /\ Calls(z, "launch") => Calls(p, "launch")
  BY <1>4, <1>5 DEF Asks, Calls
<1>9. Offline(z, Piped(z), out) /\ Booting(z) /\ Unlisted(z) /\ Chosen(z)
  BY <1>1, <1>5, <1>6, <1>8 DEF Control, Offline, Booting, Unlisted, Chosen
<1>10. Aimed(z) /\ Opening(z)
  BY <1>1, <1>4, <1>5 DEF Control, Aimed, Opening
<1>11. Launching(z, out) /\ NextScan(z) /\ OneOpen(z)
  BY <1>1, <1>4, <1>5, <1>8 DEF Control, Launching, NextScan, OneOpen
<1> QED
  BY <1>2, <1>7, <1>9, <1>10, <1>11 DEF Fine, Control

LEMMA ScanStartedKept ==
  ASSUME IInv, ScanStarted
  PROVE  IInv'
<1> DEFINE R == panel.requests
           r == Expected
           q == [r EXCEPT !.gen = Line.gen]
           S == (R \ {r}) \cup {q}
           all == {IF x.id = Line.id THEN [x EXCEPT !.gen = Line.gen] ELSE x : x \in R}
           p == [panel EXCEPT !.requests = all, !.staging = Line.gen]
           in == Piped(panel)
           call == [call |-> "cancel", current |-> TRUE]
<1>1. /\ Arrives /\ r.op = "scanStart" /\ Line.type = "scanStarted"
      /\ Turns(IF p.pendingScan = None THEN p ELSE Later(p, call))
  BY DEF ScanStarted
<1>2. /\ Typed /\ stdout # <<>> /\ Reading(Tail(stdout)) /\ Line \in Said
      /\ Fine(panel, stdout) /\ Sound(panel, in, stdout) /\ Control(panel, in, stdout)
      /\ r \in R /\ r.id = Line.id /\ panel \in PanelRecord
      /\ 1 \in DOMAIN stdout /\ stdout[1] = Line
      /\ panel.process = "up" /\ ~Calls(panel, "open")
      /\ \A x \in R : x.id = Line.id => x = r
  BY <1>1, Arrived
<1>3. stdout \in Seq(Said) /\ R \in SUBSET Request /\ IsFiniteSet(R) /\ r \in Request
  BY <1>2 DEF Typed, PanelRecord
<1>4. Line.gen \in Nat
  <2>1. ScansNamed(stdout)
    BY <1>2 DEF Sound, Wire
  <2> QED
    BY <1>1, <1>2, <2>1 DEF ScansNamed
<1>5. q \in Request /\ q.id = r.id /\ q.op = r.op /\ q.gen = Line.gen
      /\ q.token = r.token
  BY <1>3, <1>4 DEF Request, MaybeGen
<1>6. all = S
  <2>1. \A x \in R : (IF x.id = Line.id THEN [x EXCEPT !.gen = Line.gen] ELSE x)
                       = IF x = r THEN q ELSE x
    BY <1>2
  <2>2. ASSUME NEW e \in all PROVE e \in S
    BY <2>1
  <2>3. \A x \in R : (IF x = r THEN q ELSE x) \in all
    BY <2>1
  <2>4. ASSUME NEW e \in S PROVE e \in all
    <3>1. CASE e = q
      BY <1>2, <2>3, <3>1
    <3>2. CASE e \in R \ {r}
      BY <2>3, <3>2
    <3> QED
      BY <3>1, <3>2
  <2> QED
    BY <2>2, <2>4
<1>7. p = [panel EXCEPT !.requests = S, !.staging = Line.gen]
  BY <1>6
<1> HIDE DEF all, p, in, q
<1>8. S \in SUBSET Request /\ IsFiniteSet(S)
  <2>1. IsFiniteSet(R \ {r})
    BY <1>3, FS_Subset
  <2>2. IsFiniteSet(S)
    BY <2>1, FS_AddElement
  <2> QED
    BY <1>3, <1>5, <2>2
<1>9. \A x \in S : x = q \/ (x \in R /\ x # r /\ x.id # r.id)
  BY <1>2
<1>10. q \in S
  OBVIOUS
<1>11. Wire(S, in, stdout)
  <2>1. Wire(R, in, stdout)
    BY <1>2 DEF Sound
  <2>2. stdout[1].id = r.id /\ stdout[1].type = "scanStarted" /\ q.gen = stdout[1].gen
    BY <1>1, <1>2, <1>5
  <2> HIDE DEF R, r, S
  <2> QED
    BY <1>1, <1>2, <1>3, <1>5, <2>1, <2>2, NamedWire DEF S
<1> HIDE DEF S
<1>12. /\ p \in PanelRecord /\ p.requests = S /\ p.sent = panel.sent
       /\ p.listed = panel.listed /\ p.preferred = panel.preferred
       /\ p.treeRoot = panel.treeRoot /\ p.process = panel.process
       /\ p.later = panel.later /\ p.ready = panel.ready /\ p.view = panel.view
       /\ p.pendingScan = panel.pendingScan /\ p.scanRequest = panel.scanRequest
       /\ p.activation = panel.activation
  BY <1>2, <1>4, <1>7, <1>8 DEF PanelRecord, MaybeGen
<1>13. Piped(p) = in
  BY <1>12 DEF Piped, in
<1>14. \A x \in S : \E y \in R : y.id = x.id /\ y.op = x.op /\ y.token = x.token
                                 /\ (x = q \/ x = y)
  BY <1>2, <1>5, <1>9
<1>15. Awaits(q, in, stdout)
  BY <1>2, <1>5 DEF Awaits
<1>16. Sound(p, in, stdout)
  <2>1. NoneForgotten(S, in, stdout, panel.activation)
    BY <1>2, <1>9, <1>15 DEF Sound, NoneForgotten
  <2>2. OneScan(S, in, stdout, panel.scanRequest)
    <3>1. OneScan(R, in, stdout, panel.scanRequest)
      BY <1>2 DEF Sound
    <3>2. Awaits(r, in, stdout)
      BY <1>2 DEF Awaits
    <3> QED
      BY <1>1, <1>2, <1>5, <1>9, <3>1, <3>2 DEF OneScan
  <2>3. SameRoot(S, in, stdout, panel.treeRoot)
    BY <1>2, <1>5, <1>9 DEF Sound, SameRoot
  <2>4. RowsNamed(S, panel.view, panel.activation)
    <3>1. RowsNamed(R, panel.view, panel.activation)
      BY <1>2 DEF Sound
    <3>2. q.op = "scanStart" /\ q.token = None
      BY <1>1, <1>2, <1>5, <3>1 DEF RowsNamed
    <3>3. panel.activation # None => panel.activation.token # None
      BY <1>2, NoneIsNothing DEF PanelRecord, Activation
    <3> QED
      BY <1>9, <3>1, <3>2, <3>3 DEF RowsNamed, Navigates
  <2> QED
    BY <1>8, <1>11, <1>12, <2>1, <2>2, <2>3, <2>4 DEF Sound, Recorded
<1>17. \A op : Asks(p, op) => Asks(panel, op)
  BY <1>12, <1>14 DEF Asks
<1>18. ~Asks(panel, "hello")
  BY <1>1, <1>2 DEF Control, Booting, Asks
<1>19. Control(p, in, stdout)
  <2>1. Offline(p, in, stdout) /\ Booting(p) /\ Unlisted(p) /\ Chosen(p)
    BY <1>2, <1>12, <1>17, <1>18
       DEF Control, Offline, Booting, Unlisted, Chosen, Calls
  <2>2. Aimed(p) /\ Opening(p)
    BY <1>2, <1>12 DEF Control, Aimed, Opening, Calls
  <2>3. \A x \in S : x.op = "snapshotOpen" => x \in R
    BY <1>1, <1>5, <1>9
  <2>4. Launching(p, stdout)
    BY <1>2, <1>12, <1>17, <2>3 DEF Control, Launching, Calls
  <2>5. NextScan(p) /\ OneOpen(p)
    BY <1>2, <1>12, <1>17, <2>3 DEF Control, NextScan, OneOpen
  <2> QED
    BY <2>1, <2>2, <2>4, <2>5 DEF Control
<1>20. Fine(p, stdout)
  BY <1>13, <1>16, <1>19 DEF Fine
<1>21. Awaits(q, in, Tail(stdout))
  <2>1. \/ Runs(q.id)
        \/ \E o \in outcomes : o.id = q.id
        \/ \E j \in DOMAIN stdout : j > 1 /\ stdout[j].id = q.id
    BY <1>1, <1>2, <1>5, <1>10, <1>11 DEF Wire, Started
  <2>2. ASSUME NEW j \in DOMAIN stdout, j > 1, stdout[j].id = q.id
        PROVE  \E k \in DOMAIN Tail(stdout) : Tail(stdout)[k].id = q.id
    <3>1. j - 1 \in DOMAIN Tail(stdout) /\ Tail(stdout)[j - 1] = stdout[j]
      BY <1>2, <1>3, <2>2, Shortened
    <3> QED
      BY <2>2, <3>1
  <2> QED
    BY <2>1, <2>2 DEF Awaits
<1>22. Fine(p, Tail(stdout))
  <2>1. \A x \in p.requests : x.id = Line.id => x = q
    BY <1>2, <1>9, <1>12
  <2>2. \A x \in p.requests : x.id = Line.id =>
          /\ Line.type = "scanStarted" => x.gen = Line.gen
          /\ \/ Awaits(x, Piped(p), Tail(stdout))
             \/ Passed(x, p.activation) \/ RefusedScan(x)
    BY <1>5, <1>13, <1>21, <2>1
  <2> QED
    BY <1>2, <1>20, <2>2, TailFine
<1>23. Fine(Later(p, call), Tail(stdout))
  <2>1. call \in Call /\ call.call = "cancel"
    BY DEF Call
  <2> HIDE DEF call
  <2> QED
    BY <1>17, <1>18, <1>22, <2>1, LaterFine
<1> QED
  BY <1>1, <1>2, <1>22, <1>23, TurnsFine

LEMMA HelloReadyKept ==
  ASSUME IInv, HelloReady
  PROVE  IInv'
<1> DEFINE s == Settled
           call == [call |-> "open", current |-> TRUE, root |-> panel.pendingOpen]
           opening == IF panel.pendingOpen = None THEN s ELSE Later(s, call)
           y == [opening EXCEPT !.ready = TRUE, !.pendingOpen = None]
           launch == Launch(s.pendingScan)
           L1 == IF panel.pendingOpen = None THEN <<>> ELSE Append(<<>>, call)
           L2 == IF s.pendingScan = None THEN L1 ELSE Append(L1, launch)
           z == LaunchPendingScan(y)
<1>1. /\ Arrives /\ Expected.op = "hello" /\ Turns(z)
  BY DEF HelloReady
<1>2. /\ Typed /\ stdout # <<>> /\ Reading(Tail(stdout)) /\ panel \in PanelRecord
      /\ Control(panel, Piped(panel), stdout) /\ Expected \in panel.requests
      /\ panel.process = "up"
  BY <1>1, Arrived
<1>3. /\ \A r, x \in panel.requests : r = x
      /\ ~panel.ready /\ panel.later = <<>> /\ panel.activation = None
      /\ panel.scanRequest = None
  BY <1>1, <1>2 DEF Control, Booting, Asks
<1>4. /\ Fine(s, Tail(stdout)) /\ s \in PanelRecord /\ s.requests = {}
      /\ s.later = <<>> /\ s.process = "up" /\ s.scanRequest = None
      /\ s.activation = None /\ s.pendingScan = panel.pendingScan
  BY <1>1, <1>2, <1>3, SettledFine
<1>5. Control(s, Piped(s), Tail(stdout)) /\ Sound(s, Piped(s), Tail(stdout))
  BY <1>4 DEF Fine
<1>6. panel.pendingOpen \in MaybeRoot
  BY <1>2 DEF PanelRecord
<1> HIDE DEF s
<1>7. panel.pendingOpen # None => call \in Call /\ call.call = "open"
  BY <1>6 DEF Call, MaybeRoot
<1>8. s.pendingScan # None => launch \in Call /\ launch.call = "launch"
        /\ launch.root = s.treeRoot
  BY <1>4, <1>5 DEF Launch, PutOff, PanelRecord, Control, Aimed, Call
<1>9. opening = [s EXCEPT !.later = L1]
  BY <1>4 DEF Later, PanelRecord
<1> HIDE DEF call, launch
<1>10. L1 \in Seq(Call) /\ L2 \in Seq(Call)
  BY <1>7, <1>8
<1>11. /\ \A i \in DOMAIN L1 : i = 1 /\ L1[i] = call /\ panel.pendingOpen # None
       /\ Len(L1) \in {0, 1}
  BY <1>7
<1>12. \A i \in DOMAIN L2 :
         \/ i = 1 /\ L2[i] = call /\ panel.pendingOpen # None
         \/ i = Len(L1) + 1 /\ L2[i] = launch /\ s.pendingScan # None
  <2>1. CASE s.pendingScan = None
    BY <1>11, <2>1
  <2>2. CASE s.pendingScan # None
    <3>1. /\ \A i \in DOMAIN L2 : L2[i] = IF i = Len(L1) + 1 THEN launch ELSE L1[i]
          /\ \A i \in DOMAIN L2 : i = Len(L1) + 1 \/ i \in DOMAIN L1
      <4> HIDE DEF L1
      <4> QED
        BY <1>8, <1>10, <2>2, Appended
    <3> QED
      BY <1>11, <2>2, <3>1
  <2> QED
    BY <2>1, <2>2
<1> HIDE DEF L1
<1> HIDE DEF L2
<1>13. /\ y \in PanelRecord /\ y.later = L1 /\ y.pendingScan = s.pendingScan
       /\ y.requests = {} /\ y.sent = s.sent /\ y.listed = s.listed
       /\ y.preferred = s.preferred /\ y.treeRoot = s.treeRoot
       /\ y.process = "up" /\ y.ready = TRUE /\ y.view = s.view
       /\ y.scanRequest = None /\ y.activation = None
  <2> HIDE DEF opening
  <2>1. /\ opening \in PanelRecord /\ opening.later = L1
        /\ opening.pendingScan = s.pendingScan
        /\ opening.requests = {} /\ opening.sent = s.sent /\ opening.listed = s.listed
        /\ opening.preferred = s.preferred /\ opening.treeRoot = s.treeRoot
        /\ opening.process = "up" /\ opening.view = s.view
        /\ opening.scanRequest = None /\ opening.activation = None
    BY <1>4, <1>9, <1>10 DEF PanelRecord
  <2>2. None \in MaybeRoot
    BY DEF MaybeRoot
  <2> QED
    BY <2>1, <2>2 DEF PanelRecord
<1> HIDE DEF opening
<1>14. z = [y EXCEPT !.pendingScan = None, !.later = L2]
  <2>1. CASE s.pendingScan = None
    <3>1. z = [y EXCEPT !.pendingScan = None] /\ L2 = L1
      BY <1>13, <2>1 DEF LaunchPendingScan, L2
    <3> HIDE DEF y, z
    <3> QED
      BY <1>13, <3>1 DEF PanelRecord
  <2>2. CASE s.pendingScan # None
    <3>1. L2 = Append(L1, launch)
      BY <2>2 DEF L2
    <3> HIDE DEF y
    <3> QED
      BY <1>13, <2>2, <3>1 DEF LaunchPendingScan, Later, launch, PanelRecord
  <2> QED
    BY <2>1, <2>2
<1> HIDE DEF y, z
<1>16. /\ z \in PanelRecord /\ z.requests = {} /\ z.sent = s.sent
       /\ z.listed = s.listed /\ z.preferred = s.preferred
       /\ z.treeRoot = s.treeRoot /\ z.process = "up" /\ z.later = L2
       /\ z.ready = TRUE /\ z.view = s.view /\ z.pendingScan = None
       /\ z.scanRequest = None /\ z.activation = None
  BY <1>10, <1>13, <1>14 DEF PanelRecord
<1>17. Piped(z) = Piped(s)
  BY <1>16 DEF Piped
<1>18. Sound(z, Piped(z), Tail(stdout))
  BY <1>4, <1>5, <1>16, <1>17 DEF Sound, Recorded
<1>19. \A op : ~Asks(z, op)
  BY <1>16 DEF Asks
<1>20. /\ \A i \in DOMAIN L2 : L2[i].call = "open" => i = 1
       /\ \A i, j \in DOMAIN L2 : L2[i].call = "launch" /\ L2[j].call = "launch" => i = j
       /\ \A i \in DOMAIN L2 : L2[i].call = "launch" =>
            L2[i].root = s.treeRoot /\ s.pendingScan # None
  BY <1>7, <1>8, <1>12
<1>21. Offline(z, Piped(z), Tail(stdout)) /\ Booting(z) /\ Chosen(z)
  BY <1>5, <1>16, <1>19 DEF Control, Offline, Booting, Chosen
<1>22. Unlisted(z)
  BY <1>5, <1>16, <1>19, <1>20 DEF Control, Unlisted, Calls
<1>23. Aimed(z) /\ Opening(z)
  BY <1>16, <1>20 DEF Aimed, Opening
<1>24. Launching(z, Tail(stdout)) /\ NextScan(z) /\ OneOpen(z)
  BY <1>16, <1>19, <1>20 DEF Launching, NextScan, OneOpen
<1>25. Fine(z, Tail(stdout))
  BY <1>18, <1>21, <1>22, <1>23, <1>24 DEF Fine, Control
<1> QED
  BY <1>1, <1>2, <1>25, TurnsFine

-----------------------------------------------------------------------------
(* The invariant of every run, for a user who waits for answers.           *)

LEMMA PanelInit == Init => IInv
<1> SUFFICES ASSUME Init PROVE IInv
  OBVIOUS
<1>1. /\ serving = FALSE /\ stored = Archive /\ active = None /\ previous = None
      /\ staging = None /\ outcomes = {} /\ queries = <<>>
      /\ stdin = <<>> /\ stdout = <<>>
  BY DEF Init, ServiceInit
<1>2. /\ panel \in PanelRecord /\ panel.sent = <<>> /\ panel.requests = {}
      /\ panel.process = "off" /\ panel.ready = FALSE /\ panel.later = <<>>
      /\ panel.activation = None /\ panel.scanRequest = None
      /\ panel.pendingScan = None /\ panel.treeRoot = None /\ panel.listed = FALSE
  <2>1. /\ None \in MaybeRoot /\ None \in MaybeGen /\ {} \in SUBSET Request
        /\ <<>> \in Seq(Asked) /\ <<>> \in Seq(Call)
    BY DEF MaybeRoot, MaybeGen
  <2> QED
    BY <2>1 DEF Init, PanelRecord
<1>3. Typed
  <2>1. /\ IsFiniteSet({}) /\ <<>> \in Seq(Asked) /\ <<>> \in Seq(Said)
        /\ <<>> \in Seq(Queued)
    BY FS_EmptySet
  <2>2. stored \subseteq MaybeRoot
    BY <1>1, ArchiveOfRoots DEF MaybeRoot
  <2> QED
    BY <1>1, <1>2, <2>1, <2>2 DEF Typed, ServiceTyped
<1>4. DOMAIN stdin = {} /\ DOMAIN stdout = {} /\ DOMAIN queries = {}
      /\ DOMAIN panel.later = {}
  BY <1>1, <1>2
<1>5. Sound(panel, stdin, stdout)
  <2>1. Wire(panel.requests, stdin, stdout)
    BY <1>1, <1>2, <1>4
       DEF Wire, Apart, Matched, ScansNamed, Ended, RefusedAlone, Started, Runs
  <2>2. /\ NoneForgotten(panel.requests, stdin, stdout, panel.activation)
        /\ OneScan(panel.requests, stdin, stdout, panel.scanRequest)
        /\ SameRoot(panel.requests, stdin, stdout, panel.treeRoot)
        /\ RowsNamed(panel.requests, panel.view, panel.activation)
    BY <1>2 DEF NoneForgotten, OneScan, SameRoot, RowsNamed
  <2> QED
    BY <1>2, <1>3, <2>1, <2>2 DEF Sound, Recorded, Typed
<1>6. Control(panel, stdin, stdout)
  <2>1. Offline(panel, stdin, stdout) /\ Booting(panel) /\ Unlisted(panel)
        /\ Chosen(panel)
    BY <1>1, <1>2, <1>4 DEF Offline, Booting, Unlisted, Chosen, Asks, Calls
  <2>2. Aimed(panel) /\ Opening(panel) /\ Launching(panel, stdout)
        /\ NextScan(panel) /\ OneOpen(panel)
    BY <1>2, <1>4 DEF Aimed, Opening, Launching, NextScan, OneOpen
  <2> QED
    BY <2>1, <2>2 DEF Control
<1> QED
  BY <1>3, <1>5, <1>6 DEF IInv

LEMMA PanelNext ==
  ASSUME Hurry \subseteq {"browse"}, IInv, [Next]_vars
  PROVE  IInv'
<1>1. CASE TakesLine
  BY <1>1, UnexpectedKept, HelloReadyKept, SnapshotAnswerKept, ScanStartedKept,
     ScanLineDroppedKept, ScanNotDoneKept, SnapshotActivatedKept, RowsArriveKept,
     FirstRowsKept, ActivationCommittedKept, AcknowledgedKept, RequestRefusedKept
     DEF TakesLine
<1>2. CASE CallsLater
  BY <1>2, CallsLaterKept
<1>3. CASE Quiet /\ Event
  <2>1. CASE UserActs
    BY <1>3, <2>1, UserOpensKept, UserClosesKept, UserSelectsKept,
       UserRescansKept, UserRefreshesKept, UserBrowsesKept DEF UserActs
  <2>2. CASE Listed
    BY <1>3, <2>2, ListedKept
  <2>3. CASE DeadlinePasses
    BY <1>3, <2>3, DeadlineKept
  <2>4. CASE BrokerStarted
    BY <1>3, <2>4, BrokerStartedKept
  <2>5. CASE BrokerExits
    BY <1>3, <2>5, BrokerExitsKept
  <2>6. CASE BrokerActs
    BY <1>3, <2>6, BrokerActsKept
  <2> QED
    BY <1>3, <2>1, <2>2, <2>3, <2>4, <2>5, <2>6 DEF Event
<1>4. CASE UNCHANGED vars
  <2>1. Typed /\ Fine(panel, stdout)
    BY NothingSent DEF IInv
  <2>2. stdin \in Seq(Asked) /\ panel \in PanelRecord /\ panel.sent = <<>>
    BY <2>1 DEF Typed
  <2>3. stdin \o panel.sent = stdin
    BY <2>2
  <2>4. [panel EXCEPT !.sent = <<>>] = panel
    BY <2>2 DEF PanelRecord
  <2>5. Becomes(panel)
    BY <1>4, <2>3, <2>4 DEF vars, Becomes
  <2> QED
    BY <2>1, <2>5, BecomesFine
<1> QED
  BY <1>1, <1>2, <1>3, <1>4 DEF Next

\* The inductive invariant: what is on the pipes fits the requests the panel
\* waits for, and the panel has put off, opened and launched no more than it
\* can.  With a user who does not hurry, whatever the faults and limits.
THEOREM PanelInductive ==
  ASSUME Hurry \subseteq {"browse"} PROVE Spec => []IInv
<1>1. Init => IInv
  BY PanelInit
<1>2. IInv /\ [Next]_vars => IInv'
  BY PanelNext
<1> QED
  BY <1>1, <1>2, PTL DEF Spec

\* Every request the panel waits for is before the broker or answered, but
\* for those it has itself left behind: a deadline that stops the broker is
\* that of a broker that does not answer.
THEOREM StarvationCorrect ==
  ASSUME Hurry \subseteq {"browse"} PROVE Spec => []NothingElseStarves
<1>1. IInv => NothingElseStarves
  <2> SUFFICES ASSUME IInv, Alive, NEW r \in panel.requests
      PROVE  Answerable(r) \/ Overtaken(r) \/ RefusedScan(r)
    BY DEF NothingElseStarves
  <2>1. Awaits(r, stdin, stdout) \/ Passed(r, panel.activation) \/ RefusedScan(r)
    BY DEF IInv, Sound, NoneForgotten, Alive
  <2>2. ASSUME Awaits(r, stdin, stdout) PROVE Answerable(r)
    <3> DEFINE Places == Range(stdin) \cup Range(stdout) \cup Range(queries) \cup outcomes
    <3>1. /\ \A i \in DOMAIN stdin : stdin[i] \in Places
          /\ \A i \in DOMAIN stdout : stdout[i] \in Places
          /\ \A i \in DOMAIN queries : queries[i] \in Places
          /\ \A o \in outcomes : o \in Places
      BY DEF Range
    <3> HIDE DEF Places
    <3>2. \A x \in Places : x.id \in IdsIn(Places)
      BY DEF IdsIn
    <3>3. r.id \in IdsIn(Places) \/ Runs(r.id)
      BY <2>2, <3>1, <3>2 DEF Awaits
    <3> QED
      BY <3>3 DEF Answerable, Runs, Places
  <2>3. Passed(r, panel.activation) => Overtaken(r)
    BY DEF Passed, Overtaken
  <2> QED
    BY <2>1, <2>2, <2>3
<1>2. Spec => []IInv
  BY PanelInductive
<1> QED
  BY <1>1, <1>2, PTL

=============================================================================
