---------------------------- MODULE ScannerProofs ----------------------------
(***************************************************************************)
(* Proofs about a walk, for every file system, every limit and every       *)
(* choice of the faults. What consumes the records builds on them.         *)
(***************************************************************************)
EXTENDS Scanner, TLAPS

-----------------------------------------------------------------------------
(* The inductive invariant of the walk. A stack is a path of the tree that *)
(* starts at the root, so no directory is on it twice, and it has as many  *)
(* frames at most as directories are discovered and not finished.          *)

Depths == 1..Len(stack)

Fresh ==
  pc = "start" =>
    /\ stack = <<>> /\ emitted = None
    /\ discovered = 1 /\ finished = 0 /\ entries = 0
Bounded ==
  /\ pc = "walk" => stack # <<>>
  /\ finished + Len(stack) <= discovered
Chain(s, count) ==
  /\ s # <<>> => s[1].path = Root
  /\ \A i \in 1..Len(s) : i > 1 =>
       /\ s[i].path \in Node /\ fs.kind[s[i].path] = "directory"
       /\ fs.parent[s[i].path] = s[i - 1].path
  /\ \A i \in 1..Len(s) :
       s[i].left \subseteq Entries(s[i].path) /\ s[i].warningStart <= count
  /\ \A i, j \in 1..Len(s) : s[i].path = s[j].path => i = j

WalkInv == TypeOK /\ Fresh /\ Bounded /\ Chain(stack, warnings)

-----------------------------------------------------------------------------
(* The operators of the walk.                                              *)

\* A file system's parts.
LEMMA TreeTyped ==
  ASSUME TypeOK
  PROVE  /\ \A n \in Node : fs.parent[n] \in Path
         /\ \A n \in Path : fs.size[n] \in Nat
         /\ \A n \in Node : fs.inode[n] \in Node
         /\ \A n \in Node : fs.kind[n] \in {"directory", "file", "other"}
         /\ fs.linked \subseteq Node
BY TreesAssumption DEF TypeOK, FileSystem

\* What an entry adds to the sizes is a number.
LEMMA CountedTyped ==
  ASSUME TypeOK, NEW n \in Path
  PROVE  Counted(n) \in Nat
BY TreeTyped DEF Counted

\* A directory has a parent, other than None, unless it is the root.
LEMMA ParentTyped ==
  ASSUME TypeOK, NEW n \in Path
  PROVE  /\ Parent(n) \in Path \cup {None}
         /\ Parent(n) = None <=> n = Root
         /\ n # Root => Parent(n) = fs.parent[n]
BY TreeTyped, PathAssumption DEF Parent, Path

\* The frame of a directory that is entered.
LEMMA OpenTyped ==
  ASSUME TypeOK, NEW n \in Path, NEW failures \in Failures
  PROVE  /\ Open(n, failures) \in Frame
         /\ Open(n, failures).path = n
         /\ Open(n, failures).left \subseteq Entries(n)
         /\ Open(n, failures).warningStart <= warnings + failures
         /\ Open(n, failures).children = 0 /\ Open(n, failures).files = 0
         /\ Open(n, failures).bytes = Counted(n) /\ Open(n, failures).direct = 0
         /\ failures \in Nat
<1>1. failures \in Nat /\ warnings \in Nat /\ Counted(n) \in Nat
  BY CountedTyped DEF Failures, TypeOK
<1>2. Entries(n) \subseteq Node
  BY DEF Entries
<1> QED
  BY <1>1, <1>2 DEF Open, Frame, WarningStart

\* The frame after an entry of it is measured.
LEMMA TakenTyped ==
  ASSUME NEW frame \in Frame, NEW left, left \subseteq frame.left,
         NEW n, Counted(n) \in Nat
  PROVE  LET next == Taken(frame, left, n) IN
         /\ next \in Frame /\ next.path = frame.path /\ next.left = left
         /\ next.warningStart = frame.warningStart
         /\ next.children = frame.children
         /\ next.files = IF Reported(n) THEN frame.files + 1 ELSE frame.files
         /\ next.bytes = frame.bytes + Counted(n)
         /\ next.direct = frame.direct + Counted(n)
<1> DEFINE more == IF Reported(n) THEN frame.files + 1 ELSE frame.files
           size == Counted(n)
           total == frame.bytes + size
           direct == frame.direct + size
<1>1. Taken(frame, left, n) = [frame EXCEPT !.left = left, !.bytes = total,
                                            !.direct = direct, !.files = more]
  BY DEF Taken, Frame
<1>2. left \in SUBSET Node /\ total \in Nat /\ direct \in Nat /\ more \in Nat
  BY DEF Frame
<1> HIDE DEF more, total, direct, size
<1>3. LET next == [frame EXCEPT !.left = left, !.bytes = total,
                                !.direct = direct, !.files = more]
      IN /\ next \in Frame /\ next.path = frame.path /\ next.left = left
         /\ next.warningStart = frame.warningStart
         /\ next.children = frame.children /\ next.files = more
         /\ next.bytes = total /\ next.direct = direct
  BY <1>2 DEF Frame
<1> QED
  BY <1>1, <1>2, <1>3 DEF more, total, direct, size

\* What is accounted keeps its type.
LEMMA AccountTyped ==
  ASSUME TypeOK, NEW n \in Path, entries < MaxEntries, Account(n)
  PROVE  seen' \subseteq Node /\ entries' \in 0..MaxEntries /\ bytes' \in Nat
<1>1. Counted(n) \in Nat
  BY CountedTyped
<1>2. seen' \subseteq Node
  BY TreeTyped DEF Account, Linked, TypeOK, Path
<1> QED
  BY <1>1, <1>2, LimitAssumption DEF Account, TypeOK

-----------------------------------------------------------------------------
(* The stack.                                                              *)

\* The deepest frame.
LEMMA TopTyped ==
  ASSUME WalkInv, stack # <<>>
  PROVE  /\ Len(stack) \in Depths /\ Top \in Frame
         /\ Top.left \subseteq Node /\ Top.path \in Path
         /\ Top.left \subseteq Entries(Top.path)
<1>1. stack \in Seq(Frame)
  BY DEF WalkInv, TypeOK
<1>2. Len(stack) \in Depths
  BY <1>1 DEF Depths
<1>3. Top \in Frame
  BY <1>1, <1>2 DEF Top, Depths
<1>4. Top.left \subseteq Entries(Top.path)
  BY <1>2 DEF WalkInv, Chain, Top, Depths
<1> QED
  BY <1>2, <1>3, <1>4 DEF Frame

\* The deepest frame may change all but its path, and take no entries back.
LEMMA TopReplaced ==
  ASSUME NEW s \in Seq(Frame), s # <<>>, NEW count \in Nat, Chain(s, count),
         NEW frame \in Frame, frame.path = s[Len(s)].path,
         frame.left \subseteq s[Len(s)].left,
         frame.warningStart = s[Len(s)].warningStart
  PROVE  LET t == [s EXCEPT ![Len(s)] = frame] IN
         /\ t \in Seq(Frame) /\ t # <<>> /\ Len(t) = Len(s) /\ Chain(t, count)
         /\ \A i \in 1..Len(s) : t[i].path = s[i].path
         /\ \A i \in 1..Len(s) : i # Len(s) => t[i] = s[i]
         /\ t[Len(s)] = frame
<1> DEFINE t == [s EXCEPT ![Len(s)] = frame]
<1>1. Len(s) \in 1..Len(s)
  OBVIOUS
<1>2. t \in Seq(Frame) /\ Len(t) = Len(s) /\ t # <<>>
  BY <1>1
<1>3. /\ \A i \in 1..Len(s) : i # Len(s) => t[i] = s[i]
      /\ t[Len(s)] = frame
  BY <1>1
<1>4. \A i \in 1..Len(s) :
        t[i].path = s[i].path /\ t[i].left \subseteq s[i].left
        /\ t[i].warningStart = s[i].warningStart
  BY <1>3
<1> HIDE DEF t
<1>5. 1 \in 1..Len(s) /\ \A i \in 1..Len(s) : i > 1 => i - 1 \in 1..Len(s)
  BY <1>1
<1>6. Chain(t, count)
  BY <1>2, <1>4, <1>5 DEF Chain
<1> QED
  BY <1>2, <1>3, <1>4, <1>6 DEF t

\* A directory that the deepest frame lists is not on the stack, and may be
\* entered.
LEMMA Deepened ==
  ASSUME TypeOK, NEW s \in Seq(Frame), s # <<>>,
         NEW count \in Nat, NEW more \in Nat, count <= more, Chain(s, count),
         NEW frame \in Frame, frame.path \in Node,
         fs.kind[frame.path] = "directory",
         fs.parent[frame.path] = s[Len(s)].path,
         frame.left \subseteq Entries(frame.path), frame.warningStart <= more
  PROVE  LET t == Append(s, frame) IN
         /\ t \in Seq(Frame) /\ t # <<>> /\ Len(t) = Len(s) + 1 /\ Chain(t, more)
         /\ \A i \in 1..Len(s) : t[i] = s[i] /\ s[i].path # frame.path
         /\ t[Len(t)] = frame
<1> DEFINE t == Append(s, frame)
<1>1. Len(s) \in 1..Len(s)
  OBVIOUS
<1>2. t \in Seq(Frame) /\ Len(t) = Len(s) + 1 /\ t # <<>>
  BY <1>1
<1>3. (\A i \in 1..Len(s) : t[i] = s[i]) /\ t[Len(t)] = frame
  BY <1>2
<1>4. ASSUME NEW i \in 1..Len(s), s[i].path = frame.path PROVE FALSE
  <2>1. i > 1
    BY <1>1, <1>4, PathAssumption DEF Chain
  <2>2. i - 1 \in 1..Len(s) /\ i - 1 # Len(s)
    BY <2>1
  <2>3. s[i - 1].path = s[Len(s)].path
    BY <1>4, <2>1 DEF Chain
  <2> QED
    BY <1>1, <2>2, <2>3 DEF Chain
<1>5. \A i \in 1..Len(t) : i \in 1..Len(s) \/ i = Len(t)
  BY <1>2
<1> HIDE DEF t
<1>6. 1 \in 1..Len(s) /\ \A i \in 1..Len(t) : i > 1 => i - 1 \in 1..Len(s)
  BY <1>1, <1>2
<1>7. t[1].path = Root
  BY <1>1, <1>3, <1>6 DEF Chain
<1>8. ASSUME NEW i \in 1..Len(t), i > 1
      PROVE  /\ t[i].path \in Node /\ fs.kind[t[i].path] = "directory"
             /\ fs.parent[t[i].path] = t[i - 1].path
  <2>1. CASE i \in 1..Len(s)
    <3>1. i - 1 \in 1..Len(s)
      BY <1>6, <1>8
    <3>2. t[i] = s[i] /\ t[i - 1] = s[i - 1]
      BY <1>3, <2>1, <3>1
    <3> QED
      BY <1>8, <2>1, <3>2 DEF Chain
  <2>2. CASE i = Len(t)
    <3>1. i - 1 = Len(s)
      BY <1>2, <2>2
    <3> QED
      BY <1>1, <1>3, <2>2, <3>1
  <2> QED
    BY <1>5, <2>1, <2>2
<1>9. ASSUME NEW i \in 1..Len(t)
      PROVE  t[i].left \subseteq Entries(t[i].path) /\ t[i].warningStart <= more
  <2>1. CASE i \in 1..Len(s)
    <3>1. s[i] \in Frame /\ s[i].warningStart \in Nat
      <4>1. s[i] \in Frame
        BY <2>1
      <4> QED
        BY <4>1 DEF Frame
    <3>2. s[i].warningStart <= count
      BY <2>1 DEF Chain
    <3> QED
      BY <1>3, <2>1, <3>1, <3>2 DEF Chain
  <2>2. CASE i = Len(t)
    BY <1>3, <2>2
  <2> QED
    BY <1>5, <2>1, <2>2
<1>10. ASSUME NEW i \in 1..Len(t), NEW j \in 1..Len(t), t[i].path = t[j].path
       PROVE  i = j
  <2>1. \A k \in 1..Len(s) : t[k].path = s[k].path /\ s[k].path # t[Len(t)].path
    BY <1>3, <1>4
  <2>2. (i \in 1..Len(s) /\ j \in 1..Len(s)) \/ (i = Len(t) /\ j = Len(t))
    BY <1>5, <1>10, <2>1
  <2> QED
    BY <1>10, <2>1, <2>2 DEF Chain
<1> QED
  BY <1>2, <1>3, <1>4, <1>7, <1>8, <1>9, <1>10 DEF Chain, t

\* Without its deepest frame a stack is the path of the directory above; the
\* last frame may change all but its path.
LEMMA Shortened ==
  ASSUME NEW s \in Seq(Frame), s # <<>>, NEW count \in Nat, NEW more \in Nat,
         count <= more, Chain(s, count), NEW t \in Seq(Frame),
         Len(t) = Len(s) - 1,
         \A i \in 1..Len(t) : t[i].path = s[i].path /\ t[i].left = s[i].left
                              /\ t[i].warningStart = s[i].warningStart
  PROVE  /\ Chain(t, more)
         /\ \A i \in 1..Len(t) : s[i].path # s[Len(s)].path
         /\ t # <<>> => s[Len(s)].path \in Node
                        /\ fs.parent[s[Len(s)].path] = t[Len(t)].path
         /\ t = <<>> => s[Len(s)].path = Root
<1>0. Len(t) \in Nat /\ (t # <<>> => Len(t) > 0) /\ (t = <<>> => Len(t) = 0)
  OBVIOUS
<1>1. /\ Len(s) \in 1..Len(s) /\ Len(t) \in Nat /\ Len(s) \in Nat
      /\ \A i \in 1..Len(t) : i \in 1..Len(s) /\ i # Len(s)
  OBVIOUS
<1>2. ASSUME NEW i \in 1..Len(t) PROVE t[i].warningStart <= more
  <2>1. t[i].warningStart <= count /\ t[i] \in Frame
    <3>1. i \in 1..Len(s)
      BY <1>1
    <3>2. t[i].warningStart = s[i].warningStart /\ t[i] \in Frame
      OBVIOUS
    <3> QED
      BY <3>1, <3>2 DEF Chain
  <2>2. t[i].warningStart \in Nat
    BY <2>1 DEF Frame
  <2> QED
    BY <2>1, <2>2
<1>3. ASSUME NEW i \in 1..Len(t), i > 1 PROVE i - 1 \in 1..Len(t)
  BY <1>0, <1>3
<1>4. t # <<>> => 1 \in 1..Len(t)
  BY <1>0
<1>5. Chain(t, more)
  <2>1. ASSUME NEW i \in 1..Len(t), i > 1
        PROVE  /\ t[i].path \in Node /\ fs.kind[t[i].path] = "directory"
               /\ fs.parent[t[i].path] = t[i - 1].path
    <3>1. i - 1 \in 1..Len(t)
      BY <1>3, <2>1
    <3>2. t[i].path = s[i].path /\ t[i - 1].path = s[i - 1].path
      BY <3>1
    <3> QED
      BY <1>1, <2>1, <3>2 DEF Chain
  <2>2. \A i, j \in 1..Len(t) : t[i].path = t[j].path => i = j
    BY <1>1 DEF Chain
  <2>3. \A i \in 1..Len(t) : t[i].left \subseteq Entries(t[i].path)
    BY <1>1 DEF Chain
  <2>4. t # <<>> => t[1].path = Root
    BY <1>1, <1>4 DEF Chain
  <2> QED
    BY <1>2, <2>1, <2>2, <2>3, <2>4 DEF Chain
<1>6. \A i \in 1..Len(t) : s[i].path # s[Len(s)].path
  BY <1>1 DEF Chain
<1>7. ASSUME t # <<>>
      PROVE  s[Len(s)].path \in Node /\ fs.parent[s[Len(s)].path] = t[Len(t)].path
  <2>1. Len(s) > 1 /\ Len(t) = Len(s) - 1 /\ Len(t) \in 1..Len(t)
    BY <1>0, <1>1, <1>7
  <2>2. t[Len(t)].path = s[Len(s) - 1].path
    BY <2>1
  <2> QED
    BY <1>1, <2>1, <2>2 DEF Chain
<1>8. t = <<>> => s[Len(s)].path = Root
  <2>1. t = <<>> => Len(s) = 1
    BY <1>0, <1>1
  <2> QED
    BY <2>1 DEF Chain
<1> QED
  BY <1>5, <1>6, <1>7, <1>8

-----------------------------------------------------------------------------
(* The steps of the walk.                                                  *)

\* The root is entered, or is not there.
LEMMA WalkStart ==
  ASSUME WalkInv, Start \/ StartMissing
  PROVE  WalkInv'
<1> USE DEF WalkInv
<1>1. /\ pc = "start" /\ stack = <<>> /\ discovered = 1 /\ finished = 0
      /\ entries = 0 /\ emitted = None /\ Len(stack) = 0
  BY DEF Fresh, Start, StartMissing
<1>2. CASE StartMissing
  <2>1. TypeOK'
    BY <1>2 DEF StartMissing, TypeOK
  <2>2. Chain(stack, warnings)'
    <3>1. fs' = fs /\ stack' = stack /\ Len(stack') = 0
      BY <1>1, <1>2 DEF StartMissing
    <3> QED
      BY <1>1, <3>1 DEF Chain
  <2> QED
    BY <1>1, <1>2, <2>1, <2>2 DEF StartMissing, Fresh, Bounded
<1>3. CASE Start
  <2>1. PICK failures \in Failures :
          stack' = <<Open(Root, failures)>> /\ warnings' = warnings + failures
    BY <1>3 DEF Start
  <2>2. Root \in Path /\ Root \notin Node
    BY PathAssumption DEF Path
  <2>3. /\ Open(Root, failures) \in Frame
        /\ Open(Root, failures).path = Root
        /\ Open(Root, failures).left \subseteq Entries(Root)
        /\ Open(Root, failures).warningStart <= warnings'
        /\ warnings' \in Nat
    BY <2>1, <2>2, OpenTyped DEF TypeOK
  <2>4. stack' \in Seq(Frame) /\ Len(stack') = 1 /\ stack'[1] = Open(Root, failures)
    BY <2>1, <2>3
  <2>5. seen' \subseteq Node /\ entries' \in 0..MaxEntries /\ bytes' \in Nat
    BY <1>1, <1>3, <2>2, AccountTyped, LimitAssumption DEF Start
  <2>6. /\ fs' = fs /\ cancelled' = cancelled /\ discovered' = discovered
        /\ emitted' = emitted /\ finished' = finished /\ pc' = "walk"
    BY <1>3 DEF Start
  <2>7. TypeOK'
    BY <2>3, <2>4, <2>5, <2>6 DEF TypeOK
  <2>8. Chain(stack, warnings)'
    <3>1. Entries(Root)' = Entries(Root)
      BY <2>6 DEF Entries
    <3>2. \A i \in 1..Len(stack') : i = 1
      BY <2>4
    <3> QED
      BY <2>3, <2>4, <2>6, <3>1, <3>2 DEF Chain
  <2>9. stack' # <<>>
    BY <2>4
  <2> QED
    BY <1>1, <2>4, <2>6, <2>7, <2>8, <2>9 DEF Fresh, Bounded
<1> QED
  BY <1>2, <1>3

\* The deepest frame takes an entry.
LEMMA WalkTaken ==
  ASSUME WalkInv, Walking, NEW frame \in Frame, frame.path = Top.path,
         frame.left \subseteq Top.left, frame.warningStart = Top.warningStart,
         stack' = [stack EXCEPT ![Len(stack)] = frame],
         warnings' \in Nat, warnings <= warnings', seen' \subseteq Node,
         entries' \in 0..MaxEntries, bytes' \in Nat,
         emitted' \in FileRecord \cup {None}, pc' \in {"walk", "failed"},
         UNCHANGED <<fs, cancelled, discovered, finished>>
  PROVE  /\ WalkInv' /\ Len(stack') = Len(stack)
         /\ \A i \in Depths : i # Len(stack) => stack'[i] = stack[i]
         /\ stack'[Len(stack)] = frame
<1> USE DEF WalkInv
<1>1. stack # <<>> /\ pc = "walk" /\ stack \in Seq(Frame) /\ warnings \in Nat
  BY DEF Walking, Bounded, TypeOK
<1>2. /\ stack' \in Seq(Frame) /\ stack' # <<>> /\ Len(stack') = Len(stack)
      /\ Chain(stack', warnings)
      /\ \A i \in 1..Len(stack) : i # Len(stack) => stack'[i] = stack[i]
      /\ stack'[Len(stack)] = frame
  <2> DEFINE t == [stack EXCEPT ![Len(stack)] = frame]
  <2>1. Chain(stack, warnings)
    OBVIOUS
  <2>2. /\ t \in Seq(Frame) /\ t # <<>> /\ Len(t) = Len(stack)
        /\ Chain(t, warnings)
        /\ \A i \in 1..Len(stack) : i # Len(stack) => t[i] = stack[i]
        /\ t[Len(stack)] = frame
    <3>1. /\ frame.path = stack[Len(stack)].path
          /\ frame.left \subseteq stack[Len(stack)].left
          /\ frame.warningStart = stack[Len(stack)].warningStart
      BY DEF Top
    <3> QED
      BY ONLY <1>1, <2>1, <3>1, TopReplaced, frame \in Frame
  <2>3. stack' = t
    OBVIOUS
  <2> HIDE DEF t
  <2> QED
    BY <2>2, <2>3
<1>3. Chain(stack', warnings')
  <2>1. \A i \in 1..Len(stack') : stack'[i].warningStart \in Nat
    <3>1. \A i \in 1..Len(stack') : stack'[i] \in Frame
      BY <1>2
    <3> QED
      BY <3>1 DEF Frame
  <2>2. \A i \in 1..Len(stack') : stack'[i].warningStart <= warnings'
    <3>1. \A i \in 1..Len(stack') : stack'[i].warningStart <= warnings
      BY <1>2 DEF Chain
    <3> QED
      BY <1>1, <2>1, <3>1
  <2> QED
    BY <1>2, <2>2 DEF Chain
<1>4. Chain(stack, warnings)'
  BY <1>3 DEF Chain, Entries
<1>5. TypeOK'
  BY <1>2 DEF TypeOK
<1> QED
  BY <1>1, <1>2, <1>4, <1>5 DEF Fresh, Bounded, Depths

\* No frame of the stack is another one, nor counts more.
Unmoved ==
  /\ pc' = pc /\ Len(stack') = Len(stack)
  /\ \A i \in Depths :
       /\ stack'[i].path = stack[i].path
       /\ stack'[i].children = stack[i].children
       /\ stack'[i].files = stack[i].files
       /\ stack'[i].bytes = stack[i].bytes
       /\ stack'[i].direct = stack[i].direct
  /\ UNCHANGED <<fs, finished, seen, bytes>>

\* An entry is passed over, or is gone, or is one too many.
LEMMA WalkPassed ==
  ASSUME WalkInv, NEW n \in Node, Exclude(n) \/ Miss(n) \/ TooMuch(n)
  PROVE  WalkInv' /\ (pc' = "limit" \/ Unmoved)
<1> USE DEF WalkInv
<1>1. Walking /\ stack # <<>> /\ pc = "walk" /\ warnings \in Nat
  BY DEF Exclude, Miss, Visitable, TooMuch, Walking, Bounded, TypeOK
<1>2. CASE TooMuch(n)
  <2>1. pc' = "limit" /\ UNCHANGED <<fs, cancelled, stack, seen, discovered,
                                    entries, bytes, warnings, finished>>
        /\ emitted' = None
    BY <1>2 DEF TooMuch
  <2>2. TypeOK'
    BY <2>1 DEF TypeOK
  <2>3. Chain(stack, warnings)'
    BY <2>1 DEF Chain, Entries
  <2> QED
    BY <1>1, <2>1, <2>2, <2>3 DEF Fresh, Bounded
<1>3. CASE Exclude(n) \/ Miss(n)
  <2> DEFINE frame == [Top EXCEPT !.left = @ \ {n}]
  <2>1. Top \in Frame /\ Len(stack) \in Depths
    BY <1>1, TopTyped
  <2>2. /\ frame \in Frame /\ frame.path = Top.path /\ frame.left \subseteq Top.left
        /\ frame.warningStart = Top.warningStart
    BY <2>1 DEF Frame
  <2>3. stack' = [stack EXCEPT ![Len(stack)].left = @ \ {n}]
    BY <1>3 DEF Exclude, Miss
  <2>4. stack' = [stack EXCEPT ![Len(stack)] = frame]
    BY <2>3 DEF Top
  <2>5. /\ warnings' \in Nat /\ warnings <= warnings' /\ seen' = seen
        /\ entries' = entries /\ bytes' = bytes /\ emitted' = None /\ pc' = pc
        /\ UNCHANGED <<fs, cancelled, discovered, finished>>
    BY <1>1, <1>3 DEF Exclude, Miss
  <2>6. seen' \subseteq Node /\ entries' \in 0..MaxEntries /\ bytes' \in Nat
    BY <2>5 DEF TypeOK
  <2> HIDE DEF frame
  <2>7. /\ WalkInv' /\ Len(stack') = Len(stack)
        /\ \A i \in Depths : i # Len(stack) => stack'[i] = stack[i]
        /\ stack'[Len(stack)] = frame
    BY <1>1, <2>2, <2>4, <2>5, <2>6, WalkTaken
  <2>8. /\ frame.children = Top.children /\ frame.files = Top.files
        /\ frame.bytes = Top.bytes /\ frame.direct = Top.direct
    BY <2>1 DEF frame, Frame
  <2> QED
    BY <2>2, <2>5, <2>7, <2>8 DEF Unmoved, Top
<1> QED
  BY <1>2, <1>3

\* A directory is entered: it is not on the stack.
LEMMA WalkDescend ==
  ASSUME WalkInv, NEW n \in Node, Descend(n)
  PROVE  /\ WalkInv'
         /\ Len(stack') = Len(stack) + 1
         /\ \A i \in Depths : stack[i].path # n
         /\ \A i \in Depths :
              /\ stack'[i].path = stack[i].path
              /\ stack'[i].children = stack[i].children
              /\ stack'[i].files = stack[i].files
              /\ stack'[i].bytes = stack[i].bytes
              /\ stack'[i].direct = stack[i].direct
         /\ stack'[Len(stack')].path = n
         /\ stack'[Len(stack')].children = 0 /\ stack'[Len(stack')].files = 0
         /\ stack'[Len(stack')].bytes = Counted(n) /\ stack'[Len(stack')].direct = 0
         /\ n # Root /\ fs.kind[n] = "directory" /\ fs.parent[n] = Top.path
<1> USE DEF WalkInv
<1>1. /\ Walking /\ stack # <<>> /\ pc = "walk" /\ warnings \in Nat
      /\ n \in Top.left /\ fs.kind[n] = "directory" /\ discovered < MaxDirectories
      /\ ~ OverLimit(n)
  BY DEF Descend, Visitable, Walking, Bounded, TypeOK
<1>2. PICK failures \in Failures, left \in Remaining(n) :
        /\ stack' = Append([stack EXCEPT ![Len(stack)].left = left],
                           Open(n, failures))
        /\ warnings' = warnings + failures
  BY DEF Descend
<1> DEFINE frame == [Top EXCEPT !.left = left]
           kept == [stack EXCEPT ![Len(stack)] = frame]
<1>3. Top \in Frame /\ Top.left \subseteq Entries(Top.path)
  BY <1>1, TopTyped
<1>4. left \subseteq Top.left
  BY DEF Remaining
<1>5. /\ frame \in Frame /\ frame.path = Top.path /\ frame.left \subseteq Top.left
      /\ frame.warningStart = Top.warningStart
      /\ frame.children = Top.children /\ frame.files = Top.files
      /\ frame.bytes = Top.bytes /\ frame.direct = Top.direct
  BY <1>3, <1>4 DEF Frame
<1>6. stack' = Append(kept, Open(n, failures))
  BY <1>2 DEF Top
<1>7. stack \in Seq(Frame) /\ Chain(stack, warnings)
  BY DEF TypeOK
<1> HIDE DEF frame
<1>8. /\ kept \in Seq(Frame) /\ kept # <<>> /\ Len(kept) = Len(stack)
      /\ Chain(kept, warnings)
      /\ \A i \in 1..Len(stack) : kept[i].path = stack[i].path
      /\ \A i \in 1..Len(stack) : i # Len(stack) => kept[i] = stack[i]
      /\ kept[Len(stack)] = frame
  BY <1>1, <1>5, <1>7, TopReplaced DEF Top
<1> HIDE DEF kept
<1>9. n \in Path /\ fs.parent[n] = Top.path
  BY <1>1, <1>3 DEF Entries, Path
<1>10. /\ Open(n, failures) \in Frame /\ Open(n, failures).path = n
       /\ Open(n, failures).left \subseteq Entries(n)
       /\ Open(n, failures).warningStart <= warnings'
       /\ Open(n, failures).children = 0 /\ Open(n, failures).files = 0
       /\ Open(n, failures).bytes = Counted(n) /\ Open(n, failures).direct = 0
       /\ warnings' \in Nat /\ warnings <= warnings'
  BY <1>1, <1>2, <1>9, OpenTyped
<1>11. fs.parent[n] = kept[Len(kept)].path
  BY <1>5, <1>8, <1>9
<1>12. /\ stack' \in Seq(Frame) /\ stack' # <<>> /\ Len(stack') = Len(stack) + 1
       /\ Chain(stack', warnings')
       /\ \A i \in 1..Len(stack) : stack'[i] = kept[i] /\ kept[i].path # n
       /\ stack'[Len(stack')] = Open(n, failures)
  BY <1>1, <1>6, <1>8, <1>10, <1>11, Deepened
<1>13. seen' \subseteq Node /\ entries' \in 0..MaxEntries /\ bytes' \in Nat
  <2>1. entries < MaxEntries
    BY <1>1, LimitAssumption DEF OverLimit, TypeOK
  <2> QED
    BY <1>9, <2>1, AccountTyped DEF Descend
<1>14. /\ fs' = fs /\ pc' = pc /\ cancelled' = cancelled /\ finished' = finished
       /\ emitted' = None /\ discovered' = discovered + 1
  BY DEF Descend
<1>15. TypeOK'
  <2>1. discovered' \in 1..MaxDirectories
    BY <1>1, <1>14, LimitAssumption DEF TypeOK
  <2> QED
    BY <1>10, <1>12, <1>13, <1>14, <2>1 DEF TypeOK
<1>16. Chain(stack, warnings)'
  BY <1>12, <1>14 DEF Chain, Entries
<1>17. (Fresh /\ Bounded)'
  <2>1. finished + Len(stack) <= discovered /\ Len(stack) \in Nat
        /\ finished \in Nat /\ discovered \in Nat
    BY <1>7 DEF Bounded, TypeOK
  <2> QED
    BY <1>1, <1>12, <1>14, <2>1 DEF Fresh, Bounded
<1>18. \A i \in Depths :
         /\ stack'[i].path = stack[i].path /\ stack[i].path # n
         /\ stack'[i].children = stack[i].children
         /\ stack'[i].files = stack[i].files
         /\ stack'[i].bytes = stack[i].bytes
         /\ stack'[i].direct = stack[i].direct
  BY <1>5, <1>8, <1>12 DEF Depths, Top
<1> QED
  BY <1>1, <1>9, <1>10, <1>12, <1>15, <1>16, <1>17, <1>18, PathAssumption

\* An entry is measured, and reported if it is a file and files are wanted.
LEMMA WalkMeasure ==
  ASSUME WalkInv, NEW n \in Node, Measure(n)
  PROVE  /\ WalkInv'
         /\ Len(stack') = Len(stack) /\ Len(stack) \in Depths
         /\ \A i \in Depths :
              /\ stack'[i].path = stack[i].path
              /\ stack'[i].children = stack[i].children
              /\ stack'[i].files =
                   IF Reported(n) /\ i = Len(stack) THEN stack[i].files + 1
                   ELSE stack[i].files
              /\ i # Len(stack) => /\ stack'[i].bytes = stack[i].bytes
                                   /\ stack'[i].direct = stack[i].direct
         /\ stack'[Len(stack)].bytes = Top.bytes + Counted(n)
         /\ stack'[Len(stack)].direct = Top.direct + Counted(n)
         /\ fs.parent[n] = Top.path
         /\ IF Reported(n)
            THEN /\ emitted' = [kind |-> "file", path |-> n, parent |-> Top.path,
                                bytes |-> Counted(n)]
                 /\ emitted' \in FileRecord
            ELSE emitted' = None
<1> USE DEF WalkInv
<1>1. /\ Walking /\ stack # <<>> /\ pc = "walk" /\ warnings \in Nat
      /\ n \in Top.left /\ ~ OverLimit(n)
  BY DEF Measure, Visitable, Walking, Bounded, TypeOK
<1>2. PICK left \in Remaining(n) :
        stack' = [stack EXCEPT ![Len(stack)] = Taken(Top, left, n)]
  BY DEF Measure, Top
<1> DEFINE frame == Taken(Top, left, n)
<1>3. /\ Top \in Frame /\ Top.left \subseteq Entries(Top.path)
      /\ Len(stack) \in Depths /\ Top.path \in Path
  BY <1>1, TopTyped
<1>4. left \subseteq Top.left
  BY DEF Remaining
<1>5. n \in Path /\ fs.parent[n] = Top.path /\ Counted(n) \in Nat
  BY <1>1, <1>3, CountedTyped DEF Entries, Path
<1>6. /\ frame \in Frame /\ frame.path = Top.path /\ frame.left \subseteq Top.left
      /\ frame.warningStart = Top.warningStart /\ frame.children = Top.children
      /\ frame.files = IF Reported(n) THEN Top.files + 1 ELSE Top.files
      /\ frame.bytes = Top.bytes + Counted(n)
      /\ frame.direct = Top.direct + Counted(n)
  BY <1>3, <1>4, <1>5, TakenTyped
<1>7. stack' = [stack EXCEPT ![Len(stack)] = frame]
  BY <1>2
<1> HIDE DEF frame
<1>8. stack \in Seq(Frame) /\ Chain(stack, warnings)
  BY DEF TypeOK
<1>9. /\ \A i \in 1..Len(stack) : i # Len(stack) => stack'[i] = stack[i]
      /\ stack'[Len(stack)] = frame
  BY <1>1, <1>6, <1>7, <1>8, TopReplaced DEF Top
<1>10. seen' \subseteq Node /\ entries' \in 0..MaxEntries /\ bytes' \in Nat
  <2>1. entries < MaxEntries
    BY <1>1, LimitAssumption DEF OverLimit, TypeOK
  <2> QED
    BY <1>5, <2>1, AccountTyped DEF Measure
<1>11. /\ UNCHANGED <<fs, cancelled, discovered, finished, warnings>>
       /\ pc' \in {"walk", "failed"}
  BY <1>1 DEF Measure, Refused
<1>12. IF Reported(n)
       THEN emitted' = [kind |-> "file", path |-> n, parent |-> Top.path,
                        bytes |-> Counted(n)]
       ELSE emitted' = None
  BY DEF Measure
<1>13. Reported(n) => emitted' \in FileRecord
  BY <1>3, <1>5, <1>12 DEF FileRecord
<1>14. WalkInv' /\ Len(stack') = Len(stack)
  <2>1. warnings' \in Nat /\ warnings <= warnings'
    BY <1>1, <1>11
  <2> QED
    BY <1>1, <1>6, <1>7, <1>10, <1>11, <1>12, <1>13, <2>1, WalkTaken
<1>15. \A i \in Depths :
         /\ stack'[i].path = stack[i].path
         /\ stack'[i].children = stack[i].children
         /\ stack'[i].files =
              IF Reported(n) /\ i = Len(stack) THEN stack[i].files + 1
              ELSE stack[i].files
         /\ i # Len(stack) => /\ stack'[i].bytes = stack[i].bytes
                              /\ stack'[i].direct = stack[i].direct
  BY <1>6, <1>9 DEF Depths, Top
<1>16. /\ stack'[Len(stack)].bytes = Top.bytes + Counted(n)
       /\ stack'[Len(stack)].direct = Top.direct + Counted(n)
  BY <1>6, <1>9
<1> QED
  BY <1>3, <1>5, <1>12, <1>13, <1>14, <1>15, <1>16

\* The record of a directory that is left, added to the one above it.
LEMMA AddedTyped ==
  ASSUME NEW frame \in Frame, NEW record, record.bytes \in Nat
  PROVE  LET next == Added(frame, record) IN
         /\ next \in Frame /\ next.path = frame.path /\ next.left = frame.left
         /\ next.warningStart = frame.warningStart /\ next.files = frame.files
         /\ next.children = frame.children + 1
         /\ next.bytes = frame.bytes + record.bytes /\ next.direct = frame.direct
<1> DEFINE total == frame.bytes + record.bytes  more == frame.children + 1
<1>1. total \in Nat /\ more \in Nat
  BY DEF Frame
<1>2. Added(frame, record) = [frame EXCEPT !.bytes = total, !.children = more]
  BY DEF Added, Frame
<1> HIDE DEF total, more
<1>3. LET next == [frame EXCEPT !.bytes = total, !.children = more] IN
      /\ next \in Frame /\ next.path = frame.path /\ next.left = frame.left
      /\ next.warningStart = frame.warningStart /\ next.files = frame.files
      /\ next.children = more /\ next.bytes = total /\ next.direct = frame.direct
  BY <1>1 DEF Frame
<1> QED
  BY <1>2, <1>3 DEF more, total

\* A directory is left: its record is emitted, and the one above it is the
\* deepest.
LEMMA WalkLeave ==
  ASSUME WalkInv, Leave
  PROVE  /\ WalkInv'
         /\ Len(stack) \in Depths /\ Len(stack') = Len(stack) - 1
         /\ emitted' \in DirectoryRecord
         /\ emitted'.path = Top.path /\ emitted'.parent = Parent(Top.path)
         /\ emitted'.children = Top.children /\ emitted'.files = Top.files
         /\ emitted'.bytes = Top.bytes /\ emitted'.direct = Top.direct
         /\ \A i \in 1..Len(stack') :
              /\ stack'[i].path = stack[i].path /\ stack[i].path # Top.path
              /\ stack'[i].children = IF i = Len(stack') THEN stack[i].children + 1
                                      ELSE stack[i].children
              /\ stack'[i].files = stack[i].files
              /\ stack'[i].bytes = IF i = Len(stack') THEN stack[i].bytes + Top.bytes
                                   ELSE stack[i].bytes
              /\ stack'[i].direct = stack[i].direct
         /\ stack' # <<>> => Top.path \in Node /\ Len(stack') \in Depths
                             /\ fs.parent[Top.path] = stack[Len(stack')].path
                             /\ pc' \in {"walk", "failed"}
         /\ stack' = <<>> => Top.path = Root /\ pc' \in {"complete", "failed"}
         /\ Top.path # Root => fs.kind[Top.path] = "directory"
         /\ finished' = finished + 1
<1> USE DEF WalkInv
<1>1. stack # <<>> /\ pc = "walk" /\ warnings \in Nat /\ stack \in Seq(Frame)
  BY DEF Leave, Walking, Bounded, TypeOK
<1> DEFINE cut == IF Top.left = {} THEN 0 ELSE 1
           above == Len(stack) - 1
           noted == warnings + cut - Top.warningStart
           record == [kind |-> "directory", path |-> Top.path,
                      parent |-> Parent(Top.path), bytes |-> Top.bytes,
                      direct |-> Top.direct, children |-> Top.children,
                      files |-> Top.files, warnings |-> noted]
<1>2. /\ warnings' = warnings + cut /\ emitted' = record
      /\ stack' = [i \in 1..above |->
                    IF i = above THEN Added(stack[i], record) ELSE stack[i]]
      /\ pc' = "failed" \/ pc' = IF above = 0 THEN "complete" ELSE "walk"
      /\ finished' = finished + 1
      /\ UNCHANGED <<fs, cancelled, seen, discovered, entries, bytes>>
  BY DEF Leave, Refused
<1>3. Top \in Frame /\ Len(stack) \in Depths /\ Top.path \in Path
  BY <1>1, TopTyped
<1>4. /\ above \in Nat /\ Len(stack) = above + 1
      /\ \A i \in 1..above : i \in 1..Len(stack) /\ stack[i] \in Frame
  BY <1>1, <1>3 DEF Depths
<1>5. cut \in Nat /\ Top.warningStart \in Nat /\ Top.warningStart <= warnings
  BY <1>3 DEF Chain, Depths, Top, Frame
<1>6. noted \in Nat /\ warnings' \in Nat /\ warnings <= warnings'
  BY <1>1, <1>2, <1>5
<1>7. Parent(Top.path) \in Path \cup {None}
  BY <1>3, ParentTyped
<1> HIDE DEF noted, cut
<1>8. /\ record \in DirectoryRecord /\ record.path = Top.path
      /\ record.parent = Parent(Top.path) /\ record.children = Top.children
      /\ record.files = Top.files /\ record.bytes \in Nat
      /\ record.bytes = Top.bytes /\ record.direct = Top.direct
  BY <1>3, <1>6, <1>7 DEF DirectoryRecord, Frame
<1> HIDE DEF record, above
<1>9. /\ stack' \in Seq(Frame) /\ Len(stack') = above
      /\ \A i \in 1..above : stack'[i] = IF i = above THEN Added(stack[i], record)
                                         ELSE stack[i]
  <2>1. \A i \in 1..above : Added(stack[i], record) \in Frame
    BY <1>4, <1>8, AddedTyped
  <2> QED
    BY <1>2, <1>4, <2>1
<1>10. \A i \in 1..above :
         /\ stack'[i].path = stack[i].path /\ stack'[i].left = stack[i].left
         /\ stack'[i].warningStart = stack[i].warningStart
         /\ stack'[i].files = stack[i].files
         /\ stack'[i].children = IF i = above THEN stack[i].children + 1
                                 ELSE stack[i].children
         /\ stack'[i].bytes = IF i = above THEN stack[i].bytes + Top.bytes
                              ELSE stack[i].bytes
         /\ stack'[i].direct = stack[i].direct
  BY <1>4, <1>8, <1>9, AddedTyped
<1>11. Len(stack') = Len(stack) - 1
  BY <1>4, <1>9
<1>12. /\ Chain(stack', warnings')
       /\ \A i \in 1..Len(stack') : stack[i].path # Top.path
       /\ stack' # <<>> => Top.path \in Node
                           /\ fs.parent[Top.path] = stack'[Len(stack')].path
       /\ stack' = <<>> => Top.path = Root
  <2>1. Chain(stack, warnings) /\ warnings' \in Nat
    BY <1>6
  <2>2. \A i \in 1..Len(stack') :
          /\ stack'[i].path = stack[i].path /\ stack'[i].left = stack[i].left
          /\ stack'[i].warningStart = stack[i].warningStart
    BY <1>9, <1>10
  <2> QED
    BY <1>1, <1>6, <1>9, <1>11, <2>1, <2>2, Shortened DEF Top
<1>13. Chain(stack, warnings)'
  <2>1. Chain(stack', warnings') /\ fs' = fs
    BY <1>2, <1>12
  <2> QED
    BY <2>1 DEF Chain, Entries
<1>14. /\ stack' = <<>> => above = 0
       /\ stack' # <<>> => above \in 1..above /\ above # 0
  BY <1>4, <1>9
<1>15. TypeOK' /\ Fresh' /\ Bounded'
  <2>1. /\ finished + above + 1 <= discovered /\ discovered \in 1..MaxDirectories
        /\ finished \in Nat /\ MaxDirectories \in Nat
    BY <1>4, LimitAssumption DEF Bounded, TypeOK
  <2>2. finished' \in 0..MaxDirectories /\ finished' + Len(stack') <= discovered'
    BY <1>2, <1>4, <1>9, <2>1
  <2>3. pc' \in {"failed", "complete", "walk"} /\ (pc' = "walk" => stack' # <<>>)
    BY <1>2, <1>14
  <2>4. TypeOK'
    BY <1>2, <1>6, <1>8, <1>9, <2>2, <2>3 DEF TypeOK
  <2> QED
    BY <2>2, <2>3, <2>4 DEF Fresh, Bounded
<1>16. stack' # <<>> => Len(stack') \in Depths
                        /\ fs.parent[Top.path] = stack[Len(stack')].path
  BY <1>4, <1>9, <1>10, <1>12, <1>14 DEF Depths
<1>17. Top.path # Root => fs.kind[Top.path] = "directory"
  <2>1. CASE stack' = <<>>
    BY <1>12, <2>1
  <2>2. CASE stack' # <<>>
    BY <1>3, <1>4, <1>14, <2>2 DEF Chain, Top, Depths
  <2> QED
    BY <2>1, <2>2
<1> QED
  BY <1>2, <1>3, <1>8, <1>9, <1>10, <1>11, <1>12, <1>13, <1>14, <1>15, <1>16, <1>17

\* Every step of the walk preserves its invariant.
LEMMA WalkInductive ==
  /\ Init => WalkInv
  /\ WalkInv /\ [Next]_vars => WalkInv'
<1>1. ASSUME Init PROVE WalkInv
  <2>1. stack = <<>> /\ Len(stack) = 0 /\ stack \in Seq(Frame)
    BY <1>1 DEF Init
  <2>2. TypeOK
    <3>1. /\ MaxDirectories \in Nat /\ MaxDirectories > 0
          /\ MaxEntries \in Nat /\ MaxEntries > 0
      BY LimitAssumption
    <3>2. 1 \in 1..MaxDirectories /\ 0 \in 0..MaxDirectories /\ 0 \in 0..MaxEntries
      BY <3>1
    <3> QED
      BY <1>1, <2>1, <3>2 DEF Init, TypeOK
  <2>3. Chain(stack, warnings)
    BY <2>1 DEF Chain
  <2> QED
    BY <1>1, <2>1, <2>2, <2>3 DEF Init, WalkInv, Fresh, Bounded
<1>2. ASSUME WalkInv, [Next]_vars PROVE WalkInv'
  <2>1. CASE Stop \/ Cancel \/ UNCHANGED vars
    <3>1. /\ stack' = stack /\ fs' = fs /\ warnings' = warnings
          /\ UNCHANGED <<seen, discovered, finished, entries, bytes>>
          /\ cancelled' \in BOOLEAN /\ pc' \in {pc, "cancelled"}
          /\ emitted' \in {emitted, None}
      BY <1>2, <2>1 DEF Stop, Cancel, vars, WalkInv, TypeOK
    <3>2. TypeOK'
      BY <1>2, <3>1 DEF WalkInv, TypeOK
    <3>3. Chain(stack, warnings)'
      BY <1>2, <3>1 DEF WalkInv, Chain, Entries
    <3> QED
      BY <1>2, <3>1, <3>2, <3>3 DEF WalkInv, Fresh, Bounded
  <2>2. CASE \E n \in Node : Visit(n)
    BY <1>2, <2>2, WalkPassed, WalkDescend, WalkMeasure DEF Visit
  <2> QED
    BY <1>2, <2>1, <2>2, WalkStart, WalkLeave DEF Next, Step
<1> QED
  BY <1>1, <1>2

\* The walk keeps within its types and its limits whatever the file system
\* does and wherever it stops: no directory, entry or link is counted beyond
\* the limits, and no count becomes negative.
THEOREM WalkCorrect == Spec => []TypeOK
<1>1. WalkInv => TypeOK
  BY DEF WalkInv
<1> QED
  BY <1>1, WalkInductive, PTL DEF Spec
=============================================================================
