------------------------- MODULE TerminalAppProofs -------------------------
(***************************************************************************)
(* Proofs about the terminal interface, for every number of scans, every   *)
(* set of trees and every size of the screen.                              *)
(***************************************************************************)
EXTENDS TerminalApp, Iteration, FiniteSetTheorems, TLAPS

-----------------------------------------------------------------------------
(* The inductive invariant. The scans take place one after the other, the  *)
(* outcome of one is the last message of its thread, and it is that thread *)
(* that has replaced the snapshot, or none has since the last outcome was  *)
(* seen.                                                                   *)

Stages == {"unborn", "created", "walk", "finalize", "cancelled", "error",
           "publish", "published", "failed", "done"}
Answer == [scan: 0..MaxScans, tree: Trees \cup {None}]
Posted == [scan: Scans, kind: {"event", "outcome"}, snapshot: Answer]

Typed ==
  /\ scanning \in BOOLEAN /\ started \in Scans /\ seen \in Nat
  /\ scan \in [Scans -> [pc: Stages, events: Nat]]
  /\ active \in Answer /\ messages \in Seq(Posted)

InOrder ==
  /\ \A s \in Scans : s > started => scan[s].pc = "unborn"
  /\ \A s \in Scans : s < started => scan[s].pc = "done"
  /\ scan[started].pc # "unborn"
  /\ ~ scanning => scan[started].pc = "done"

Replaced ==
  \A s \in Scans :
    /\ scan[s].pc \notin {"published", "done"} => active.scan # s
    /\ scan[s].pc = "published" => active.scan = s

\* A message that says how the scan ended.
IsOutcome(i) ==
  /\ i = Len(messages)
  /\ scan[started].pc = "done"
  /\ IF messages[i].snapshot = NoSnapshot THEN shown = active.tree
     ELSE messages[i].snapshot = active
Delivered ==
  /\ \A i \in 1..Len(messages) : messages[i].kind = "outcome" => IsOutcome(i)
  /\ ~ scanning => messages = <<>> /\ shown = active.tree
  /\ scan[started].pc \notin {"published", "done"} => shown = active.tree
  /\ seen + Cardinality(Of("event")) <= scan[started].events

\* The cursor is on a row, and after drawing the row is on the screen.
Placed ==
  /\ shown \in Trees \cup {None}
  /\ cursor \in Int /\ scroll \in Int /\ height \in Nat
  /\ shown # None => cursor \in 0..(Cardinality(Visible) - 1)
  /\ CursorOnScreen

AppInv == Typed /\ InOrder /\ Replaced /\ Delivered /\ Placed

-----------------------------------------------------------------------------
(* The cursor.                                                             *)

\* The rows of a tree are finitely many, and its root is one of them.
LEMMA RowsCounted ==
  ASSUME NEW tree \in Trees, NEW open
  PROVE  LET rows == VisibleOf(tree, open) IN
         /\ IsFiniteSet(rows) /\ 0 \in rows /\ rows \subseteq Nat
         /\ Cardinality(rows) \in Nat /\ Cardinality(rows) > 0
<1> DEFINE rows == VisibleOf(tree, open)
<1>1. PICK k \in 0..N : tree \in [1..k -> 0..k]
  BY TerminalAssumption DEF Snapshot
<1>2. rows \subseteq 0..k /\ 0 \in rows
  <2>1. k \in Nat
    BY <1>1, TerminalAssumption
  <2>2. DOMAIN tree = 1..k
    BY <1>1
  <2> QED
    BY <2>1, <2>2 DEF VisibleOf
<1>3. IsFiniteSet(0..k)
  BY <1>1, FS_Interval, TerminalAssumption
<1>4. IsFiniteSet(rows)
  BY <1>2, <1>3, FS_Subset
<1>5. Cardinality(rows) \in Nat /\ Cardinality(rows) # 0
  BY <1>2, <1>4, FS_CardinalityType, FS_EmptySet
<1> QED
  BY <1>2, <1>4, <1>5

\* The same of the rows that are shown.
LEMMA ShownCounted ==
  ASSUME Placed, shown # None
  PROVE  /\ shown \in Trees
         /\ IsFiniteSet(Visible) /\ 0 \in Visible /\ Visible \subseteq Nat
         /\ Cardinality(Visible) \in Nat /\ Cardinality(Visible) > 0
BY RowsCounted DEF Placed, Visible

\* The index of a row is one of the rows.
LEMMA IndexInside ==
  ASSUME NEW rows, IsFiniteSet(rows), rows \subseteq Nat, NEW n \in rows
  PROVE  IndexIn(rows, n) \in 0..(Cardinality(rows) - 1)
<1> DEFINE before == {m \in rows : m < n}
<1>1. before \subseteq rows /\ n \notin before
  BY DEF before
<1>2. IsFiniteSet(before) /\ Cardinality(before) <= Cardinality(rows)
      /\ (Cardinality(before) = Cardinality(rows) => before = rows)
  BY <1>1, FS_Subset
<1>3. Cardinality(before) \in Nat /\ Cardinality(rows) \in Nat
  BY <1>2, FS_CardinalityType
<1>4. Cardinality(before) # Cardinality(rows)
  BY <1>1, <1>2
<1> HIDE DEF before
<1>5. Cardinality(before) \in 0..(Cardinality(rows) - 1)
  BY <1>2, <1>3, <1>4
<1> QED
  BY <1>5 DEF IndexIn, before

\* A number clamped to the rows is one of them.
LEMMA Clamped ==
  ASSUME NEW count \in Nat, count > 0, NEW index \in Int
  PROVE  /\ Most(0, Least(count - 1, index)) \in 0..(count - 1)
         /\ Most(0, Least(index, count - 1)) \in 0..(count - 1)
BY DEF Most, Least

\* What the screen needs after a key: the row drawn next is chosen later.
Pointed ==
  /\ shown' \in Trees \cup {None}
  /\ cursor' \in Int /\ scroll' \in Int
  /\ shown' # None => cursor' \in 0..(Cardinality(Visible') - 1)

\* Opening or closing a directory keeps the cursor within the rows.
LEMMA Reopening ==
  ASSUME Placed, shown # None, NEW open, Reopen(open)
  PROVE  Pointed
<1> DEFINE rows == VisibleOf(shown, open)
<1>1. shown \in Trees /\ cursor \in Int /\ scroll \in Int
  BY ShownCounted DEF Placed
<1>2. Cardinality(rows) \in Nat /\ Cardinality(rows) > 0
  BY <1>1, RowsCounted
<1>3. shown' = shown /\ Visible' = rows
  BY DEF Reopen, Visible, VisibleOf
<1>4. cursor' = Most(0, Least(cursor, Cardinality(rows) - 1))
  BY DEF Reopen
<1>5. scroll' = Most(0, Least(scroll, cursor'))
  BY DEF Reopen
<1> HIDE DEF rows
<1>6. cursor' \in 0..(Cardinality(rows) - 1)
  BY <1>1, <1>2, <1>4, Clamped
<1>7. cursor' \in Int /\ scroll' \in Int
  BY <1>1, <1>2, <1>5, <1>6 DEF Most, Least
<1> QED
  BY <1>1, <1>3, <1>6, <1>7 DEF Pointed

\* Nothing moves.
LEMMA Standing ==
  ASSUME Placed, UNCHANGED browser
  PROVE  Pointed
BY DEF Placed, Pointed, browser, Visible, VisibleOf

\* A move ends within the rows, wherever it aims at.
LEMMA Moving ==
  ASSUME Placed, NEW index \in Int, MoveTo(index)
  PROVE  Pointed
<1>1. shown' = shown /\ scroll' = scroll /\ Visible' = Visible
  BY DEF MoveTo, Visible, VisibleOf
<1>2. CASE shown = None
  BY <1>1, <1>2 DEF MoveTo, Placed, Pointed
<1>3. CASE shown # None
  <2>1. Cardinality(Visible) \in Nat /\ Cardinality(Visible) > 0
    BY <1>3, ShownCounted
  <2>2. cursor' = Most(0, Least(Cardinality(Visible) - 1, index))
    BY <1>3 DEF MoveTo
  <2>3. cursor' \in 0..(Cardinality(Visible) - 1)
    BY <2>1, <2>2, Clamped
  <2>4. cursor' \in Int
    BY <2>1, <2>3
  <2> QED
    BY <1>1, <2>3, <2>4 DEF Placed, Pointed
<1> QED
  BY <1>2, <1>3

\* Every key that browses leaves the cursor on a row.
LEMMA BrowsingPoints ==
  ASSUME Placed, Navigate \/ Open
  PROVE  Pointed
<1>1. /\ cursor \in Int /\ height \in Nat /\ N \in Nat
  BY TerminalAssumption DEF Placed
<1>2. CASE Move(-1) \/ Move(1) \/ Last \/ Page(-1, height) \/ Page(1, height)
  <2>1. PICK size \in Nat : size = Most(1, height)
    BY <1>1 DEF Most
  <2>2. -1 * size \in Int /\ 1 * size \in Int
    BY <2>1
  <2>3. /\ cursor + (-1) \in Int /\ cursor + 1 \in Int
        /\ cursor + (-1 * size) \in Int
        /\ cursor + (1 * size) \in Int
    BY <1>1, <2>2
  <2>4. CASE Last
    BY <1>1, <2>4, Moving DEF Last
  <2>5. CASE Move(-1)
    BY <2>3, <2>5, Moving DEF Move
  <2>6. CASE Move(1)
    BY <2>3, <2>6, Moving DEF Move
  <2>7. CASE Page(-1, height)
    <3>1. MoveTo(cursor + (-1 * size))
      BY <2>1, <2>7 DEF Move, Page
    <3> QED
      BY <2>3, <3>1, Moving
  <2>8. CASE Page(1, height)
    <3>1. MoveTo(cursor + (1 * size))
      BY <2>1, <2>8 DEF Move, Page
    <3> QED
      BY <2>3, <3>1, Moving
  <2> QED
    BY <1>2, <2>4, <2>5, <2>6, <2>7, <2>8
<1>3. CASE First
  <2>1. shown' = shown /\ scroll' = scroll /\ Visible' = Visible /\ cursor' = 0
    BY <1>3 DEF First, Visible, VisibleOf
  <2>2. shown # None => Cardinality(Visible) \in Nat /\ Cardinality(Visible) > 0
    BY ShownCounted
  <2> QED
    BY <2>1, <2>2 DEF Placed, Pointed
<1>4. CASE SelectParent
  <2>1. CASE UNCHANGED browser
    BY <2>1, Standing
  <2>2. ASSUME shown # None, shown[Selected] \in Visible,
               cursor' = IndexIn(Visible, shown[Selected]),
               UNCHANGED <<shown, expanded, scroll>>
        PROVE  Pointed
    <3>1. IsFiniteSet(Visible) /\ Visible \subseteq Nat /\ Cardinality(Visible) \in Nat
      BY <2>2, ShownCounted
    <3>2. cursor' \in 0..(Cardinality(Visible) - 1)
      BY <2>2, <3>1, IndexInside
    <3>3. cursor' \in Int
      BY <3>1, <3>2
    <3>4. Visible' = Visible /\ shown' = shown /\ scroll' = scroll
      BY <2>2 DEF Visible, VisibleOf
    <3> QED
      BY <3>2, <3>3, <3>4 DEF Placed, Pointed
  <2> QED
    BY <1>4, <2>1, <2>2 DEF SelectParent
<1>5. CASE Open
  <2>1. UNCHANGED browser \/ (shown # None /\ \E open : Reopen(open))
    BY <1>5 DEF Open, Toggle, Expand, Collapse
  <2> QED
    BY <2>1, Standing, Reopening
<1> QED
  BY <1>2, <1>3, <1>4, <1>5 DEF Navigate

\* Drawing puts the row on the screen.
LEMMA DrawingShows ==
  ASSUME Placed, Draw
  PROVE  Placed'
<1>1. /\ height' \in Nat /\ shown' = shown /\ Visible' = Visible /\ cursor' = cursor
      /\ cursor \in Int /\ scroll \in Int
  <2>1. height' \in Nat
    BY TerminalAssumption DEF Draw
  <2> QED
    BY <2>1 DEF Draw, Placed, KeepCursorVisible, browser, Visible, VisibleOf
<1>2. CASE shown # None /\ height' > 0
  <2> DEFINE count == Cardinality(Visible)
  <2>1. count \in Nat /\ count > 0 /\ cursor \in 0..(count - 1)
    BY <1>2, ShownCounted DEF Placed
  <2>2. scroll' = Most(0, Least(ScrollTo(height'), Most(0, count - height')))
    BY <1>2 DEF Draw, KeepCursorVisible
  <2> HIDE DEF count
  <2>3. /\ scroll' \in Int /\ cursor \in scroll'..(scroll' + height' - 1)
        /\ scroll' = 0 \/ scroll' + height' <= count
    <3>1. PICK size \in Nat : size = height'
      BY <1>1
    <3>2. PICK aim : aim = ScrollTo(size)
      OBVIOUS
    <3>3. aim = IF cursor < scroll THEN cursor
                ELSE IF cursor >= scroll + size THEN cursor - size + 1
                ELSE scroll
      BY <3>2 DEF ScrollTo
    <3>4. scroll' = Most(0, Least(aim, Most(0, count - size)))
      BY <2>2, <3>1, <3>2
    <3>5. size > 0
      BY <1>2, <3>1
    <3>6. aim \in Int /\ aim <= cursor /\ cursor <= aim + size - 1
      BY <1>1, <3>3, <3>5
    <3>7. PICK last : last = Most(0, count - size)
      OBVIOUS
    <3>8. last \in Nat /\ count <= last + size /\ (last = 0 \/ last + size <= count)
      BY <2>1, <3>7 DEF Most
    <3>9. PICK to : to = scroll'
      OBVIOUS
    <3>10. /\ to \in Int /\ to <= cursor /\ cursor <= to + size - 1
           /\ to = 0 \/ to + size <= count
      BY <1>1, <2>1, <3>4, <3>5, <3>6, <3>7, <3>8, <3>9 DEF Most, Least
    <3>11. cursor \in Int /\ to \in Int /\ size \in Int
      BY <1>1, <3>1, <3>10
    <3>12. PICK end \in Int : end = to + size - 1
      BY <3>11
    <3>13. to <= cursor /\ cursor <= end
      BY <3>10, <3>12
    <3>14. cursor \in to..end
      BY <3>11, <3>13
    <3>15. height' = size /\ scroll' = to
      BY <3>1, <3>9
    <3> QED
      BY <3>10, <3>12, <3>14, <3>15
  <2> QED
    BY <1>1, <2>1, <2>3 DEF Placed, CursorOnScreen, count
<1>3. CASE ~ (shown # None /\ height' > 0)
  <2>1. scroll' = scroll
    BY <1>3 DEF Draw, browser
  <2> QED
    BY <1>1, <1>3, <2>1 DEF Placed, CursorOnScreen
<1> QED
  BY <1>2, <1>3

-----------------------------------------------------------------------------
(* The steps of the scan thread. None of them touches the screen.          *)

\* What the scan thread leaves alone.
LEMMA PlacedStays ==
  ASSUME Placed, UNCHANGED <<main, height, browser>>
  PROVE  Placed'
BY DEF Placed, CursorOnScreen, browser, Visible, VisibleOf

\* A thread that may take a step is the one started last.
LEMMA WorkerIsNewest ==
  ASSUME AppInv, NEW s \in Scans, scan[s].pc \notin {"unborn", "done"}
  PROVE  s = started /\ scanning
<1>1. s \in Nat /\ started \in Nat
  BY TerminalAssumption DEF AppInv, Typed, Scans
<1>2. s = started
  BY <1>1 DEF AppInv, InOrder
<1> QED
  BY <1>2 DEF AppInv, InOrder, Typed

\* The queue grows by an event or an outcome.
LEMMA MessagePosted ==
  ASSUME AppInv, NEW s \in Scans, NEW kind \in {"event", "outcome"},
         NEW snapshot \in Answer, messages' = Append(messages, Message(s, kind, snapshot))
  PROVE  /\ messages' \in Seq(Posted) /\ Len(messages') = Len(messages) + 1
         /\ Len(messages) \in Nat
         /\ \A i \in 1..Len(messages) : messages'[i] = messages[i]
         /\ messages'[Len(messages')].kind = kind
         /\ messages'[Len(messages')].snapshot = snapshot
         /\ Cardinality(Of("event")) \in Nat
         /\ Cardinality(Of("event"))' =
              IF kind = "event" THEN Cardinality(Of("event")) + 1
              ELSE Cardinality(Of("event"))
<1> DEFINE m == Message(s, kind, snapshot)  n == Len(messages)
<1>1. m \in Posted /\ m.kind = kind /\ m.snapshot = snapshot
  BY DEF Message, Posted
<1>2. messages \in Seq(Posted)
  BY DEF AppInv, Typed
<1> HIDE DEF m
<1>3. /\ messages' \in Seq(Posted) /\ Len(messages') = n + 1 /\ n \in Nat
      /\ \A i \in 1..n : messages'[i] = messages[i]
      /\ messages'[n + 1] = m
  BY <1>1, <1>2 DEF m
<1>4. DOMAIN messages = 1..n /\ DOMAIN messages' = 1..(n + 1)
  BY <1>2, <1>3
<1>5. IsFiniteSet(Of("event")) /\ n + 1 \notin Of("event")
  <2>1. Of("event") \subseteq 1..n
    BY <1>4 DEF Of
  <2>2. IsFiniteSet(1..n) /\ n + 1 \notin 1..n
    BY <1>3, FS_Interval
  <2> QED
    BY <2>1, <2>2, FS_Subset
<1>6. Of("event")' = IF kind = "event" THEN Of("event") \cup {n + 1} ELSE Of("event")
  BY <1>1, <1>3, <1>4 DEF Of
<1>7. /\ Cardinality(Of("event")) \in Nat
      /\ Cardinality(Of("event") \cup {n + 1}) = Cardinality(Of("event")) + 1
  BY <1>5, FS_CardinalityType, FS_AddElement
<1>8. Cardinality(Of("event"))' = Cardinality(Of("event")')
  OBVIOUS
<1> QED
  BY <1>1, <1>3, <1>6, <1>7, <1>8

\* A thread takes a step within itself.
LEMMA StageChanges ==
  ASSUME AppInv, NEW s \in Scans, NEW pc \in Stages,
         scan[s].pc \notin {"unborn", "published", "done"},
         pc \notin {"unborn", "published", "done"},
         scan' = [scan EXCEPT ![s].pc = pc], UNCHANGED <<app, browser, active, messages>>
  PROVE  AppInv'
<1>1. s = started /\ scanning
  BY WorkerIsNewest
<1>2. UNCHANGED <<main, height, scanning, quitting, started, seen, browser>>
  BY DEF app
<1>3. shown' = shown
  BY DEF browser
<1>4. Placed'
  BY <1>2, PlacedStays DEF AppInv
<1>5. /\ scan' \in [Scans -> [pc: Stages, events: Nat]]
      /\ scan'[s].pc = pc /\ scan'[s].events = scan[s].events
      /\ \A t \in Scans : t # s => scan'[t] = scan[t]
  BY DEF AppInv, Typed
<1>6. Typed'
  BY <1>2, <1>5 DEF AppInv, Typed
<1>7. InOrder'
  BY <1>1, <1>2, <1>5 DEF AppInv, InOrder
<1>8. Replaced'
  BY <1>1, <1>2, <1>5 DEF AppInv, Replaced
<1>9. Delivered'
  <2>1. \A i \in 1..Len(messages) : messages[i].kind # "outcome"
    BY <1>1 DEF AppInv, Delivered, IsOutcome
  <2>2. Of("event")' = Of("event")
    BY DEF Of
  <2>3. Cardinality(Of("event"))' = Cardinality(Of("event"))
    BY <2>2
  <2> QED
    BY <1>1, <1>2, <1>3, <1>5, <2>1, <2>3 DEF AppInv, Delivered
<1> QED
  BY <1>4, <1>6, <1>7, <1>8, <1>9 DEF AppInv

\* An event is reported.
LEMMA AppReport ==
  ASSUME AppInv, NEW s \in Scans, Report(s)
  PROVE  AppInv'
<1>1. /\ scan[s].pc = "walk" /\ scan' = [scan EXCEPT ![s].events = @ + 1]
      /\ messages' = Append(messages, Message(s, "event", NoSnapshot))
      /\ UNCHANGED <<app, browser, active>>
  BY DEF Report
<1>2. s = started /\ scanning
  BY <1>1, WorkerIsNewest
<1>3. UNCHANGED <<main, height, scanning, quitting, started, seen, browser>> /\ shown' = shown
  BY <1>1 DEF app, browser
<1>4. Placed'
  BY <1>3, PlacedStays DEF AppInv
<1>5. /\ scan' \in [Scans -> [pc: Stages, events: Nat]]
      /\ scan'[s].events = scan[s].events + 1 /\ scan[s].events \in Nat
      /\ \A t \in Scans : scan'[t].pc = scan[t].pc
  <2> DEFINE old == scan[s]  more == old.events + 1
             new == [old EXCEPT !.events = more]
  <2>1. scan \in [Scans -> [pc: Stages, events: Nat]] /\ old \in [pc: Stages, events: Nat]
    BY DEF AppInv, Typed
  <2>2. scan' = [scan EXCEPT ![s] = new]
    BY <1>1
  <2>3. old.events \in Nat /\ more \in Nat
    BY <2>1
  <2> HIDE DEF more
  <2>4. /\ new \in [pc: Stages, events: Nat] /\ new.events = more
        /\ new.pc = old.pc
    BY <2>1, <2>3
  <2> HIDE DEF new
  <2>5. scan' \in [Scans -> [pc: Stages, events: Nat]] /\ scan'[s] = new
        /\ \A t \in Scans : t # s => scan'[t] = scan[t]
    BY <2>1, <2>2, <2>4
  <2> QED
    BY <2>3, <2>4, <2>5 DEF more
<1>6. NoSnapshot \in Answer
  BY TerminalAssumption DEF NoSnapshot, Answer
<1>7. /\ messages' \in Seq(Posted) /\ Len(messages') = Len(messages) + 1
      /\ Len(messages) \in Nat
      /\ \A i \in 1..Len(messages) : messages'[i] = messages[i]
      /\ messages'[Len(messages')].kind = "event"
      /\ Cardinality(Of("event")) \in Nat
      /\ Cardinality(Of("event"))' = Cardinality(Of("event")) + 1
  BY <1>1, <1>6, MessagePosted
<1>8. Typed' /\ InOrder' /\ Replaced'
  BY <1>1, <1>3, <1>5, <1>7 DEF AppInv, Typed, InOrder, Replaced
<1>9. Delivered'
  <2>1. \A i \in 1..Len(messages) : messages[i].kind # "outcome"
    BY <1>1, <1>2 DEF AppInv, Delivered, IsOutcome
  <2>2. \A i \in 1..Len(messages') : messages'[i].kind # "outcome"
    <3>1. \A i \in 1..Len(messages') : i \in 1..Len(messages) \/ i = Len(messages')
      BY <1>7
    <3> QED
      BY <1>7, <2>1, <3>1
  <2>3. seen' + Cardinality(Of("event"))' <= scan'[started'].events
    BY <1>2, <1>3, <1>5, <1>7 DEF AppInv, Typed, Delivered
  <2> QED
    BY <1>1, <1>2, <1>3, <1>5, <2>2, <2>3 DEF AppInv, Delivered
<1> QED
  BY <1>4, <1>8, <1>9 DEF AppInv

\* The Cancellation is registered, and a walk ends, and lets it go.
LEMMA AppStages ==
  ASSUME AppInv, NEW s \in Scans, Register(s) \/ WalkEnds(s) \/ Release(s)
  PROVE  AppInv'
<1>1. CASE Register(s)
  BY <1>1, StageChanges DEF Register, Stages
<1>2. CASE WalkEnds(s)
  BY <1>2, StageChanges DEF WalkEnds, Stages
<1>3. CASE Release(s)
  <2>1. PICK pc \in {"publish", "failed"} : scan' = [scan EXCEPT ![s].pc = pc]
    BY <1>3 DEF Release
  <2> QED
    BY <1>3, <2>1, StageChanges DEF Release, Stages
<1> QED
  BY <1>1, <1>2, <1>3

\* A new snapshot takes the place of the old one.
LEMMA AppPublish ==
  ASSUME AppInv, NEW s \in Scans, Publish(s)
  PROVE  AppInv'
<1>1. /\ scan[s].pc = "publish" /\ scan' = [scan EXCEPT ![s].pc = "published"]
      /\ UNCHANGED <<app, browser, messages>>
  BY DEF Publish
<1>2. PICK tree \in Trees : active' = [scan |-> s, tree |-> tree]
  BY DEF Publish
<1>3. s = started /\ scanning
  BY <1>1, WorkerIsNewest
<1>4. UNCHANGED <<main, height, scanning, quitting, started, seen, browser>> /\ shown' = shown
  BY <1>1 DEF app, browser
<1>5. Placed'
  BY <1>4, PlacedStays DEF AppInv
<1>6. /\ scan' \in [Scans -> [pc: Stages, events: Nat]]
      /\ scan'[s].pc = "published" /\ scan'[s].events = scan[s].events
      /\ \A t \in Scans : t # s => scan'[t] = scan[t]
  BY <1>1 DEF AppInv, Typed, Stages
<1>7. active' \in Answer /\ active'.scan = s
  BY <1>2, TerminalAssumption DEF Answer, Scans
<1>8. Typed'
  BY <1>1, <1>4, <1>6, <1>7 DEF AppInv, Typed
<1>9. InOrder'
  BY <1>1, <1>3, <1>4, <1>6 DEF AppInv, InOrder
<1>10. Replaced'
  <2>1. \A t \in Scans : t # s => scan[t].pc \in {"unborn", "done"}
    BY <1>3, TerminalAssumption DEF AppInv, InOrder, Typed, Scans
  <2> QED
    BY <1>3, <1>6, <1>7, <2>1 DEF Replaced
<1>11. Delivered'
  <2>1. \A i \in 1..Len(messages) : messages[i].kind # "outcome"
    BY <1>1, <1>3 DEF AppInv, Delivered, IsOutcome
  <2>2. Of("event")' = Of("event")
    BY <1>1 DEF Of
  <2>3. Cardinality(Of("event"))' = Cardinality(Of("event"))
    BY <2>2
  <2> QED
    BY <1>1, <1>3, <1>4, <1>6, <2>1, <2>3 DEF AppInv, Delivered
<1> QED
  BY <1>5, <1>8, <1>9, <1>10, <1>11 DEF AppInv

\* The outcome is the last message, and its snapshot is the one that is active.
LEMMA AppFinish ==
  ASSUME AppInv, NEW s \in Scans, Finish(s)
  PROVE  AppInv'
<1> DEFINE outcome == IF Succeeded(s) THEN active ELSE NoSnapshot
<1>1. /\ scan[s].pc \in {"published", "failed"}
      /\ messages' = Append(messages, Message(s, "outcome", outcome))
      /\ scan' = [scan EXCEPT ![s].pc = "done"]
      /\ UNCHANGED <<app, browser, active>>
  BY DEF Finish, Ended
<1>2. s = started /\ scanning
  BY <1>1, WorkerIsNewest
<1>3. UNCHANGED <<main, height, scanning, quitting, started, seen, browser>> /\ shown' = shown
  BY <1>1 DEF app, browser
<1>4. Placed'
  BY <1>3, PlacedStays DEF AppInv
<1>5. /\ scan' \in [Scans -> [pc: Stages, events: Nat]]
      /\ scan'[s].pc = "done" /\ scan'[s].events = scan[s].events
      /\ \A t \in Scans : t # s => scan'[t] = scan[t]
  BY <1>1 DEF AppInv, Typed, Stages
<1>6. NoSnapshot \in Answer
  BY TerminalAssumption DEF NoSnapshot, Answer
<1>7. outcome \in Answer
  BY <1>6 DEF AppInv, Typed
<1>8. \/ outcome = active /\ outcome # NoSnapshot
      \/ outcome = NoSnapshot /\ shown = active.tree
  <2>1. CASE Succeeded(s)
    <3>1. active.scan = s /\ s # 0
      BY <2>1, TerminalAssumption DEF Succeeded, AppInv, Replaced, Scans
    <3> QED
      BY <2>1, <3>1 DEF NoSnapshot
  <2>2. CASE ~ Succeeded(s)
    BY <1>1, <1>2, <2>2 DEF Succeeded, AppInv, Delivered
  <2> QED
    BY <2>1, <2>2
<1> HIDE DEF outcome
<1>9. /\ messages' \in Seq(Posted) /\ Len(messages') = Len(messages) + 1
      /\ Len(messages) \in Nat
      /\ \A i \in 1..Len(messages) : messages'[i] = messages[i]
      /\ messages'[Len(messages')].kind = "outcome"
      /\ messages'[Len(messages')].snapshot = outcome
      /\ Cardinality(Of("event"))' = Cardinality(Of("event"))
  BY <1>1, <1>7, MessagePosted
<1>10. Typed'
  BY <1>1, <1>3, <1>5, <1>9 DEF AppInv, Typed
<1>11. InOrder'
  BY <1>2, <1>3, <1>5 DEF AppInv, InOrder
<1>12. Replaced'
  BY <1>1, <1>2, <1>5 DEF AppInv, Replaced
<1>13. Delivered'
  <2>1. \A i \in 1..Len(messages) : messages[i].kind # "outcome"
    BY <1>1, <1>2 DEF AppInv, Delivered, IsOutcome
  <2>2. \A i \in 1..Len(messages') : i \in 1..Len(messages) \/ i = Len(messages')
    BY <1>9
  <2>3. \A i \in 1..Len(messages') : messages'[i].kind = "outcome" => i = Len(messages')
    BY <1>9, <2>1, <2>2
  <2>4. IF messages'[Len(messages')].snapshot = NoSnapshot THEN shown' = active'.tree
        ELSE messages'[Len(messages')].snapshot = active'
    BY <1>1, <1>3, <1>8, <1>9
  <2>5. scan'[started'].pc = "done"
    BY <1>2, <1>3, <1>5
  <2>6. NoSnapshot' = NoSnapshot
    BY DEF NoSnapshot
  <2>7. \A i \in 1..Len(messages') : messages'[i].kind = "outcome" => IsOutcome(i)'
    BY <2>3, <2>4, <2>5, <2>6 DEF IsOutcome
  <2>8. seen' + Cardinality(Of("event"))' <= scan'[started'].events
    BY <1>2, <1>3, <1>5, <1>9 DEF AppInv, Delivered
  <2>9. scanning'
    BY <1>2, <1>3
  <2> QED
    BY <2>5, <2>7, <2>8, <2>9 DEF Delivered
<1> QED
  BY <1>4, <1>10, <1>11, <1>12, <1>13 DEF AppInv

-----------------------------------------------------------------------------
(* The steps of the main thread.                                           *)

\* Away from the wait for a key the cursor need only be on a row.
LEMMA PointedPlaces ==
  ASSUME Pointed, height' \in Nat, main' # "key"
  PROVE  Placed'
BY DEF Pointed, Placed, CursorOnScreen

\* What a step that leaves scans, snapshots and messages alone has to keep.
LEMMA OnlyPlacing ==
  ASSUME AppInv, Placed',
         UNCHANGED <<scanning, started, seen, scan, active, messages, shown>>
  PROVE  AppInv'
<1>1. Of("event")' = Of("event")
  BY DEF Of
<1>2. Cardinality(Of("event"))' = Cardinality(Of("event"))
  BY <1>1
<1>3. Typed' /\ InOrder' /\ Replaced'
  BY DEF AppInv, Typed, InOrder, Replaced
<1>4. Delivered'
  BY <1>2 DEF AppInv, Delivered, IsOutcome
<1> QED
  BY <1>3, <1>4 DEF AppInv

\* The messages are taken, and with the outcome the snapshot it brings.
LEMMA AppPoll ==
  ASSUME AppInv, Poll
  PROVE  AppInv'
<1>1. /\ messages' = <<>> /\ scanning' = (scanning /\ ~ HasOutcome)
      /\ seen' = seen + Cardinality(Of("event"))
      /\ UNCHANGED <<height, started, scan, active>>
      /\ main' \in {"exited", "draw"}
  BY DEF Poll
<1>2. /\ messages \in Seq(Posted) /\ DOMAIN messages = 1..Len(messages)
      /\ active \in Answer
  BY DEF AppInv, Typed
<1>3. \A i \in Of("outcome") : IsOutcome(i)
  BY <1>2 DEF Of, AppInv, Delivered
<1>4. HasOutcome => shown' = active.tree /\ scan[started].pc = "done"
  <2> SUFFICES ASSUME HasOutcome
               PROVE  shown' = active.tree /\ scan[started].pc = "done"
    OBVIOUS
  <2>1. Of("outcome") = {Len(messages)} /\ IsOutcome(Len(messages))
    BY <1>3 DEF HasOutcome, IsOutcome
  <2>2. CASE HasSnapshot
    <3>1. Snapshots = {Len(messages)}
      BY <2>1, <2>2 DEF HasSnapshot, Snapshots
    <3>2. Max(Snapshots) = Len(messages)
      BY <1>2, <3>1 DEF Max
    <3>3. messages[Len(messages)].snapshot # NoSnapshot
      BY <3>1 DEF Snapshots
    <3> QED
      BY <2>1, <2>2, <3>2, <3>3 DEF IsOutcome, Poll, SetSnapshot
  <2>3. CASE ~ HasSnapshot
    <3>1. messages[Len(messages)].snapshot = NoSnapshot
      BY <2>1, <2>3 DEF HasSnapshot, Snapshots
    <3> QED
      BY <2>1, <2>3, <3>1 DEF IsOutcome, Poll, browser
  <2> QED
    BY <2>2, <2>3
<1>5. ~ HasOutcome => UNCHANGED browser /\ scanning' = scanning
  BY <1>1 DEF HasOutcome, HasSnapshot, Snapshots, Poll, AppInv, Typed
<1>6. Cardinality(Of("event"))' = 0 /\ Cardinality(Of("event")) \in Nat
  <2>1. Of("event")' = {}
    BY <1>1 DEF Of
  <2>2. Of("event") \subseteq 1..Len(messages)
    BY <1>2 DEF Of
  <2>3. IsFiniteSet(Of("event"))
    BY <1>2, <2>2, FS_Interval, FS_Subset
  <2>4. Cardinality({}) = 0
    BY FS_EmptySet
  <2> QED
    BY <2>1, <2>3, <2>4, FS_CardinalityType
<1>7. Typed'
  BY <1>1, <1>6 DEF AppInv, Typed
<1>8. InOrder'
  BY <1>1, <1>4, <1>5 DEF AppInv, InOrder
<1>9. Replaced'
  BY <1>1 DEF AppInv, Replaced
<1>10. Delivered'
  <2>1. seen' + Cardinality(Of("event"))' <= scan'[started'].events
    <3>1. scan[started].events \in Nat /\ seen \in Nat
      BY DEF AppInv, Typed
    <3> QED
      BY <1>1, <1>6, <3>1 DEF AppInv, Delivered
  <2>2. shown' = active'.tree \/ (~ HasOutcome /\ shown' = shown)
    BY <1>1, <1>4, <1>5 DEF browser
  <2>3. ~ scanning' => shown' = active'.tree
    BY <1>1, <1>4, <1>5, <2>2 DEF AppInv, Delivered
  <2>4. scan'[started'].pc \notin {"published", "done"} => shown' = active'.tree
    BY <1>1, <2>2 DEF AppInv, Delivered
  <2>5. Len(messages') = 0
    BY <1>1
  <2> QED
    BY <1>1, <2>1, <2>3, <2>4, <2>5 DEF Delivered
<1>11. Placed'
  <2>1. CASE HasSnapshot
    <3>1. PICK tree : SetSnapshot(tree)
      BY <2>1 DEF Poll
    <3>2. shown' \in Trees \cup {None}
      BY <1>2, <1>4, <2>1 DEF HasSnapshot, HasOutcome, Snapshots, Answer
    <3>3. shown' # None => Visible' = VisibleOf(shown', {0})
      BY <3>1 DEF SetSnapshot, Visible, VisibleOf
    <3>4. shown' # None => Cardinality(Visible') \in Nat /\ Cardinality(Visible') > 0
      BY <3>2, <3>3, RowsCounted
    <3>5. cursor' = 0 /\ scroll' = 0
      BY <3>1 DEF SetSnapshot
    <3>6. Pointed
      BY <3>2, <3>4, <3>5 DEF Pointed
    <3> QED
      BY <1>1, <3>6, PointedPlaces DEF AppInv, Placed
  <2>2. CASE ~ HasSnapshot
    <3>1. Pointed
      BY <2>2, Standing DEF Poll, AppInv
    <3> QED
      BY <1>1, <3>1, PointedPlaces DEF AppInv, Placed
  <2> QED
    BY <2>1, <2>2
<1> QED
  BY <1>7, <1>8, <1>9, <1>10, <1>11 DEF AppInv

\* A frame is drawn.
LEMMA AppDraw ==
  ASSUME AppInv, Draw
  PROVE  AppInv'
<1>1. Placed'
  BY DrawingShows DEF AppInv
<1>2. UNCHANGED <<scanning, started, seen, scan, active, messages, shown>>
  BY DEF Draw, controller, browser, KeepCursorVisible
<1> QED
  BY <1>1, <1>2, OnlyPlacing

\* A key that browses.
LEMMA AppBrowse ==
  ASSUME AppInv, KeyBrowse
  PROVE  AppInv'
<1>1. Pointed
  BY BrowsingPoints DEF KeyBrowse, AppInv
<1>2. Placed'
  BY <1>1, PointedPlaces DEF KeyBrowse, AtKey, AppInv, Placed
<1>3. shown' = shown
  BY DEF KeyBrowse, Navigate, Open, Move, First, Last, Page, SelectParent, MoveTo,
         Toggle, Expand, Collapse, Reopen, browser
<1> QED
  BY <1>2, <1>3, OnlyPlacing DEF KeyBrowse, controller

\* No key, the end of the program or of the scan.
LEMMA AppWaits ==
  ASSUME AppInv, Idle \/ KeyQuit \/ Interrupt
  PROVE  AppInv'
<1>1. UNCHANGED browser /\ height' = height /\ main' # "key"
  BY DEF Idle, KeyQuit, Interrupt, AtKey
<1>2. Placed'
  BY <1>1, Standing, PointedPlaces DEF AppInv, Placed
<1>3. UNCHANGED <<scanning, started, seen, scan, active, messages, shown>>
  BY DEF Idle, KeyQuit, Interrupt, Cancel, controller, browser
<1> QED
  BY <1>2, <1>3, OnlyPlacing

\* The next scan is started when the outcome of the last one is seen.
LEMMA AppRescan ==
  ASSUME AppInv, KeyRescan
  PROVE  AppInv'
<1>1. /\ ~ scanning /\ started < MaxScans /\ scanning' = TRUE
      /\ started' = started + 1 /\ seen' = 0
      /\ scan' = [scan EXCEPT ![started'].pc = "created"]
      /\ UNCHANGED <<height, active, messages, browser>> /\ main' = "poll"
  BY DEF KeyRescan, AtKey, MayStart, FreshCount
<1>2. started \in Nat /\ started' \in Scans
  BY <1>1, TerminalAssumption DEF AppInv, Typed, Scans
<1>3. scan[started].pc = "done" /\ scan[started'].pc = "unborn"
  BY <1>1, <1>2 DEF AppInv, InOrder
<1>4. /\ scan' \in [Scans -> [pc: Stages, events: Nat]]
      /\ scan'[started'].pc = "created" /\ scan'[started'].events \in Nat
      /\ \A t \in Scans : t # started' => scan'[t] = scan[t]
  BY <1>1, <1>2 DEF AppInv, Typed, Stages
<1>5. Typed'
  BY <1>1, <1>2, <1>4 DEF AppInv, Typed
<1>6. InOrder'
  <2>1. \A t \in Scans : t \in Nat
    BY TerminalAssumption DEF Scans
  <2>2. \A t \in Scans : t > started' => t # started' /\ t > started
    BY <1>1, <1>2, <2>1
  <2>3. \A t \in Scans : t < started' => t # started' /\ (t < started \/ t = started)
    BY <1>1, <1>2, <2>1
  <2> QED
    BY <1>1, <1>3, <1>4, <2>2, <2>3 DEF AppInv, InOrder
<1>7. Replaced'
  BY <1>1, <1>2, <1>3, <1>4 DEF AppInv, Replaced
<1>8. messages' = <<>> /\ shown' = active'.tree
  BY <1>1 DEF AppInv, Delivered, browser
<1>9. Delivered'
  <2>1. Of("event")' = {} /\ Len(messages') = 0
    BY <1>8 DEF Of
  <2>2. Cardinality(Of("event"))' = 0
    BY <2>1, FS_EmptySet
  <2> QED
    BY <1>1, <1>4, <1>8, <2>1, <2>2 DEF Delivered
<1>10. Placed'
  BY <1>1, Standing, PointedPlaces DEF AppInv, Placed
<1> QED
  BY <1>5, <1>6, <1>7, <1>9, <1>10 DEF AppInv

\* The invariant holds at the start.
LEMMA AppStarts == Init => AppInv
<1> SUFFICES ASSUME Init PROVE AppInv
  OBVIOUS
<1>1. 1 \in Scans /\ Scans \subseteq Nat \ {0}
  BY TerminalAssumption DEF Scans
<1>2. Typed
  <2>1. scan \in [Scans -> [pc: Stages, events: Nat]]
    BY DEF Init, Stages
  <2>2. active \in Answer
    BY TerminalAssumption DEF Init, NoSnapshot, Answer
  <2>3. messages \in Seq(Posted)
    BY DEF Init
  <2> QED
    BY <1>1, <2>1, <2>2, <2>3 DEF Init, Typed
<1>3. InOrder
  BY <1>1 DEF Init, InOrder, Scans
<1>4. Replaced
  BY <1>1 DEF Init, Replaced, NoSnapshot
<1>5. Delivered
  <2>1. messages = <<>> /\ Len(messages) = 0
    BY DEF Init
  <2>2. Of("event") = {}
    BY <2>1 DEF Of
  <2>3. Cardinality(Of("event")) = 0
    BY <2>2, FS_EmptySet
  <2>4. shown = active.tree
    BY DEF Init, BrowserInit, NoSnapshot
  <2>5. scanning /\ seen = 0 /\ scan[started].events = 0
    BY <1>1 DEF Init
  <2> QED
    BY <2>1, <2>3, <2>4, <2>5 DEF Delivered
<1>6. Placed
  BY DEF Init, BrowserInit, Placed, CursorOnScreen
<1> QED
  BY <1>2, <1>3, <1>4, <1>5, <1>6 DEF AppInv

\* A step that changes nothing keeps the invariant.
LEMMA AppStutters ==
  ASSUME AppInv, UNCHANGED vars
  PROVE  AppInv'
<1>1. UNCHANGED <<main, height, scanning, started, seen, scan, active, messages,
                  shown, browser>>
  BY DEF vars, app, controller, browser
<1>2. Placed'
  BY <1>1, PlacedStays DEF AppInv
<1> QED
  BY <1>1, <1>2, OnlyPlacing

\* Every step keeps the invariant.
LEMMA AppInductive == AppInv /\ [Next]_vars => AppInv'
<1> SUFFICES ASSUME AppInv, [Next]_vars PROVE AppInv'
  OBVIOUS
<1>1. CASE Loop
  BY <1>1, AppPoll, AppDraw, AppWaits, AppRescan, AppBrowse DEF Loop
<1>2. CASE Interrupt
  BY <1>2, AppWaits
<1>3. CASE \E s \in Scans : Worker(s)
  BY <1>3, AppStages, AppReport, AppPublish, AppFinish DEF Worker
<1>4. CASE UNCHANGED vars
  BY <1>4, AppStutters
<1> QED
  BY <1>1, <1>2, <1>3, <1>4 DEF Next

\* The invariant holds throughout.
LEMMA AppCorrect == Spec => []AppInv
BY AppStarts, AppInductive, PTL DEF Spec

-----------------------------------------------------------------------------
(* The results.                                                            *)

\* start_scan (tui/app.py) never lets two scans run, however the keys, the
\* queue and the thread interleave: while one runs, or its outcome waits in
\* the queue, scanning is set.
THEOREM OneScanCorrect == Spec => []OneScanAtATime
<1>1. AppInv => OneScanAtATime
  <2> SUFFICES ASSUME AppInv PROVE OneScanAtATime
    OBVIOUS
  <2>1. \A s \in Scans : Running(s) => s = started /\ scanning
    BY WorkerIsNewest DEF Running
  <2> QED
    BY <2>1 DEF OneScanAtATime
<1> QED
  BY AppCorrect, <1>1, PTL

\* process_messages (tui/app.py): when no scan is under way the snapshot that
\* is browsed is the one the scan thread published last, and the progress on
\* the screen never exceeds what the current scan reported.
THEOREM NewestCorrect == Spec => []BrowsesTheNewest
<1>1. AppInv => BrowsesTheNewest
  <2> SUFFICES ASSUME AppInv PROVE BrowsesTheNewest
    OBVIOUS
  <2>1. Of("event") \subseteq 1..Len(messages) /\ Len(messages) \in Nat
    BY DEF AppInv, Typed, Of
  <2>2. IsFiniteSet(1..Len(messages))
    BY <2>1, FS_Interval
  <2>3. Cardinality(Of("event")) \in Nat
    BY <2>1, <2>2, FS_Subset, FS_CardinalityType
  <2>4. seen \in Nat /\ scan[started].events \in Nat
    BY DEF AppInv, Typed
  <2> QED
    BY <2>3, <2>4 DEF AppInv, Delivered, BrowsesTheNewest
<1> QED
  BY AppCorrect, <1>1, PTL

\* keep_cursor_visible (tui/controller.py): whenever a key is awaited the
\* selected row is on the screen, and the screen is as full as it can be, for
\* every tree, every sequence of keys and every change of the screen's size.
THEOREM CursorCorrect == Spec => []CursorOnScreen
<1>1. AppInv => CursorOnScreen
  BY DEF AppInv, Placed
<1> QED
  BY AppCorrect, <1>1, PTL

\* A scan that was cancelled or failed, and will not publish.
Lost(s) ==
  \/ scan[s].pc = "walk" /\ s \in cancelled
  \/ scan[s].pc \in {"cancelled", "error", "failed"}
  \/ scan[s].pc = "done" /\ active.scan # s

\* A lost scan stays lost: nothing takes its Cancellation back, and only a
\* thread that passed its last look at it publishes.
LEMMA LostStaysLost ==
  ASSUME AppInv, NEW s \in Scans, Lost(s), [Next]_vars
  PROVE  Lost(s)'
<1>1. /\ scan \in [Scans -> [pc: Stages, events: Nat]]
      /\ scan[s].pc \in {"walk", "cancelled", "error", "failed", "done"}
  BY DEF AppInv, Typed, Lost
<1>2. CASE UNCHANGED <<scan, active>> /\ cancelled \subseteq cancelled'
  BY <1>2 DEF Lost
<1>3. CASE KeyRescan
  <2>1. started' \in Scans /\ scan[started'].pc = "unborn"
    BY <1>3, TerminalAssumption
       DEF KeyRescan, AppInv, Typed, InOrder, Scans
  <2>2. s # started'
    BY <1>1, <2>1
  <2>3. scan'[s] = scan[s]
    BY <1>1, <1>3, <2>2 DEF KeyRescan
  <2> QED
    BY <1>3, <2>3 DEF KeyRescan, Lost
<1>4. ASSUME NEW t \in Scans, Worker(t)
      PROVE  Lost(s)'
  <2>1. cancelled' = cancelled
    BY <1>4 DEF Worker, Register, Report, WalkEnds, Release, Publish, Finish
  <2>2. CASE t # s
    <3>1. scan'[s] = scan[s]
      BY <1>1, <1>4, <2>2 DEF Worker, Register, Report, WalkEnds, Release, Publish, Finish
    <3>2. active' = active \/ active'.scan = t
      BY <1>4 DEF Worker, Register, Report, WalkEnds, Release, Publish, Finish
    <3> QED
      BY <2>1, <2>2, <3>1, <3>2 DEF Lost
  <2>3. CASE t = s
    <3>1. CASE WalkEnds(s)
      <4>1. scan'[s].pc \in {"cancelled", "error"}
        BY <1>1, <3>1 DEF WalkEnds, NotCancelled, Lost
      <4> QED
        BY <4>1 DEF Lost
    <3>2. CASE Release(s)
      <4>1. scan'[s].pc = "failed"
        BY <1>1, <3>2 DEF Release
      <4> QED
        BY <4>1 DEF Lost
    <3>3. CASE Finish(s)
      <4>1. scan[s].pc = "failed" /\ active' = active
        BY <1>1, <3>3 DEF Finish, Ended
      <4>2. active.scan # s
        BY <4>1 DEF AppInv, Replaced
      <4>3. scan'[s].pc = "done"
        BY <1>1, <3>3 DEF Finish
      <4> QED
        BY <4>1, <4>2, <4>3 DEF Lost
    <3>4. ~ Register(s) /\ ~ Report(s) /\ ~ Publish(s)
      BY DEF Lost, Register, Report, Publish
    <3> QED
      BY <1>4, <2>3, <3>1, <3>2, <3>3, <3>4 DEF Worker
  <2> QED
    BY <2>2, <2>3
<1>5. Poll \/ Draw \/ Idle \/ KeyQuit \/ KeyBrowse \/ Interrupt \/ UNCHANGED vars
      => UNCHANGED <<scan, active>> /\ cancelled \subseteq cancelled'
  BY DEF Poll, Draw, Idle, KeyQuit, KeyBrowse, Interrupt, Cancel, vars, controller
<1> QED
  BY <1>2, <1>3, <1>4, <1>5 DEF Next, Loop

\* ScanController.scan (tui/controller.py): once a scan is cancelled before its
\* last look at the Cancellation, or has failed, the snapshot is never its own.
THEOREM CancelledCorrect == Spec => CancelledNeverReplaces
<1> SUFFICES ASSUME NEW s \in Scans
             PROVE  Spec => [](\/ scan[s].pc = "walk" /\ s \in cancelled
                               \/ scan[s].pc \in {"cancelled", "error", "failed"}
                               => [](active.scan # s))
  BY DEF CancelledNeverReplaces
<1>1. (\/ scan[s].pc = "walk" /\ s \in cancelled
       \/ scan[s].pc \in {"cancelled", "error", "failed"}) => Lost(s)
  BY DEF Lost
<1>2. AppInv /\ Lost(s) => active.scan # s
  BY DEF AppInv, Replaced, Lost
<1>3. AppInv /\ Lost(s) /\ [Next]_vars => Lost(s)'
  BY LostStaysLost
<1> QED
  BY AppCorrect, <1>1, <1>2, <1>3, PTL DEF Spec

-----------------------------------------------------------------------------
(* The selection. The rows before the selected one do not depend on whether *)
(* that is open, since the directories above a row have smaller numbers;    *)
(* so its index stays, and the cursor, which is an index, points at it.     *)

\* The directories above one, with it: as far as N steps up lead.
LEMMA AncestorsRise ==
  ASSUME NEW tree \in Snapshot, NEW n \in {0} \cup DOMAIN tree
  PROVE  /\ n \in 0..N /\ \A m \in (0..n) \ {0} : tree[m] \in 0..n /\ tree[m] < m
         /\ \E up \in [0..N -> SUBSET (0..n)] :
              /\ up[0] = {n} /\ up[N] = Ancestors(tree, n)
              /\ \A k \in 1..N :
                   up[k] = up[k - 1] \cup {tree[m] : m \in up[k - 1] \ {0}}
<1> DEFINE D == SUBSET (0..n)
           F == [S \in D |-> S \cup {tree[m] : m \in S \ {0}}]
           Rec(f) == [k \in 0..N |->
             IF k = 0 THEN {n} ELSE f[k-1] \cup {tree[m] : m \in f[k-1] \ {0}}]
           up == CHOOSE f : f = Rec(f)
<1>1. PICK last \in 0..N : /\ tree \in [1..last -> 0..last]
                           /\ \A m \in DOMAIN tree : tree[m] < m
  BY DEF Snapshot
<1>2. N \in Nat /\ last \in Nat /\ n \in 0..last /\ n \in 0..N
  BY <1>1, TerminalAssumption
<1>3. \A m \in (0..n) \ {0} : tree[m] \in 0..n /\ tree[m] < m
  BY <1>1, <1>2
<1>4. F \in [D -> D] /\ {n} \in D
  <2>1. {n} \in D
    BY <1>2
  <2>2. ASSUME NEW S \in D PROVE S \cup {tree[m] : m \in S \ {0}} \in D
    BY <1>3
  <2> HIDE DEF D
  <2> QED
    BY <2>1, <2>2
<1>5. PICK f \in [0..N -> D] : f[0] = {n} /\ \A k \in 1..N : f[k] = F[f[k - 1]]
  <2> DEFINE x == {n}
  <2>1. x \in D /\ F \in [D -> D] /\ N \in Nat
    BY <1>2, <1>4
  <2> HIDE DEF D, F, x
  <2>2. Iterates(D, x, F, N) # {}
    BY <2>1, Iterated
  <2> QED
    BY <2>2 DEF Iterates, x
<1>6. f = Rec(f)
  <2>1. ASSUME NEW k \in 0..N, k # 0
        PROVE  f[k] = f[k-1] \cup {tree[m] : m \in f[k-1] \ {0}}
    <3>1. k \in 1..N /\ k - 1 \in 0..N
      BY <1>2, <2>1
    <3>2. f[k - 1] \in D /\ f[k] = F[f[k - 1]]
      BY <1>5, <3>1
    <3> HIDE DEF D
    <3> QED
      BY <3>2
  <2> QED
    BY <1>5, <2>1
<1>7. up = Rec(up)
  BY <1>6
<1>8. Ancestors(tree, n) = up[N]
  BY DEF Ancestors
<1> HIDE DEF up
<1>9. /\ up[0] = {n}
      /\ \A k \in 1..N : up[k] = up[k - 1] \cup {tree[m] : m \in up[k - 1] \ {0}}
  BY <1>2, <1>7
<1>10. \A k \in 0..N : up[k] \in D
  <2> DEFINE S == {k \in Nat : k <= N => up[k] \in D}
  <2>1. 0 \in S
    BY <1>4, <1>9
  <2>2. ASSUME NEW k \in Nat, k \in S PROVE k + 1 \in S
    <3>1. ASSUME k + 1 <= N PROVE up[k + 1] \in D
      <4>1. k + 1 \in 1..N /\ (k + 1) - 1 = k /\ up[k] \in D
        BY <1>2, <2>2, <3>1
      <4>2. up[k + 1] = up[k] \cup {tree[m] : m \in up[k] \ {0}}
        BY <1>9, <4>1
      <4> QED
        BY <1>3, <4>1, <4>2
    <3> QED
      BY <3>1
  <2> HIDE DEF D
  <2>3. Nat \subseteq S
    <3> HIDE DEF S
    <3> QED
      BY <2>1, <2>2, Induction
  <2> QED
    BY <1>2, <2>3
<1>11. up \in [0..N -> D]
  BY <1>7, <1>10
<1> QED
  BY <1>2, <1>3, <1>8, <1>9, <1>11

\* They are all: what is above one of them is one, too. Each step up that adds
\* a directory adds a smaller number than the one before.
LEMMA AncestorsClosed ==
  ASSUME NEW tree \in Snapshot, NEW n \in {0} \cup DOMAIN tree
  PROVE  /\ n \in Ancestors(tree, n) /\ Ancestors(tree, n) \subseteq 0..n
         /\ \A m \in Ancestors(tree, n) \ {0} : tree[m] \in Ancestors(tree, n)
<1>1. /\ n \in 0..N /\ N \in Nat
      /\ \A m \in (0..n) \ {0} : tree[m] \in 0..n /\ tree[m] < m
  BY AncestorsRise, TerminalAssumption
<1>2. PICK up \in [0..N -> SUBSET (0..n)] :
        /\ up[0] = {n} /\ up[N] = Ancestors(tree, n)
        /\ \A k \in 1..N : up[k] = up[k - 1] \cup {tree[m] : m \in up[k - 1] \ {0}}
  BY AncestorsRise
<1> DEFINE Settled(k, m) == m <= n - k \/ m = 0 \/ tree[m] \in up[k]
           S == {k \in Nat : k <= N => n \in up[k] /\ \A m \in up[k] : Settled(k, m)}
<1>3. 0 \in S
  BY <1>1, <1>2
<1>4. ASSUME NEW k \in Nat, k \in S PROVE k + 1 \in S
  <2> SUFFICES ASSUME k + 1 <= N
               PROVE  n \in up[k + 1] /\ \A m \in up[k + 1] : Settled(k + 1, m)
    OBVIOUS
  <2>1. /\ up[k + 1] = up[k] \cup {tree[m] : m \in up[k] \ {0}}
        /\ n \in up[k] /\ up[k] \subseteq 0..n
        /\ \A m \in up[k] : Settled(k, m)
    <3>1. k + 1 \in 1..N /\ (k + 1) - 1 = k /\ k \in 0..N /\ k <= N
      BY <1>1
    <3> QED
      BY <1>2, <1>4, <3>1
  <2>2. ASSUME NEW m \in up[k] PROVE Settled(k + 1, m)
    BY <2>1, <2>2
  <2>3. ASSUME NEW m \in up[k] \ {0} PROVE Settled(k + 1, tree[m])
    <3>1. CASE tree[m] \in up[k]
      BY <2>2, <3>1
    <3>2. CASE tree[m] \notin up[k]
      <4>1. m <= n - k /\ tree[m] < m /\ tree[m] \in Int /\ m \in Int /\ n \in Int
        BY <1>1, <2>1, <3>2
      <4>2. tree[m] <= n - (k + 1)
        BY <4>1
      <4> QED
        BY <4>2
    <3> QED
      BY <3>1, <3>2
  <2> QED
    BY <2>1, <2>2, <2>3
<1>5. Nat \subseteq S
  <2> HIDE DEF S
  <2> QED
    BY <1>3, <1>4, Induction
<1>6. n \in up[N] /\ up[N] \subseteq 0..n /\ \A m \in up[N] : Settled(N, m)
  BY <1>1, <1>2, <1>5
<1>7. ASSUME NEW m \in up[N] \ {0} PROVE tree[m] \in up[N]
  BY <1>1, <1>6
<1> QED
  BY <1>2, <1>6, <1>7

\* Whatever has a directory, and what is above each of its members, has all
\* those above the directory.
LEMMA AncestorsLeast ==
  ASSUME NEW tree \in Snapshot, NEW n \in {0} \cup DOMAIN tree, NEW U,
         n \in U, \A m \in U \ {0} : tree[m] \in U
  PROVE  Ancestors(tree, n) \subseteq U
<1>1. N \in Nat
  BY TerminalAssumption
<1>2. PICK up \in [0..N -> SUBSET (0..n)] :
        /\ up[0] = {n} /\ up[N] = Ancestors(tree, n)
        /\ \A k \in 1..N : up[k] = up[k - 1] \cup {tree[m] : m \in up[k - 1] \ {0}}
  BY AncestorsRise
<1> DEFINE S == {k \in Nat : k <= N => up[k] \subseteq U}
<1>3. 0 \in S
  BY <1>2
<1>4. ASSUME NEW k \in Nat, k \in S PROVE k + 1 \in S
  <2>1. ASSUME k + 1 <= N PROVE up[k + 1] \subseteq U
    <3>1. k + 1 \in 1..N /\ (k + 1) - 1 = k /\ up[k] \subseteq U
      BY <1>1, <1>4, <2>1
    <3>2. up[k + 1] = up[k] \cup {tree[m] : m \in up[k] \ {0}}
      BY <1>2, <3>1
    <3> QED
      BY <3>1, <3>2
  <2> QED
    BY <2>1
<1>5. Nat \subseteq S
  <2> HIDE DEF S
  <2> QED
    BY <1>3, <1>4, Induction
<1> QED
  BY <1>1, <1>2, <1>5

\* A directory's row has the row of the directory above it, so that the rows
\* hang together.
LEMMA RowsHang ==
  ASSUME NEW tree \in Trees, NEW open, NEW n \in VisibleOf(tree, open), n # 0
  PROVE  tree[n] \in VisibleOf(tree, open)
<1>1. tree \in Snapshot
  BY TerminalAssumption
<1>2. n \in DOMAIN tree /\ Ancestors(tree, n) \ {n} \subseteq open
  BY DEF VisibleOf
<1>3. tree[n] < n /\ tree[n] \in {0} \cup DOMAIN tree /\ n \in Int /\ tree[n] \in Int
  BY <1>1, <1>2, TerminalAssumption DEF Snapshot
<1>4. Ancestors(tree, tree[n]) \subseteq Ancestors(tree, n)
  BY <1>1, <1>2, <1>3, AncestorsClosed, AncestorsLeast
<1>5. n \notin Ancestors(tree, tree[n])
  <2>1. Ancestors(tree, tree[n]) \subseteq 0..tree[n]
    BY <1>1, <1>3, AncestorsClosed
  <2> QED
    BY <1>3, <2>1
<1>6. Ancestors(tree, tree[n]) \ {tree[n]} \subseteq open
  BY <1>2, <1>4, <1>5
<1> QED
  BY <1>3, <1>6 DEF VisibleOf

\* The rows before one, and that one, are the same whether it is open or not.
LEMMA RowsBefore ==
  ASSUME NEW tree \in Trees, NEW open, NEW wide, NEW s,
         open \ {s} = wide \ {s}, s \in VisibleOf(tree, open)
  PROVE  /\ s \in VisibleOf(tree, wide)
         /\ IndexIn(VisibleOf(tree, wide), s) = IndexIn(VisibleOf(tree, open), s)
<1>1. tree \in Snapshot /\ s \in Nat
  BY RowsCounted, TerminalAssumption
<1>2. ASSUME NEW n \in DOMAIN tree, n <= s
      PROVE  Ancestors(tree, n) \ {n} \subseteq open
               <=> Ancestors(tree, n) \ {n} \subseteq wide
  <2>1. Ancestors(tree, n) \subseteq 0..n /\ n \in Int
    BY <1>1, <1>2, AncestorsClosed, TerminalAssumption DEF Snapshot
  <2>2. s \notin Ancestors(tree, n) \ {n}
    BY <1>1, <1>2, <2>1
  <2> QED
    BY <2>2
<1>3. \A n \in {0} \cup DOMAIN tree : n <= s =>
        (n \in VisibleOf(tree, open) <=> n \in VisibleOf(tree, wide))
  BY <1>2 DEF VisibleOf
<1>4. s <= s /\ s \in {0} \cup DOMAIN tree
  BY <1>1 DEF VisibleOf
<1>6. {m \in VisibleOf(tree, wide) : m < s} = {m \in VisibleOf(tree, open) : m < s}
  <2>1. VisibleOf(tree, open) \subseteq Nat /\ VisibleOf(tree, wide) \subseteq Nat
    BY RowsCounted
  <2>2. \A m \in Nat : m < s => m <= s
    BY <1>1
  <2>3. VisibleOf(tree, open) \cup VisibleOf(tree, wide) \subseteq {0} \cup DOMAIN tree
    BY DEF VisibleOf
  <2> QED
    BY <1>3, <2>1, <2>2, <2>3
<1> QED
  BY <1>3, <1>4, <1>6 DEF IndexIn

\* The later of two rows has the greater index.
LEMMA IndexGrows ==
  ASSUME NEW rows, IsFiniteSet(rows), rows \subseteq Nat,
         NEW n \in rows, NEW m \in rows, n < m
  PROVE  IndexIn(rows, n) < IndexIn(rows, m)
<1> DEFINE a == {k \in rows : k < n}  b == {k \in rows : k < m}
<1>1. a \subseteq b /\ n \in b /\ n \notin a
  <2>1. ASSUME NEW k \in a PROVE k \in b
    <3>1. k \in Nat /\ n \in Nat /\ m \in Nat /\ k < n
      OBVIOUS
    <3>2. k < m
      BY <3>1
    <3> QED
      BY <3>2
  <2>2. n \in b /\ ~ (n < n)
    OBVIOUS
  <2> QED
    BY <2>1, <2>2
<1>2. IsFiniteSet(b) /\ b \subseteq rows
  <2>1. b \subseteq rows
    OBVIOUS
  <2> HIDE DEF b
  <2> QED
    BY <2>1, FS_Subset
<1> HIDE DEF a, b
<1>3. IsFiniteSet(a) /\ Cardinality(a) <= Cardinality(b) /\ Cardinality(a) # Cardinality(b)
  BY <1>1, <1>2, FS_Subset
<1>4. Cardinality(a) \in Nat /\ Cardinality(b) \in Nat
  BY <1>2, <1>3, FS_CardinalityType
<1>5. Cardinality(a) < Cardinality(b)
  BY <1>3, <1>4
<1> QED
  BY <1>5 DEF IndexIn, a, b

\* Every index up to the number of rows is that of exactly one row.
LEMMA RowAtIndex ==
  ASSUME NEW rows, IsFiniteSet(rows), rows \subseteq Nat
  PROVE  /\ \A n, m \in rows : IndexIn(rows, n) = IndexIn(rows, m) => n = m
         /\ \A i \in 0..(Cardinality(rows) - 1) : \E n \in rows : IndexIn(rows, n) = i
<1> DEFINE T == 0..(Cardinality(rows) - 1)
           f == [n \in rows |-> IndexIn(rows, n)]
<1>1. Cardinality(rows) \in Nat
  BY FS_CardinalityType
<1>2. f \in [rows -> T]
  BY IndexInside
<1>3. \A n, m \in rows : IndexIn(rows, n) = IndexIn(rows, m) => n = m
  <2>1. \A n \in rows : IndexIn(rows, n) \in Nat
    <3>1. \A n \in rows : IndexIn(rows, n) \in 0..(Cardinality(rows) - 1)
      BY IndexInside
    <3> QED
      BY <1>1, <3>1
  <2>2. ASSUME NEW n \in rows, NEW m \in rows, n # m
        PROVE  IndexIn(rows, n) # IndexIn(rows, m)
    <3>1. n < m \/ m < n
      BY <2>2
    <3>2. \/ IndexIn(rows, n) < IndexIn(rows, m)
          \/ IndexIn(rows, m) < IndexIn(rows, n)
      BY <3>1, IndexGrows
    <3>3. IndexIn(rows, n) \in Nat /\ IndexIn(rows, m) \in Nat
      BY <2>1
    <3> QED
      BY <3>2, <3>3
  <2> QED
    BY <2>2
<1>4. f \in Injection(rows, T)
  BY <1>2, <1>3 DEF Injection, IsInjective
<1>5. IsFiniteSet(T) /\ Cardinality(T) = Cardinality(rows)
  <2>1. 0 \in Int /\ Cardinality(rows) - 1 \in Int
    BY <1>1
  <2>2. IsFiniteSet(T) /\ Cardinality(T) = IF 0 > Cardinality(rows) - 1 THEN 0
                                           ELSE (Cardinality(rows) - 1) - 0 + 1
    BY <2>1, FS_Interval
  <2> QED
    BY <1>1, <2>2
<1>6. f \in Surjection(rows, T)
  <2> HIDE DEF f, T
  <2> QED
    BY <1>4, <1>5, FS_Injection
<1> QED
  BY <1>3, <1>6 DEF Surjection

\* The row that the cursor selects.
LEMMA SelectedRow ==
  ASSUME Placed, shown # None
  PROVE  Selected \in Visible /\ IndexIn(Visible, Selected) = cursor
<1>1. /\ IsFiniteSet(Visible) /\ Visible \subseteq Nat
      /\ cursor \in 0..(Cardinality(Visible) - 1)
  BY ShownCounted DEF Placed
<1>2. \E n \in Visible : IndexIn(Visible, n) = cursor
  BY <1>1, RowAtIndex
<1> QED
  BY <1>2 DEF Selected, At

\* Opening or closing the selected directory leaves it selected.
LEMMA ReopeningKeeps ==
  ASSUME Placed, shown # None, Reopen(expanded'),
         expanded' \ {Selected} = expanded \ {Selected}
  PROVE  /\ Selected' = Selected
         /\ \A n \in Visible' : n = 0 \/ shown[n] \in Visible'
<1> DEFINE s == Selected
           rows == VisibleOf(shown, expanded')
<1>1. /\ shown \in Trees /\ shown' = shown /\ Visible' = rows
      /\ Visible = VisibleOf(shown, expanded)
  BY ShownCounted DEF Reopen, Visible, VisibleOf
<1>2. s \in Visible /\ IndexIn(Visible, s) = cursor
  BY SelectedRow
<1>3. s \in rows /\ IndexIn(rows, s) = cursor
  BY <1>1, <1>2, RowsBefore
<1>4. /\ IsFiniteSet(rows) /\ rows \subseteq Nat
      /\ Cardinality(rows) \in Nat /\ Cardinality(rows) > 0
  BY <1>1, RowsCounted
<1>5. cursor' = cursor
  <2>1. cursor \in 0..(Cardinality(rows) - 1)
    BY <1>3, <1>4, IndexInside
  <2>2. cursor' = Most(0, Least(cursor, Cardinality(rows) - 1))
    BY DEF Reopen
  <2> HIDE DEF rows
  <2> QED
    BY <1>4, <2>1, <2>2 DEF Most, Least
<1>6. Selected' = s
  <2>1. Selected' = CHOOSE n \in rows : IndexIn(rows, n) = cursor
    BY <1>1, <1>5 DEF Selected, At, IndexIn
  <2>2. \A n \in rows : IndexIn(rows, n) = cursor => n = s
    BY <1>3, <1>4, RowAtIndex
  <2> HIDE DEF rows, s
  <2> QED
    BY <1>3, <2>1, <2>2
<1>7. ASSUME NEW n \in rows, n # 0 PROVE shown[n] \in rows
  BY <1>1, <1>7, RowsHang
<1> QED
  BY <1>1, <1>6, <1>7

\* BrowserController (tui/controller.py): toggling, expanding and collapsing
\* leave the selection on the row it was on, though the cursor is an index and
\* rows appear and vanish; and no row is shown whose directory's row is not.
THEOREM SelectionCorrect == Spec => SelectionStays
<1>1. ASSUME AppInv, [Next]_vars, expanded' # expanded, main = "key"
      PROVE  /\ Selected' = Selected
             /\ \A n \in Visible' : n = 0 \/ shown[n] \in Visible'
  <2>1. KeyBrowse /\ Open
    <3>1. ~ Poll /\ ~ Draw
      BY <1>1 DEF Poll, Draw
    <3>2. ~ Idle /\ ~ KeyQuit /\ ~ KeyRescan /\ ~ Interrupt /\ vars' # vars
      BY <1>1 DEF Idle, KeyQuit, KeyRescan, Interrupt, vars, browser
    <3>3. \A s \in Scans : ~ Worker(s)
      BY <1>1 DEF Worker, Register, Report, WalkEnds, Release, Publish, Finish, browser
    <3>4. ~ Navigate
      BY <1>1 DEF Navigate, Move, MoveTo, First, Last, Page, SelectParent, browser
    <3> QED
      BY <1>1, <3>1, <3>2, <3>3, <3>4 DEF Next, Loop, KeyBrowse
  <2>2. /\ shown # None /\ Reopen(expanded')
        /\ expanded' \ {Selected} = expanded \ {Selected}
    <3>1. shown # None /\ \E open \in {expanded \cup {Selected}, expanded \ {Selected}} : Reopen(open)
      BY <1>1, <2>1 DEF Open, Toggle, Expand, Collapse, Collapsed, browser, Reopen
    <3> QED
      BY <3>1 DEF Reopen
  <2> QED
    BY <1>1, <2>2, ReopeningKeeps DEF AppInv
<1>2. AppInv /\ [Next]_vars =>
        [expanded' # expanded /\ main = "key" =>
           /\ Selected' = Selected
           /\ \A n \in Visible' : n = 0 \/ shown[n] \in Visible']_vars
  BY <1>1
<1> QED
  BY AppCorrect, <1>2, PTL DEF Spec, SelectionStays

=============================================================================
