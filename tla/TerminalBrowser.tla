--------------------------- MODULE TerminalBrowser ---------------------------
(***************************************************************************)
(* The cursor of the terminal interface (BrowserController of              *)
(* tui/controller.py): which directories are expanded, which row is        *)
(* selected and which one is at the top of the screen.                     *)
(***************************************************************************)
EXTENDS Integers, FiniteSets, FiniteSetsExt

CONSTANTS
  N,      \* the directories of a snapshot are 0, its root, to N at most
  None

\* A snapshot: the parents of its directories, which are numbered in the order
\* in which they are shown when all are expanded.
Ancestors(tree, n) ==
  LET up[k \in 0..N] ==
        IF k = 0 THEN {n} ELSE up[k-1] \cup {tree[m] : m \in up[k-1] \ {0}}
  IN up[N]
Snapshot ==
  {tree \in UNION {[1..k -> 0..k] : k \in 0..N} :
     \A n \in DOMAIN tree :
       tree[n] < n /\ tree[n] \in Ancestors(tree, n - 1)}

VARIABLES
  shown,     \* snapshot, None without one
  expanded,
  cursor,    \* the index of the selected row, from 0
  scroll     \* the index of the first row on the screen

browser == <<shown, expanded, cursor, scroll>>

BrowserInit == shown = None /\ expanded = {} /\ cursor = 0 /\ scroll = 0

-----------------------------------------------------------------------------
Children(n) == {m \in DOMAIN shown : shown[m] = n}

\* _rebuild_visible: the root, and what is below an expanded row.
VisibleIfParentOpen(tree, open) == {0} \cup {n \in DOMAIN tree : tree[n] \in open}
VisibleOf(tree, open) ==
  {0} \cup {n \in DOMAIN tree : Ancestors(tree, n) \ {n} \subseteq open}
Visible == IF shown = None THEN {} ELSE VisibleOf(shown, expanded)
IndexIn(rows, n) == Cardinality({m \in rows : m < n})
At(index) == CHOOSE n \in Visible : IndexIn(Visible, n) = index
Selected == IF shown = None THEN None ELSE At(cursor)

Least(a, b) == IF a < b THEN a ELSE b
Most(a, b) == IF a > b THEN a ELSE b

\* Expanding or collapsing keeps the index of the cursor, within the rows.
Reopen(open) ==
  LET rows == VisibleOf(shown, open) IN
  /\ expanded' = open
  /\ cursor' = Most(0, Least(cursor, Cardinality(rows) - 1))
  /\ scroll' = Most(0, Least(scroll, cursor'))
  /\ UNCHANGED shown

SetSnapshot(tree) ==
  /\ shown' = tree /\ expanded' = {0} /\ cursor' = 0 /\ scroll' = 0

MoveTo(index) ==
  /\ cursor' = IF shown = None THEN cursor
               ELSE Most(0, Least(Cardinality(Visible) - 1, index))
  /\ UNCHANGED <<shown, expanded, scroll>>
Move(delta) == MoveTo(cursor + delta)
First == cursor' = 0 /\ UNCHANGED <<shown, expanded, scroll>>
Last == MoveTo(N)
Page(delta, size) == Move(delta * Most(1, size))

Collapsed(n) == expanded \ {n}
Expand ==
  IF shown # None /\ Children(Selected) # {}
  THEN Reopen(expanded \cup {Selected})
  ELSE UNCHANGED browser
Collapse ==
  IF shown # None /\ Selected \in expanded
  THEN Reopen(Collapsed(Selected))
  ELSE UNCHANGED browser
Toggle ==
  IF shown # None /\ Selected \in expanded
  THEN Reopen(Collapsed(Selected))
  ELSE IF shown # None /\ Children(Selected) = {} THEN Reopen(expanded)
  ELSE Expand

SelectParent ==
  IF shown # None /\ Selected # 0 /\ shown[Selected] \in Visible
  THEN /\ cursor' = IndexIn(Visible, shown[Selected])
       /\ UNCHANGED <<shown, expanded, scroll>>
  ELSE UNCHANGED browser

\* keep_cursor_visible, before the rows are drawn.
ScrollOnlyDown(size) ==
  IF cursor >= scroll + size THEN cursor - size + 1 ELSE scroll
ScrollTo(size) ==
  IF cursor < scroll THEN cursor
  ELSE IF cursor >= scroll + size THEN cursor - size + 1
  ELSE scroll
KeepCursorVisible(size) ==
  /\ scroll' = Most(0, Least(ScrollTo(size),
                             Most(0, Cardinality(Visible) - size)))
  /\ UNCHANGED <<shown, expanded, cursor>>
=============================================================================
