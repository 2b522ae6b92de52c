----------------------------- MODULE TerminalApp -----------------------------
(***************************************************************************)
(* The terminal interface (tui/app.py, ScanController of                   *)
(* tui/controller.py). The main thread drains the messages of the scan     *)
(* thread, draws and waits for a key, over and over; the scan thread walks *)
(* the tree and hands over a new snapshot. Both reach the Cancellation of  *)
(* the scan through the controller.                                        *)
(***************************************************************************)
EXTENDS TerminalBrowser, Sequences

CONSTANTS
  Trees,     \* what a walk may find
  MaxScans,  \* how often a scan is started
  MaxEvents, \* how many events a scan reports
  MaxHeight  \* the rows the screen has for the tree, at most

Scans == 1..MaxScans
ASSUME TerminalAssumption ==
  /\ {N, MaxScans, MaxEvents, MaxHeight} \subseteq Nat /\ MaxScans > 0
  /\ Trees \subseteq Snapshot /\ Trees # {}

VARIABLES
  main,      \* where the loop is: before "poll", "draw" or "key", or "exited"
  height,    \* body_rows of the last frame
  scanning, quitting,  \* scanning, quit_after_cancel
  started,   \* the scan started last
  seen,      \* progress of that scan, as the screen shows it
  scan,      \* what each scan thread does
  cancelled, \* the scans whose Cancellation is set
  held,      \* _cancellation: the scan that cancel() reaches, or None
  active,    \* _active_snapshot, and the scan it comes from
  messages   \* the queue to the main thread

app == <<main, height, scanning, quitting, started, seen>>
controller == <<scan, cancelled, held, active, messages>>
vars == <<app, controller, browser>>

NoSnapshot == [scan |-> 0, tree |-> None]
Message(s, kind, snapshot) == [scan |-> s, kind |-> kind, snapshot |-> snapshot]

Init ==
  /\ BrowserInit
  /\ main = "poll" /\ height = 0 /\ quitting = FALSE /\ seen = 0
  /\ scanning = TRUE /\ started = 1
  /\ scan = [s \in Scans |->
       [pc |-> IF s = 1 THEN "created" ELSE "unborn", events |-> 0]]
  /\ cancelled = {} /\ held = None /\ active = NoSnapshot /\ messages = <<>>

-----------------------------------------------------------------------------
(* The scan thread: ScanController.scan, called by work of start_scan.     *)

Register(s) ==
  /\ scan[s].pc = "created"
  /\ held' = s
  /\ scan' = [scan EXCEPT ![s].pc = "walk"]
  /\ UNCHANGED <<app, browser, cancelled, active, messages>>

Report(s) ==
  /\ scan[s].pc = "walk" /\ s \notin cancelled
  /\ scan[s].events < MaxEvents
  /\ scan' = [scan EXCEPT ![s].events = @ + 1]
  /\ messages' = Append(messages, Message(s, "event", NoSnapshot))
  /\ UNCHANGED <<app, browser, cancelled, held, active>>

\* The walk is over, or notices its cancellation, or fails. The check after it
\* is the last one.
NotChecked(s) == TRUE
NotCancelled(s) == s \notin cancelled
WalkEnds(s) ==
  /\ scan[s].pc = "walk"
  /\ \/ NotCancelled(s) /\ scan' = [scan EXCEPT ![s].pc = "finalize"]
     \/ s \in cancelled /\ scan' = [scan EXCEPT ![s].pc = "cancelled"]
     \/ scan' = [scan EXCEPT ![s].pc = "error"]
  /\ UNCHANGED <<app, browser, cancelled, held, active, messages>>

\* finally: the Cancellation is let go.
Release(s) ==
  /\ scan[s].pc \in {"finalize", "cancelled", "error"}
  /\ held' = IF held = s THEN None ELSE held
  /\ scan' = [scan EXCEPT ![s].pc =
       IF scan[s].pc = "finalize" THEN "publish" ELSE "failed"]
  /\ UNCHANGED <<app, browser, cancelled, active, messages>>

Publish(s) ==
  /\ scan[s].pc = "publish"
  /\ \E tree \in Trees : active' = [scan |-> s, tree |-> tree]
  /\ scan' = [scan EXCEPT ![s].pc = "published"]
  /\ UNCHANGED <<app, browser, cancelled, held, messages>>

\* The outcome is the last that the thread puts into the queue.
Succeeded(s) == scan[s].pc = "published"
Ended(s) == scan[s].pc \in {"published", "failed"}
Finish(s) ==
  /\ Ended(s)
  /\ messages' = Append(messages, Message(s, "outcome",
       IF Succeeded(s) THEN active ELSE NoSnapshot))
  /\ scan' = [scan EXCEPT ![s].pc = "done"]
  /\ UNCHANGED <<app, browser, cancelled, held, active>>

Worker(s) ==
  Register(s) \/ Report(s) \/ WalkEnds(s) \/ Release(s) \/ Publish(s) \/ Finish(s)

-----------------------------------------------------------------------------
(* The main thread.                                                        *)

Of(kind) == {i \in DOMAIN messages : messages[i].kind = kind}
Snapshots == {i \in Of("outcome") : messages[i].snapshot # NoSnapshot}
HasSnapshot == Snapshots # {}
HasOutcome == Of("outcome") # {}

\* process_messages takes all there is, the last snapshot replaces those
\* before; then the loop ends or draws.
Poll ==
  /\ main = "poll"
  /\ messages' = <<>>
  /\ seen' = seen + Cardinality(Of("event"))
  /\ scanning' = (scanning /\ ~ HasOutcome)
  /\ IF HasSnapshot
     THEN SetSnapshot(messages[Max(Snapshots)].snapshot.tree)
     ELSE UNCHANGED browser
  /\ main' = IF quitting /\ ~ scanning' THEN "exited" ELSE "draw"
  /\ UNCHANGED <<height, quitting, started, scan, cancelled, held, active>>

Draw ==
  /\ main = "draw"
  /\ height' \in 0..MaxHeight
  /\ IF shown # None /\ height' > 0 THEN KeepCursorVisible(height')
     ELSE UNCHANGED browser
  /\ main' = "key"
  /\ UNCHANGED <<scanning, quitting, started, seen, controller>>

AtKey == main = "key" /\ main' = "poll"
Cancel ==
  /\ cancelled' = cancelled \cup ({held} \ {None})
  /\ UNCHANGED <<scan, held, active, messages>>

\* No key within 100 ms, a resize, or one that does nothing.
Idle ==
  /\ AtKey
  /\ UNCHANGED <<height, scanning, quitting, started, seen, controller, browser>>

KeyQuit ==
  /\ main = "key"
  /\ IF scanning THEN Cancel /\ quitting' = TRUE /\ main' = "poll"
     ELSE UNCHANGED <<controller, quitting>> /\ main' = "exited"
  /\ UNCHANGED <<height, scanning, started, seen, browser>>

\* Ctrl-C while a key is awaited; elsewhere it ends the program.
Interrupt ==
  /\ main # "exited"
  /\ IF main = "key" /\ scanning THEN Cancel /\ main' = "poll"
     ELSE UNCHANGED controller /\ main' = "exited"
  /\ UNCHANGED <<height, scanning, quitting, started, seen, browser>>

MayStartAgain == TRUE
MayStart == ~ scanning
CountGoesOn == seen
FreshCount == 0
KeyRescan ==
  /\ AtKey /\ MayStart
  /\ started < MaxScans
  /\ scanning' = TRUE /\ started' = started + 1 /\ seen' = FreshCount
  /\ scan' = [scan EXCEPT ![started'].pc = "created"]
  /\ UNCHANGED <<height, quitting, cancelled, held, active, messages, browser>>

Navigate ==
  \/ Move(-1) \/ Move(1) \/ First \/ Last
  \/ Page(-1, height) \/ Page(1, height) \/ SelectParent
Open == Toggle \/ Expand \/ Collapse
KeyBrowse ==
  /\ AtKey /\ ~ scanning
  /\ Navigate \/ Open
  /\ UNCHANGED <<height, scanning, quitting, started, seen, controller>>

Loop == Poll \/ Draw \/ Idle \/ KeyQuit \/ KeyRescan \/ KeyBrowse
Next == Loop \/ Interrupt \/ \E s \in Scans : Worker(s)
Spec == Init /\ [][Next]_vars
FairSpec ==
  /\ Spec
  /\ WF_vars(Loop)
  /\ \A s \in Scans : WF_vars(Worker(s))

-----------------------------------------------------------------------------
Running(s) == scan[s].pc \notin {"unborn", "done"}

\* One scan at a time, and while one runs, or its outcome is not seen, the
\* program knows it.
OneScanAtATime ==
  /\ \A s, t \in Scans : Running(s) /\ Running(t) => s = t
  /\ \A s \in Scans : Running(s) => scanning /\ s = started

\* What is browsed is the newest complete snapshot whenever a key can act on
\* it, and what the screen counts was reported by the scan it is about.
BrowsesTheNewest ==
  /\ ~ scanning => shown = active.tree
  /\ started > 0 => seen <= scan[started].events

\* Only a complete walk replaces the snapshot: never one that was cancelled
\* before its last look at the Cancellation, or that failed.
CancelledNeverReplaces ==
  \A s \in Scans :
    [](\/ scan[s].pc = "walk" /\ s \in cancelled
       \/ scan[s].pc \in {"cancelled", "error", "failed"}
       => [](active.scan # s))

\* The selected row is on the screen whenever a key is awaited, and the screen
\* shows as many rows as it can.
CursorOnScreen ==
  main = "key" /\ shown # None /\ height > 0 =>
    /\ cursor \in 0..(Cardinality(Visible) - 1)
    /\ cursor \in scroll..(scroll + height - 1)
    /\ scroll = 0 \/ scroll + height <= Cardinality(Visible)

\* Opening and closing directories never moves the selection to another row,
\* and what is visible hangs together.
SelectionStays ==
  [][expanded' # expanded /\ main = "key" =>
       /\ Selected' = Selected
       /\ \A n \in Visible' : n = 0 \/ shown[n] \in Visible']_vars

\* q ends the program, at the latest when the scan has ended.
QuitEnds == quitting ~> main = "exited"
\* Every scan reports an outcome that the screen takes up.
ScansEnd == scanning ~> (~ scanning \/ main = "exited")
=============================================================================
