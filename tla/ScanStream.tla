----------------------------- MODULE ScanStream -----------------------------
(***************************************************************************)
(* The scan command of helper/discover.py: one process walks a tree and    *)
(* writes one line per event, within the budget of NdjsonBudget; a reader  *)
(* of those lines (snapshot_from_events) shows a tree only if the stream   *)
(* is whole. The last MaxEvent units of the budget are kept for a terminal *)
(* event, whatever happens.                                                *)
(***************************************************************************)
EXTENDS Scanner

CONSTANTS
  MaxEvent, MaxTotal,  \* max_event_bytes, max_total_ndjson_bytes
  MaxWarnings,         \* MAX_WARNINGS, the warnings written one by one
  BareError            \* the size of an error event without a path

ASSUME BudgetAssumption ==
  /\ MaxEvent \in Nat /\ MaxTotal \in Nat /\ MaxTotal >= MaxEvent
  /\ BareError \in 1..MaxEvent /\ MaxWarnings \in Nat
\* No exit status is none.
ASSUME ExitAssumption == None \notin Nat

VARIABLES
  running,       \* where scan_command is
  outbox,        \* what the last step of the walk still has to emit
  total,         \* NdjsonBudget.total_bytes of the scan
  sent, largest, \* the size of all that was written, and of one event
  exit,          \* what scan_command returned or main returns, else None
  shown,         \* warnings written
  heard,         \* where snapshot_from_events is
  announced,     \* directoryCount of the complete event
  terminals,     \* how many terminal events were written
  tree, pending  \* the reader's SnapshotBuilder

Builder == INSTANCE SnapshotBuilder WITH MaxRows <- MaxDirectories

process == <<running, outbox, total, sent, largest, exit, shown, terminals>>
reader == <<heard, announced, tree, pending>>
all == <<vars, process, reader>>

Terminal == {"complete", "cancelled", "error"}
Plain(type) == [type |-> type, record |-> None]

StreamInit ==
  /\ Init /\ Builder!BuilderInit
  /\ running = "begin" /\ outbox = <<>> /\ total = 0 /\ sent = 0 /\ largest = 0
  /\ exit = None /\ shown = 0 /\ heard = "nothing" /\ announced = 0
  /\ terminals = 0

\* An event may be larger than one may be: it holds a path or an error text.
Sizes == 1..(MaxEvent + 1)

-----------------------------------------------------------------------------
\* NdjsonBudget.account.
CeilingForAll(type) == MaxTotal
Ceiling(type) == IF type \in Terminal THEN MaxTotal ELSE MaxTotal - MaxEvent
Fits(type, size) == size <= MaxEvent /\ total + size <= Ceiling(type)

\* snapshot_from_events reads one line.
Hear(event) ==
  LET ignored == UNCHANGED <<tree, pending>> IN
  /\ announced' = IF event.type = "complete" THEN finished ELSE announced
  /\ \/ /\ heard = "nothing"
        /\ heard' = IF event.type = "start" THEN "open" ELSE "rejected"
        /\ ignored
     \/ /\ heard = "open" /\ event.type = "directory"
        /\ Builder!Add(event.record) /\ UNCHANGED heard
     \/ /\ heard = "open" /\ event.type = "directory"
        /\ ~ Builder!Takes(event.record)
        /\ heard' = "rejected" /\ ignored
     \/ /\ heard = "open" /\ event.type \in Terminal
        /\ heard' = event.type /\ ignored
     \/ /\ heard = "open" /\ event.type \in {"progress", "warning"}
        /\ UNCHANGED heard /\ ignored
     \/ /\ heard \in Terminal \cup {"rejected"}
        /\ heard' = "rejected" /\ ignored

\* The tree it returns when the stream has ended, or an exception.
Shows ==
  /\ heard = "complete"
  /\ announced = Cardinality(Builder!Known)
  /\ Builder!Accepts(Root, announced)

\* emit_ndjson. The size is that of the event, or of what replaces it.
Write(event, size) ==
  /\ sent' = sent + size
  /\ largest' = IF size > largest THEN size ELSE largest
  /\ shown' = IF event.type = "warning" THEN shown + 1 ELSE shown
  /\ terminals' = IF event.type \in Terminal THEN terminals + 1 ELSE terminals
  /\ Hear(event)

\* emit_event, once it is known to fit.
Emit(event, size) == Write(event, size) /\ total' = total + size

Exit(code) == running' = "leaving" /\ exit' = code /\ outbox' = <<>>

\* emit_bounded_error, in main: the error that ended scan_command, in a budget
\* of its own.
BoundedError ==
  /\ \E size \in Sizes :
       Write(Plain("error"), IF size <= MaxEvent THEN size ELSE BareError)
  /\ Exit(1)
  /\ UNCHANGED total

\* emit_resource_failure: the error event has a path only if it fits with it.
ErrorSize(size) == IF Fits("error", size) THEN size ELSE BareError
ResourceFailureOnce ==
  /\ \E size \in Sizes :
       IF Fits("error", size)
       THEN Emit(Plain("error"), size)
       ELSE UNCHANGED <<total, sent, largest, shown, terminals, reader>>
  /\ Exit(3)
ResourceFailure ==
  \E size \in Sizes :
    IF Fits("error", ErrorSize(size))
    THEN Emit(Plain("error"), ErrorSize(size)) /\ Exit(3)
    ELSE BoundedError

\* A terminal event, and the exit status that goes with it.
Conclude(type, code) ==
  \E size \in Sizes :
    IF Fits(type, size)
    THEN Emit(Plain(type), size) /\ Exit(code)
    ELSE ResourceFailure

-----------------------------------------------------------------------------
\* The path is refused, or findmnt fails.
Refuse ==
  /\ running = "begin"
  /\ Conclude("error", 2) \/ BoundedError
  /\ UNCHANGED vars

Begin ==
  /\ running = "begin"
  /\ \E size \in Sizes :
       IF Fits("start", size)
       THEN /\ Emit(Plain("start"), size)
            /\ running' = "scan"
            /\ UNCHANGED <<exit, outbox>>
       ELSE ResourceFailure
  /\ UNCHANGED vars

\* The events of a step of the walk, in their order: account may report
\* progress, warning writes the first MaxWarnings, a directory is left.
ShownBelow(warning) == warning < MaxWarnings
Shown(warning) == warning <= MaxWarnings
Walk ==
  /\ running = "scan" /\ outbox = <<>>
  /\ Step
  /\ \E progress \in IF entries' # entries THEN BOOLEAN ELSE {FALSE} :
       outbox' =
         (IF progress THEN <<Plain("progress")>> ELSE <<>>)
         \o (IF warnings' # warnings /\ Shown(warnings')
             THEN <<Plain("warning")>> ELSE <<>>)
         \o (IF emitted' \in DirectoryRecord
             THEN <<[type |-> "directory", record |-> emitted']>> ELSE <<>>)
  /\ UNCHANGED <<running, total, sent, largest, exit, shown, terminals, reader>>

\* emit_event of one of them; if it does not fit the walk is given up.
Deliver ==
  /\ running = "scan" /\ outbox # <<>>
  /\ \E size \in Sizes :
       IF Fits(Head(outbox).type, size)
       THEN /\ Emit(Head(outbox), size)
            /\ outbox' = Tail(outbox)
            /\ UNCHANGED <<running, exit>>
       ELSE ResourceFailure
  /\ UNCHANGED vars

\* The walk has returned or raised; cancellation.check() honours a signal that
\* came after the last check of the walk.
EndedByItself == {"complete", "cancelled"}
Ended == {"complete", "cancelled", "limit"}
End ==
  /\ running = "scan" /\ outbox = <<>>
  /\ pc \in Ended
  /\ running' = IF pc = "limit" THEN "limit"
                ELSE IF cancelled THEN "cancelled" ELSE "complete"
  /\ UNCHANGED <<vars, outbox, total, sent, largest, exit, shown, terminals,
                 reader>>

\* The event of that outcome. A signal that comes now changes nothing.
Report ==
  /\ \/ running = "limit" /\ ResourceFailure
     \/ running = "cancelled" /\ Conclude("cancelled", 130)
     \/ running = "complete" /\ Conclude("complete", 0)
  /\ UNCHANGED vars

\* The process exits with the status that was returned.
Quit ==
  /\ running = "leaving"
  /\ running' = "ended"
  /\ UNCHANGED <<vars, outbox, total, sent, largest, exit, shown, terminals,
                 reader>>

Signal ==
  /\ running \in {"scan", "limit", "cancelled", "complete", "leaving"}
  /\ "cancel" \in Faults /\ ~ cancelled /\ cancelled' = TRUE
  /\ UNCHANGED <<fs, pc, stack, seen, discovered, finished, entries, bytes,
                 warnings, emitted, process, reader>>

\* Killed, or the reader has closed the pipe.
Kill ==
  /\ running \notin {"ended", "killed"}
  /\ running' = "killed" /\ exit' = None
  /\ UNCHANGED <<vars, outbox, total, sent, largest, shown, terminals, reader>>

Proceed == Begin \/ Walk \/ Deliver \/ End \/ Report \/ Quit
StreamNext == Refuse \/ Proceed \/ Signal \/ Kill
StreamSpec == StreamInit /\ [][StreamNext]_all
FairStreamSpec == StreamSpec /\ WF_all(Proceed)

-----------------------------------------------------------------------------
\* The whole output stays within max_total_ndjson_bytes and every event within
\* max_event_bytes, also when the walk ends because they would not, and when
\* the error event is emitted in a budget of its own.
WithinBudget == sent <= MaxTotal /\ largest <= MaxEvent

\* Whatever ends the process, short of a kill, its output ends with exactly
\* one terminal event: room for one is never used up by the events before it.
EndsWithOneTerminal ==
  /\ terminals <= 1
  /\ running \in {"leaving", "ended"} =>
       terminals = 1 /\ heard \in Terminal \cup {"rejected"}

\* What the reader shows is the whole walk: no directory is lost on the way,
\* the sizes are the scan's, and the warnings written and the suppressed ones
\* that the complete event announces are all there were. That holds of a scan
\* that is cancelled or killed after the event was written, too.
Suppressed == IF warnings > MaxWarnings THEN warnings - MaxWarnings ELSE 0
ShowsTheWholeWalk ==
  Shows =>
    /\ exit \in {0, None} /\ pc = "complete"
    /\ tree[Root].bytes = bytes /\ Cardinality(Builder!Known) = finished
    /\ shown + Suppressed = warnings

\* A scan that completed is shown by its reader: neither the budget nor the
\* order in which the directories were written makes it reject the stream.
\* (Without a root nothing can be shown: the root itself had vanished.)
CompletedIsShown == exit = 0 /\ finished > 0 => Shows

\* The process ends by itself.
Ends == <>(running \in {"ended", "killed"})
=============================================================================
