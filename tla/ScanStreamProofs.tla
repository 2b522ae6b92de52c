-------------------------- MODULE ScanStreamProofs --------------------------
(***************************************************************************)
(* Proofs about the output of the scan command and about what a reader     *)
(* shows of it, for every tree, every limit and every size of the events.  *)
(***************************************************************************)
EXTENDS ScanStream, ScannerProofs, FiniteSetTheorems

-----------------------------------------------------------------------------
(* The inductive invariant. Until a terminal event is written the bytes    *)
(* sent are those the budget counted, and they leave MaxEvent of it: so an *)
(* error event without a path fits whenever one is due, and the second     *)
(* budget of emit_bounded_error is only used when nothing has been sent.   *)

\* The outcome of the scan is known; or the last event is still to come.
Decided == {"limit", "cancelled", "complete"}
Busy == {"begin", "scan"} \cup Decided
Loose == {"progress", "warning", "directory"}
Event == [type: Loose, record: DirectoryRecord \cup {None}]

Counters ==
  /\ total \in Nat /\ sent \in Nat /\ largest \in Nat /\ terminals \in Nat
  /\ running \in Busy \cup {"leaving", "ended", "killed"}
  /\ outbox \in Seq(Event)

Budgeted ==
  /\ largest <= MaxEvent
  /\ sent <= MaxTotal
  /\ running \in Busy =>
       sent = total /\ total <= MaxTotal - MaxEvent /\ terminals = 0
  /\ running = "begin" => total = 0 /\ heard = "nothing"
  /\ running \in {"scan"} \cup Decided => heard \in {"open", "rejected"}
  /\ running \in {"leaving", "ended"} =>
       terminals = 1 /\ heard \in Terminal \cup {"rejected"}
  /\ running \in Decided \cup {"leaving", "ended"} => outbox = <<>>
  /\ running = "killed" => terminals \in {0, 1}

StreamInv == Counters /\ Budgeted

-----------------------------------------------------------------------------
(* Writing an event.                                                       *)

\* An event that ends the output.
LEMMA TerminalWritten ==
  ASSUME StreamInv, running \in Busy,
         NEW type \in Terminal, NEW size \in 1..MaxEvent,
         total + size <= MaxTotal, Write(Plain(type), size)
  PROVE  /\ sent' \in Nat /\ largest' \in Nat
         /\ largest' <= MaxEvent /\ sent' <= MaxTotal
         /\ terminals' = 1 /\ heard' \in Terminal \cup {"rejected"}
<1> USE DEF StreamInv, Counters, Budgeted
<1>1. Plain(type).type = type /\ type \notin {"start", "directory", "progress", "warning"}
  BY DEF Plain, Terminal
<1>2. /\ sent' = sent + size /\ terminals' = terminals + 1
      /\ largest' = IF size > largest THEN size ELSE largest
  BY <1>1 DEF Write
<1>3. heard' \in Terminal \cup {"rejected"}
  BY <1>1 DEF Write, Hear
<1>4. size \in Nat /\ size <= MaxEvent
  BY BudgetAssumption
<1> QED
  BY <1>2, <1>3, <1>4, BudgetAssumption

\* The bare error event fits while the walk goes on.
LEMMA BareErrorFits ==
  ASSUME StreamInv, running \in Busy
  PROVE  Fits("error", BareError)
BY BudgetAssumption DEF StreamInv, Counters, Budgeted, Fits, Ceiling, Terminal

\* The ways to end the process.
Ending ==
  /\ running' = "leaving" /\ outbox' = <<>>
  /\ total' \in Nat /\ sent' \in Nat /\ largest' \in Nat
  /\ largest' <= MaxEvent /\ sent' <= MaxTotal
  /\ terminals' = 1 /\ heard' \in Terminal \cup {"rejected"}

\* What an ending leaves behind.
LEMMA EndingKeeps == Ending => StreamInv'
BY DEF Ending, StreamInv, Counters, Budgeted, Busy, Decided

\* An event counted in the scan's own budget.
LEMMA EmittedEnds ==
  ASSUME StreamInv, running \in Busy,
         NEW type \in Terminal, NEW size \in Sizes, Fits(type, size),
         Emit(Plain(type), size), running' = "leaving", outbox' = <<>>
  PROVE  Ending
<1>1. size \in 1..MaxEvent /\ total + size <= MaxTotal /\ total + size \in Nat
  BY BudgetAssumption DEF Fits, Ceiling, Sizes, StreamInv, Counters
<1> QED
  BY <1>1, TerminalWritten DEF Emit, Ending

\* A resource failure ends the process with an error event that fits.
LEMMA FailureEnds ==
  ASSUME StreamInv, running \in Busy, ResourceFailure
  PROVE  Ending
<1>1. PICK size \in Sizes :
        IF Fits("error", ErrorSize(size))
        THEN Emit(Plain("error"), ErrorSize(size)) /\ Exit(3)
        ELSE BoundedError
  BY DEF ResourceFailure
<1>2. Fits("error", ErrorSize(size))
  BY BareErrorFits DEF ErrorSize
<1>3. ErrorSize(size) \in Sizes
  BY BudgetAssumption DEF ErrorSize, Sizes
<1> QED
  BY <1>1, <1>2, <1>3, EmittedEnds DEF Exit, Terminal

\* So does a terminal event.
LEMMA ConcludeEnds ==
  ASSUME StreamInv, running \in Busy,
         NEW type \in Terminal, NEW code, Conclude(type, code)
  PROVE  Ending
BY FailureEnds, EmittedEnds DEF Conclude, Exit

\* An event of the walk, or the first one, leaves room for a terminal event.
LEMMA LooseWritten ==
  ASSUME StreamInv, running \in Busy, NEW event, NEW size \in Sizes,
         event.type \in Loose \cup {"start"}, Fits(event.type, size),
         Emit(event, size)
  PROVE  /\ total' \in Nat /\ sent' = total' /\ total' <= MaxTotal - MaxEvent
         /\ largest' \in Nat /\ largest' <= MaxEvent /\ terminals' = 0
<1> USE DEF StreamInv, Counters, Budgeted
<1>1. event.type \notin Terminal
  BY DEF Loose, Terminal
<1>2. size \in Nat /\ size <= MaxEvent /\ total + size <= MaxTotal - MaxEvent
  BY <1>1, BudgetAssumption DEF Fits, Ceiling, Sizes
<1>3. /\ sent' = sent + size /\ total' = total + size /\ terminals' = terminals
      /\ largest' = IF size > largest THEN size ELSE largest
  BY <1>1 DEF Emit, Write
<1> QED
  BY <1>2, <1>3, BudgetAssumption

-----------------------------------------------------------------------------
(* The steps.                                                              *)

\* The path is refused before anything is sent: its error has a budget of its

\* own.
LEMMA StreamRefuse ==
  ASSUME StreamInv, Refuse
  PROVE  StreamInv'
<1>1. running = "begin" /\ running \in Busy
  BY DEF Refuse, Busy
<1>2. CASE Conclude("error", 2)
  BY <1>1, <1>2, ConcludeEnds, EndingKeeps DEF Terminal
<1>3. CASE BoundedError
  <2>1. PICK size \in Sizes :
          Write(Plain("error"), IF size <= MaxEvent THEN size ELSE BareError)
    BY <1>3 DEF BoundedError
  <2>2. (IF size <= MaxEvent THEN size ELSE BareError) \in 1..MaxEvent
    BY BudgetAssumption DEF Sizes
  <2>3. \A n \in 1..MaxEvent : total + n <= MaxTotal
    BY <1>1, BudgetAssumption DEF StreamInv, Counters, Budgeted
  <2> QED
    BY <1>1, <1>3, <2>1, <2>2, <2>3, TerminalWritten, EndingKeeps
       DEF BoundedError, Exit, Ending, Terminal, StreamInv, Counters
<1> QED
  BY <1>2, <1>3 DEF Refuse

\* The start event.
LEMMA StreamBegin ==
  ASSUME StreamInv, Begin
  PROVE  StreamInv'
<1>1. running = "begin" /\ running \in Busy
  BY DEF Begin, Busy
<1>2. CASE ResourceFailure
  BY <1>1, <1>2, FailureEnds, EndingKeeps
<1>3. ASSUME NEW size \in Sizes, Fits("start", size), Emit(Plain("start"), size),
             running' = "scan", UNCHANGED <<exit, outbox>>
      PROVE  StreamInv'
  <2>1. Plain("start").type = "start"
    BY DEF Plain
  <2>2. /\ total' \in Nat /\ sent' = total' /\ total' <= MaxTotal - MaxEvent
        /\ largest' \in Nat /\ largest' <= MaxEvent /\ terminals' = 0
    BY <1>1, <1>3, <2>1, LooseWritten
  <2>3. heard' = "open"
    BY <1>1, <1>3, <2>1 DEF Emit, Write, Hear, StreamInv, Budgeted, Terminal
  <2> QED
    BY <1>3, <2>2, <2>3, BudgetAssumption
       DEF StreamInv, Counters, Budgeted, Busy, Decided
<1> QED
  BY <1>2, <1>3 DEF Begin

\* An event of the walk is written, or the walk is given up.
LEMMA StreamDeliver ==
  ASSUME StreamInv, Deliver
  PROVE  StreamInv'
<1>1. /\ running = "scan" /\ outbox # <<>> /\ outbox \in Seq(Event)
      /\ running \in Busy
  BY DEF Deliver, StreamInv, Counters, Busy
<1>2. CASE ResourceFailure
  BY <1>1, <1>2, FailureEnds, EndingKeeps
<1>3. ASSUME NEW size \in Sizes, Fits(Head(outbox).type, size),
             Emit(Head(outbox), size), outbox' = Tail(outbox),
             UNCHANGED <<running, exit>>
      PROVE  StreamInv'
  <2>1. Head(outbox) \in Event /\ Tail(outbox) \in Seq(Event)
    BY <1>1
  <2>2. Head(outbox).type \in Loose
    BY <2>1 DEF Event
  <2>3. /\ total' \in Nat /\ sent' = total' /\ total' <= MaxTotal - MaxEvent
        /\ largest' \in Nat /\ largest' <= MaxEvent /\ terminals' = 0
    BY <1>1, <1>3, <2>2, LooseWritten
  <2>4. heard' \in {"open", "rejected"}
    BY <1>1, <1>3, <2>2 DEF Emit, Write, Hear, StreamInv, Budgeted, Terminal, Loose
  <2> QED
    BY <1>1, <1>3, <2>1, <2>3, <2>4, BudgetAssumption
       DEF StreamInv, Counters, Budgeted, Busy, Decided
<1> QED
  BY <1>2, <1>3 DEF Deliver

\* The walk leaves its events in the outbox.
LEMMA StreamWalk ==
  ASSUME StreamInv, Walk
  PROVE  StreamInv'
<1>1. outbox' \in Seq(Event)
  <2> DEFINE noted == <<Plain("progress")>>  warned == <<Plain("warning")>>
             left == <<[type |-> "directory", record |-> emitted']>>
  <2>1. PICK progress \in BOOLEAN :
          outbox' = (IF progress THEN noted ELSE <<>>)
                    \o (IF warnings' # warnings /\ Shown(warnings') THEN warned ELSE <<>>)
                    \o (IF emitted' \in DirectoryRecord THEN left ELSE <<>>)
    BY DEF Walk
  <2>2. noted \in Seq(Event) /\ warned \in Seq(Event) /\ <<>> \in Seq(Event)
    BY DEF Plain, Event, Loose
  <2>3. emitted' \in DirectoryRecord => left \in Seq(Event)
    BY DEF Event, Loose
  <2>4. \A s, t \in Seq(Event) : s \o t \in Seq(Event)
    OBVIOUS
  <2> HIDE DEF noted, warned, left
  <2> QED
    BY <2>1, <2>2, <2>3, <2>4
<1>2. /\ running = "scan"
      /\ UNCHANGED <<running, total, sent, largest, terminals, heard>>
  BY DEF Walk, reader
<1> QED
  BY <1>1, <1>2 DEF StreamInv, Counters, Budgeted, Busy, Decided

\* The walk is over: nothing is left to deliver.
LEMMA StreamEnd ==
  ASSUME StreamInv, End
  PROVE  StreamInv'
<1>1. /\ running = "scan" /\ outbox = <<>> /\ running' \in Decided
      /\ UNCHANGED <<outbox, total, sent, largest, terminals, heard>>
  BY DEF End, reader, Decided
<1> QED
  BY <1>1 DEF StreamInv, Counters, Budgeted, Busy, Decided

\* The event of its outcome.
LEMMA StreamReport ==
  ASSUME StreamInv, Report
  PROVE  StreamInv'
<1>1. running \in Busy
  BY DEF Report, Busy, Decided
<1>2. Ending
  BY <1>1, FailureEnds, ConcludeEnds DEF Report, Terminal
<1> QED
  BY <1>2, EndingKeeps

\* The invariant holds at first and every step preserves it.
LEMMA StreamInductive ==
  /\ StreamInit => StreamInv
  /\ StreamInv /\ [StreamNext]_all => StreamInv'
<1>1. StreamInit => StreamInv
  BY BudgetAssumption DEF StreamInit, StreamInv, Counters, Budgeted, Busy, Decided
<1>2. ASSUME StreamInv, [StreamNext]_all PROVE StreamInv'
  <2>1. CASE Quit
    BY <1>2, <2>1 DEF Quit, reader, StreamInv, Counters, Budgeted, Busy, Decided
  <2>2. CASE Signal \/ UNCHANGED all
    BY <1>2, <2>2 DEF Signal, all, process, reader, StreamInv, Counters, Budgeted
  <2>3. CASE Kill
    BY <1>2, <2>3 DEF Kill, reader, StreamInv, Counters, Budgeted, Busy, Decided
  <2> QED
    BY <1>2, <2>1, <2>2, <2>3, StreamRefuse, StreamBegin, StreamDeliver,
       StreamWalk, StreamEnd, StreamReport DEF StreamNext, Proceed
<1> QED
  BY <1>1, <1>2

-----------------------------------------------------------------------------
(* The theorems.                                                           *)

\* The output stays within the total budget and every event within the size

\* of one, also when the scan is given up because they would not, and when
\* the error is emitted in a budget of its own.
THEOREM BudgetCorrect == StreamSpec => []WithinBudget
<1>1. StreamInv => WithinBudget
  BY DEF StreamInv, Budgeted, WithinBudget
<1> QED
  BY <1>1, StreamInductive, PTL DEF StreamSpec

\* Whatever ends the process, short of a kill, its output ends with exactly

\* one terminal event: the events before it never use up the room for one.
THEOREM TerminalCorrect == StreamSpec => []EndsWithOneTerminal
<1>1. StreamInv => EndsWithOneTerminal
  BY DEF StreamInv, Counters, Budgeted, EndsWithOneTerminal
<1> QED
  BY <1>1, StreamInductive, PTL DEF StreamSpec
-----------------------------------------------------------------------------
(* What is shown. The walk's counters and the reader's tree are related    *)
(* through the outbox: what has been counted has been written or waits in  *)
(* it. What the frames of the stack hold together is what the scan has     *)
(* counted, so the last frame to be left, the root's, holds all of it.     *)

\* The first n frames of stack s hold b together.
Holds(s, n, b) ==
  \E h \in [0..n -> Nat] :
    h[0] = 0 /\ h[n] = b /\ \A i \in 1..n : h[i] = h[i - 1] + s[i].bytes

\* None hold nothing.
LEMMA HoldsNone == ASSUME NEW s PROVE Holds(s, 0, 0)
<1> DEFINE h == [i \in 0..0 |-> 0]
<1>1. h \in [0..0 -> Nat] /\ h[0] = 0 /\ 1..0 = {}
  OBVIOUS
<1> QED
  BY <1>1 DEF Holds

\* One more frame adds what it holds.
LEMMA HoldsMore ==
  ASSUME NEW s, NEW n \in Nat, NEW b \in Nat, s[n + 1].bytes \in Nat
  PROVE  Holds(s, n, b) => Holds(s, n + 1, b + s[n + 1].bytes)
<1>1. SUFFICES ASSUME Holds(s, n, b) PROVE Holds(s, n + 1, b + s[n + 1].bytes)
  OBVIOUS
<1>2. PICK h \in [0..n -> Nat] :
        h[0] = 0 /\ h[n] = b /\ \A i \in 1..n : h[i] = h[i - 1] + s[i].bytes
  BY <1>1 DEF Holds
<1> DEFINE more == b + s[n + 1].bytes
           g == [i \in 0..(n + 1) |-> IF i = n + 1 THEN more ELSE h[i]]
<1>3. more \in Nat
  OBVIOUS
<1>4. g \in [0..(n + 1) -> Nat] /\ g[n + 1] = more /\ \A i \in 0..n : g[i] = h[i]
  BY <1>3
<1> HIDE DEF g
<1>5. g[0] = 0 /\ g[n] = b
  BY <1>2, <1>4
<1>6. ASSUME NEW i \in 1..(n + 1) PROVE g[i] = g[i - 1] + s[i].bytes
  <2>1. CASE i = n + 1
    BY <1>4, <1>5, <2>1
  <2>2. CASE i \in 1..n
    <3>1. i \in 0..n /\ i - 1 \in 0..n
      BY <2>2
    <3> QED
      BY <1>2, <1>4, <2>2, <3>1
  <2> QED
    BY <2>1, <2>2
<1> QED
  BY <1>4, <1>5, <1>6 DEF Holds

\* Without its last frame the rest holds the rest.
LEMMA HoldsLess ==
  ASSUME NEW s, NEW n \in Nat, NEW b, Holds(s, n + 1, b), s[n + 1].bytes \in Nat
  PROVE  \E c \in Nat : b = c + s[n + 1].bytes /\ Holds(s, n, c)
<1>1. PICK h \in [0..(n + 1) -> Nat] :
        /\ h[0] = 0 /\ h[n + 1] = b
        /\ \A i \in 1..(n + 1) : h[i] = h[i - 1] + s[i].bytes
  BY DEF Holds
<1> DEFINE g == [i \in 0..n |-> h[i]]
<1>2. g \in [0..n -> Nat] /\ \A i \in 0..n : g[i] = h[i]
  OBVIOUS
<1> HIDE DEF g
<1>3. \A i \in 1..n : i \in 0..n /\ i - 1 \in 0..n /\ i \in 1..(n + 1)
  OBVIOUS
<1>4. Holds(s, n, h[n])
  <2>1. g[0] = 0 /\ g[n] = h[n]
    BY <1>1, <1>2
  <2>2. \A i \in 1..n : g[i] = g[i - 1] + s[i].bytes
    BY <1>1, <1>2, <1>3
  <2> QED
    BY <1>2, <2>1, <2>2 DEF Holds
<1>5. n + 1 \in 1..(n + 1) /\ (n + 1) - 1 = n /\ h[n] \in Nat
  OBVIOUS
<1>6. h[n + 1] = h[n] + s[n + 1].bytes
  BY <1>1, <1>5
<1> QED
  BY <1>1, <1>4, <1>5, <1>6

\* Other frames that hold the same.
LEMMA HoldsSame ==
  ASSUME NEW s, NEW t, NEW n \in Nat, \A i \in 1..n : t[i].bytes = s[i].bytes,
         NEW b
  PROVE  Holds(s, n, b) => Holds(t, n, b)
BY DEF Holds

\* No frames at all.
LEMMA HoldsNothing == ASSUME NEW s, NEW b, Holds(s, 0, b) PROVE b = 0
BY DEF Holds

Totals ==
  /\ pc = "start" => bytes = 0
  /\ pc = "walk" => Holds(stack, Len(stack), bytes)
-----------------------------------------------------------------------------
(* A step of the walk.                                                     *)

\* The bytes of the frames, and of the root's record when it comes.
RootWhole ==
  emitted \in DirectoryRecord /\ emitted.path = Root =>
    emitted.bytes = bytes /\ pc \notin {"start", "walk"}

\* A frame's bytes are a number.
LEMMA FramesTyped ==
  ASSUME WalkInv
  PROVE  /\ Len(stack) \in Nat /\ bytes \in Nat /\ warnings \in Nat
         /\ \A i \in 1..Len(stack) : stack[i] \in Frame /\ stack[i].bytes \in Nat
<1>1. stack \in Seq(Frame) /\ bytes \in Nat /\ warnings \in Nat
  BY DEF WalkInv, TypeOK
<1>2. Len(stack) \in Nat /\ \A i \in 1..Len(stack) : stack[i] \in Frame
  BY <1>1
<1>3. \A frame \in Frame : frame.bytes \in Nat
  BY DEF Frame
<1> QED
  BY <1>1, <1>2, <1>3

\* The walk begins: the root's frame holds what has been counted.
LEMMA TotalsStart ==
  ASSUME WalkInv, Totals, Start \/ StartMissing
  PROVE  Totals' /\ RootWhole'
<1>1. pc = "start" /\ bytes = 0 /\ emitted' = None
  BY DEF Start, StartMissing, Totals, WalkInv, Fresh
<1>2. RootWhole'
  BY <1>1, RecordAssumption DEF RootWhole
<1>3. CASE StartMissing
  BY <1>2, <1>3 DEF StartMissing, Totals
<1>4. CASE Start
  <2>1. PICK failures \in Failures : stack' = <<Open(Root, failures)>>
    BY <1>4 DEF Start
  <2>2. Counted(Root) \in Nat
    BY CountedTyped DEF WalkInv, Path
  <2>3. Len(stack') = 1 /\ stack'[1].bytes = Counted(Root)
    BY <2>1 DEF Open
  <2>4. bytes' = 0 + Counted(Root) /\ pc' = "walk"
    BY <1>1, <1>4 DEF Start, Account
  <2>5. Holds(stack', 0 + 1, 0 + stack'[0 + 1].bytes)
    BY <2>2, <2>3, HoldsNone, HoldsMore
  <2>6. Holds(stack', Len(stack'), bytes')
    BY <2>2, <2>3, <2>4, <2>5
  <2> QED
    BY <1>2, <2>4, <2>6 DEF Totals, Holds
<1> QED
  BY <1>3, <1>4

\* An entry is passed over or missed.
LEMMA TotalsPassed ==
  ASSUME WalkInv, Totals, NEW n \in Node, Exclude(n) \/ Miss(n) \/ TooMuch(n)
  PROVE  Totals' /\ RootWhole'
<1>1. pc = "walk" /\ emitted' = None
  BY DEF Exclude, Miss, TooMuch, Visitable, Walking
<1>2. pc' = "limit" \/ Unmoved
  BY WalkPassed
<1>3. CASE pc' = "limit"
  BY <1>1, <1>3, RecordAssumption DEF Totals, RootWhole
<1>4. CASE Unmoved
  <2>1. Holds(stack', Len(stack), bytes)
    BY <1>1, <1>4, FramesTyped, HoldsSame DEF Unmoved, Totals, Depths
  <2> QED
    BY <1>1, <1>4, <2>1, RecordAssumption DEF Unmoved, Totals, RootWhole, Holds
<1> QED
  BY <1>2, <1>3, <1>4

\* A directory is entered: its frame holds its own size.
LEMMA TotalsDescend ==
  ASSUME WalkInv, Totals, NEW n \in Node, Descend(n)
  PROVE  Totals' /\ RootWhole'
<1>1. pc = "walk" /\ pc' = pc /\ emitted' = None /\ bytes' = bytes + Counted(n)
  BY DEF Descend, Visitable, Walking, Account
<1>2. Len(stack) \in Nat /\ bytes \in Nat /\ Counted(n) \in Nat
  BY FramesTyped, CountedTyped DEF WalkInv, Path
<1>3. /\ Len(stack') = Len(stack) + 1 /\ stack'[Len(stack) + 1].bytes = Counted(n)
      /\ \A i \in 1..Len(stack) : stack'[i].bytes = stack[i].bytes
  BY WalkDescend DEF Depths
<1>4. Holds(stack', Len(stack), bytes)
  BY <1>1, <1>2, <1>3, HoldsSame DEF Totals
<1>5. Holds(stack', Len(stack) + 1, bytes + stack'[Len(stack) + 1].bytes)
  BY <1>2, <1>3, <1>4, HoldsMore
<1>6. Holds(stack', Len(stack'), bytes')
  BY <1>1, <1>3, <1>5
<1> QED
  BY <1>1, <1>6, RecordAssumption DEF Totals, RootWhole, Holds

\* What the last frame is given is held by all together.
LEMMA HoldsGrown ==
  ASSUME NEW s, NEW t, NEW n \in Nat, NEW b, NEW k \in Nat,
         s[n + 1].bytes \in Nat, t[n + 1].bytes = s[n + 1].bytes + k,
         \A i \in 1..n : t[i].bytes = s[i].bytes
  PROVE  Holds(s, n + 1, b) => Holds(t, n + 1, b + k)
<1>1. SUFFICES ASSUME Holds(s, n + 1, b) PROVE Holds(t, n + 1, b + k)
  OBVIOUS
<1>2. PICK c \in Nat : b = c + s[n + 1].bytes /\ Holds(s, n, c)
  BY <1>1, HoldsLess
<1>3. Holds(t, n, c)
  BY <1>2, HoldsSame
<1>4. t[n + 1].bytes \in Nat
  OBVIOUS
<1>5. Holds(t, n + 1, c + t[n + 1].bytes)
  BY <1>3, <1>4, HoldsMore
<1>6. c + t[n + 1].bytes = b + k
  BY <1>2
<1> QED
  BY <1>5, <1>6

\* An entry is measured.
LEMMA TotalsMeasure ==
  ASSUME WalkInv, Totals, NEW n \in Node, Measure(n)
  PROVE  Totals' /\ RootWhole'
<1>1. pc = "walk" /\ bytes' = bytes + Counted(n) /\ emitted' \notin DirectoryRecord
  <2>1. pc = "walk" /\ bytes' = bytes + Counted(n)
    BY DEF Measure, Visitable, Walking, Account
  <2>2. emitted' = None \/ emitted'.kind = "file"
    BY WalkMeasure
  <2> QED
    BY <2>1, <2>2, RecordAssumption DEF DirectoryRecord
<1>2. /\ Len(stack') = Len(stack) /\ Len(stack) \in Depths
      /\ \A i \in Depths : i # Len(stack) => stack'[i].bytes = stack[i].bytes
      /\ stack'[Len(stack)].bytes = Top.bytes + Counted(n)
  BY WalkMeasure
<1>3. Counted(n) \in Nat
  BY CountedTyped DEF WalkInv, Path
<1>4. PICK m \in Nat : Len(stack) = m + 1
  <2>1. Len(stack) - 1 \in Nat /\ Len(stack) = (Len(stack) - 1) + 1
    BY <1>2, FramesTyped DEF Depths
  <2> QED
    BY <2>1
<1>5. /\ stack[m + 1].bytes \in Nat
      /\ stack'[m + 1].bytes = stack[m + 1].bytes + Counted(n)
      /\ \A i \in 1..m : stack'[i].bytes = stack[i].bytes
  <2>1. \A i \in 1..m : i \in Depths /\ i # Len(stack)
    BY <1>4 DEF Depths
  <2> QED
    BY <1>2, <1>4, <2>1, FramesTyped DEF Depths, Top
<1>6. Holds(stack, m + 1, bytes)
  BY <1>1, <1>4 DEF Totals
<1>7. Holds(stack', m + 1, bytes + Counted(n))
  BY <1>3, <1>5, <1>6, HoldsGrown
<1>8. Holds(stack', Len(stack'), bytes')
  BY <1>1, <1>2, <1>4, <1>7
<1>9. pc' # "start"
  BY <1>1 DEF Measure, Refused
<1> QED
  BY <1>1, <1>8, <1>9 DEF Totals, RootWhole, Holds

\* A directory is left: the frame above it gets what it held, or it is the

\* root and held everything.
LEMMA TotalsLeave ==
  ASSUME WalkInv, Totals, Leave
  PROVE  Totals' /\ RootWhole'
<1>1. pc = "walk" /\ bytes' = bytes
  BY DEF Leave, Walking
<1>2. /\ Len(stack) \in Depths /\ Len(stack') = Len(stack) - 1
      /\ emitted'.path = Top.path /\ emitted'.bytes = Top.bytes
      /\ \A i \in 1..Len(stack') :
           stack'[i].bytes = IF i = Len(stack') THEN stack[i].bytes + Top.bytes
                             ELSE stack[i].bytes
      /\ stack' # <<>> => Top.path \in Node /\ pc' \in {"walk", "failed"}
      /\ stack' = <<>> => pc' \in {"complete", "failed"}
  BY WalkLeave
<1>3. PICK m \in Nat : Len(stack) = m + 1
  <2>1. Len(stack) - 1 \in Nat /\ Len(stack) = (Len(stack) - 1) + 1
    BY <1>2, FramesTyped DEF Depths
  <2> QED
    BY <2>1
<1>4. /\ Len(stack') = m /\ Top = stack[m + 1]
      /\ \A i \in 1..(m + 1) : stack[i].bytes \in Nat
  BY <1>2, <1>3, FramesTyped DEF Top
<1>5. PICK c \in Nat : bytes = c + stack[m + 1].bytes /\ Holds(stack, m, c)
  <2>1. Holds(stack, m + 1, bytes) /\ stack[m + 1].bytes \in Nat
    BY <1>1, <1>3, <1>4 DEF Totals
  <2> QED
    BY <2>1, HoldsLess
<1>6. CASE stack' = <<>>
  <2>1. m = 0
    BY <1>4, <1>6
  <2>2. c = 0
    BY <1>5, <2>1, HoldsNothing
  <2>3. emitted'.bytes = bytes'
    BY <1>1, <1>2, <1>4, <1>5, <2>2
  <2> QED
    BY <1>2, <1>6, <2>3 DEF Totals, RootWhole
<1>7. CASE stack' # <<>>
  <2>1. PICK k \in Nat : m = k + 1
    <3>1. m # 0
      <4>1. stack' \in Seq(Frame)
        BY WalkLeave DEF WalkInv, TypeOK
      <4> QED
        BY <1>4, <1>7, <4>1
    <3>2. m - 1 \in Nat /\ m = (m - 1) + 1
      BY <3>1
    <3> QED
      BY <3>2
  <2>2. /\ stack[k + 1].bytes \in Nat /\ Top.bytes \in Nat
        /\ stack'[k + 1].bytes = stack[k + 1].bytes + Top.bytes
        /\ \A i \in 1..k : stack'[i].bytes = stack[i].bytes
    <3>1. \A i \in 1..k : i \in 1..m /\ i # m
      BY <2>1
    <3>2. m \in 1..m /\ m \in 1..(m + 1) /\ m + 1 \in 1..(m + 1)
      BY <2>1
    <3> QED
      BY <1>2, <1>4, <2>1, <3>1, <3>2
  <2>3. Holds(stack', k + 1, c + Top.bytes)
    BY <1>5, <2>1, <2>2, HoldsGrown
  <2>4. Holds(stack', Len(stack'), bytes')
    BY <1>1, <1>4, <1>5, <2>1, <2>3
  <2>5. emitted'.path # Root /\ pc' # "start"
    BY <1>2, <1>7, PathAssumption
  <2> QED
    BY <2>4, <2>5 DEF Totals, RootWhole, Holds
<1> QED
  BY <1>6, <1>7

\* Every step of the walk.
LEMMA TotalsStep ==
  ASSUME WalkInv, Totals, Step
  PROVE  /\ Totals' /\ RootWhole' /\ WalkInv' /\ pc \in {"start", "walk"}
         /\ fs' = fs /\ cancelled' = cancelled
         /\ warnings' \in {warnings, warnings + 1}
         /\ pc' = "cancelled" => cancelled'
<1>1. WalkInv'
  BY WalkInductive DEF Next
<1>2. CASE Start \/ StartMissing
  BY <1>1, <1>2, TotalsStart, FramesTyped DEF Start, StartMissing, Failures
<1>3. CASE Leave
  BY <1>1, <1>3, TotalsLeave, FramesTyped DEF Leave, Walking, Refused
<1>4. CASE Stop
  BY <1>1, <1>4, RecordAssumption DEF Stop, Totals, RootWhole
<1>5. ASSUME NEW n \in Node, Visit(n)
      PROVE  /\ Totals' /\ RootWhole' /\ pc \in {"start", "walk"}
             /\ fs' = fs /\ cancelled' = cancelled
             /\ warnings' \in {warnings, warnings + 1}
             /\ pc' = "cancelled" => cancelled'
  <2>1. CASE Exclude(n) \/ Miss(n) \/ TooMuch(n)
    BY <2>1, TotalsPassed DEF Exclude, Miss, TooMuch, Visitable, Walking
  <2>2. CASE Descend(n)
    BY <2>2, TotalsDescend, FramesTyped DEF Descend, Visitable, Walking, Failures
  <2>3. CASE Measure(n)
    BY <2>3, TotalsMeasure DEF Measure, Visitable, Walking, Refused
  <2> QED
    BY <1>5, <2>1, <2>2, <2>3 DEF Visit
<1> QED
  BY <1>1, <1>2, <1>3, <1>4, <1>5 DEF Step
-----------------------------------------------------------------------------
(* The events and their reader.                                            *)

Kept == Builder!Known
Directory ==
  [parent: Path \cup {None}, bytes: Nat, count: Nat, children: SUBSET Path]
Planted ==
  /\ Kept \subseteq Path
  /\ tree \in [Kept -> Directory]
  /\ pending \in [Path -> SUBSET Path]

\* What the builder makes of a row.
LEMMA Adding ==
  ASSUME Planted, NEW row \in DirectoryRecord, Builder!Add(row)
  PROVE  LET p == row.path IN
         /\ p \notin Kept /\ Kept' = Kept \cup {p} /\ Planted'
         /\ \A q \in Kept : /\ tree'[q].bytes = tree[q].bytes
                            /\ tree'[q].count = tree[q].count
         /\ tree'[p].bytes = row.bytes /\ tree'[p].count = row.children
         /\ \A q \in Kept' :
              tree'[q].children =
                (IF q = p THEN pending[p] ELSE tree[q].children)
                \cup (IF q = row.parent /\ q \in Kept THEN {p} ELSE {})
         /\ row.parent # p =>
              \A q \in Path :
                pending'[q] = IF q = p THEN {}
                              ELSE IF q = row.parent /\ q \notin Kept
                              THEN pending[q] \cup {p} ELSE pending[q]
<1> DEFINE p == row.path  above == row.parent
           node == [parent |-> above, bytes |-> row.bytes,
                    count |-> row.children, children |-> pending[p]]
           grown == [q \in Kept \cup {p} |-> IF q = p THEN node ELSE tree[q]]
           waiting == [pending EXCEPT ![p] = {}]
<1>1. /\ p \in Path /\ above \in Path \cup {None} /\ p \notin Kept
      /\ row.bytes \in Nat /\ row.children \in Nat
  BY DEF Builder!Add, Builder!Takes, Kept, DirectoryRecord
<1>2. IF above \in Kept
      THEN /\ tree' = [grown EXCEPT ![above].children = @ \cup {p}]
           /\ pending' = waiting
      ELSE /\ tree' = grown
           /\ pending' = IF above = None THEN waiting
                         ELSE [waiting EXCEPT ![above] = @ \cup {p}]
  BY DEF Builder!Add, Kept
<1>3. /\ node \in Directory /\ node.children = pending[p]
      /\ node.count = row.children /\ node.bytes = row.bytes
  BY <1>1 DEF Planted, Directory
<1> HIDE DEF node
<1>4. /\ grown \in [Kept \cup {p} -> Directory] /\ grown[p] = node
      /\ \A q \in Kept : grown[q] = tree[q]
  BY <1>1, <1>3 DEF Planted
<1>5. /\ waiting \in [Path -> SUBSET Path] /\ waiting[p] = {}
      /\ \A q \in Path : q # p => waiting[q] = pending[q]
  BY <1>1 DEF Planted
<1> HIDE DEF grown, waiting
<1>6. /\ tree' \in [Kept \cup {p} -> Directory]
      /\ \A q \in Kept \cup {p} :
           /\ tree'[q].count = grown[q].count /\ tree'[q].bytes = grown[q].bytes
           /\ tree'[q].children = IF q = above /\ q \in Kept
                                  THEN grown[q].children \cup {p}
                                  ELSE grown[q].children
  <2>1. CASE above \in Kept
    <3> DEFINE old == grown[above]
               new == [old EXCEPT !.children = old.children \cup {p}]
    <3>1. old \in Directory /\ above \in Kept \cup {p}
      BY <1>4, <2>1
    <3>2. /\ new \in Directory /\ new.count = old.count /\ new.bytes = old.bytes
          /\ new.children = old.children \cup {p}
      BY <1>1, <3>1 DEF Directory
    <3>3. tree' = [grown EXCEPT ![above] = new]
      BY <1>2, <2>1
    <3> HIDE DEF new
    <3>4. /\ tree' \in [Kept \cup {p} -> Directory] /\ tree'[above] = new
          /\ \A q \in Kept \cup {p} : q # above => tree'[q] = grown[q]
      BY <1>4, <3>1, <3>2, <3>3
    <3> QED
      BY <2>1, <3>2, <3>4
  <2>2. CASE above \notin Kept
    BY <1>2, <1>4, <2>2
  <2> QED
    BY <2>1, <2>2
<1>7. /\ pending' \in [Path -> SUBSET Path]
      /\ \A q \in Path : q \notin {p, above} => pending'[q] = pending[q]
      /\ p # above => pending'[p] = {}
      /\ above \in Kept => pending'[above] = pending[above]
      /\ above \in Path /\ above \notin Kept /\ above # p =>
           pending'[above] = pending[above] \cup {p}
  <2>1. None \notin Path
    BY PathAssumption DEF Path
  <2>2. CASE above \in Kept \/ above = None
    <3>1. pending' = waiting /\ above # p
      BY <1>1, <1>2, <2>1, <2>2
    <3>2. above \in Kept => above \in Path
      BY DEF Planted
    <3> QED
      BY <1>1, <1>5, <2>1, <2>2, <3>1, <3>2
  <2>3. CASE above \notin Kept /\ above # None
    <3>1. pending' = [waiting EXCEPT ![above] = waiting[above] \cup {p}]
      BY <1>2, <2>3
    <3>2. above \in Path /\ waiting[above] \cup {p} \in SUBSET Path
      BY <1>1, <1>5, <2>3
    <3> QED
      BY <1>1, <1>5, <2>3, <3>1, <3>2
  <2> QED
    BY <2>2, <2>3
<1>8. Kept' = Kept \cup {p}
  BY <1>6 DEF Kept, Builder!Known
<1>9. Planted'
  BY <1>1, <1>6, <1>7, <1>8 DEF Planted
<1>10. /\ \A q \in Kept : /\ tree'[q].bytes = tree[q].bytes
                          /\ tree'[q].count = tree[q].count
       /\ tree'[p].bytes = row.bytes /\ tree'[p].count = row.children
  BY <1>3, <1>4, <1>6
<1>11. \A q \in Kept \cup {p} :
         tree'[q].children = (IF q = p THEN pending[p] ELSE tree[q].children)
                             \cup (IF q = above /\ q \in Kept THEN {p} ELSE {})
  <2>1. \A q \in Kept \cup {p} :
          grown[q].children = IF q = p THEN pending[p] ELSE tree[q].children
    BY <1>1, <1>3, <1>4
  <2> QED
    BY <1>6, <2>1
<1>12. above # p =>
         \A q \in Path : pending'[q] = IF q = p THEN {}
                                     ELSE IF q = above /\ q \notin Kept
                                     THEN pending[q] \cup {p} ELSE pending[q]
  BY <1>1, <1>7
<1> QED
  BY <1>1, <1>8, <1>9, <1>10, <1>11, <1>12

\* How the reader takes a terminal event, and one of the walk.
LEMMA TerminalHeard ==
  ASSUME NEW type \in Terminal, Hear(Plain(type)), heard \in {"nothing", "open", "rejected"}
  PROVE  /\ heard' = IF heard = "open" THEN type ELSE "rejected"
         /\ announced' = IF type = "complete" THEN finished ELSE announced
         /\ UNCHANGED <<tree, pending>>
<1>1. Plain(type).type = type /\ type \notin {"start", "directory", "progress", "warning"}
  BY DEF Plain, Terminal
<1> QED
  BY <1>1 DEF Hear, Terminal

LEMMA LooseHeard ==
  ASSUME NEW event, event.type \in Loose \cup {"start"}, Hear(event),
         heard \in {"nothing", "open", "rejected"}
  PROVE  /\ heard' \in {"open", "rejected"}
         /\ announced' = announced
         /\ heard = "open" /\ event.type # "start" =>
              \/ heard' = "open"
              \/ event.type = "directory" /\ ~ Builder!Takes(event.record)
         /\ \/ UNCHANGED <<tree, pending>>
            \/ event.type = "directory" /\ Builder!Add(event.record)
         /\ heard = "open" /\ event.type = "directory" /\ Builder!Takes(event.record) =>
              Builder!Add(event.record)
         /\ event.type # "directory" => UNCHANGED <<tree, pending>>
         /\ heard = "nothing" /\ event.type = "start" => heard' = "open"
BY DEF Hear, Loose, Terminal, Builder!Add

\* The process ends with an event of that type and that status, or it fails
\* for want of room.
Concluded(type, code) ==
  /\ running' = "leaving" /\ outbox' = <<>>
  /\ UNCHANGED <<tree, pending, shown>>
  /\ \/ /\ exit' = code
        /\ heard' = IF heard = "open" THEN type ELSE "rejected"
        /\ announced' = IF type = "complete" THEN finished ELSE announced
     \/ exit' \in {1, 3} /\ heard' \in {"error", "rejected"}

\* A terminal event that is emitted.
LEMMA EmittedConcludes ==
  ASSUME heard \in {"nothing", "open", "rejected"}, NEW type \in Terminal,
         NEW size, NEW code, Emit(Plain(type), size), Exit(code)
  PROVE  Concluded(type, code)
<1>1. shown' = shown
  BY DEF Emit, Write, Plain, Terminal
<1> QED
  BY <1>1, TerminalHeard DEF Emit, Write, Exit, Concluded

\* A failure never looks like the end of a scan.
LEMMA FailureConcludes ==
  ASSUME heard \in {"nothing", "open", "rejected"}, NEW type, NEW code,
         ResourceFailure \/ BoundedError
  PROVE  Concluded(type, code)
<1>1. ASSUME NEW size, Write(Plain("error"), size)
      PROVE  UNCHANGED <<tree, pending, shown>> /\ heard' \in {"error", "rejected"}
  <2>1. shown' = shown
    BY <1>1 DEF Write, Plain, Terminal
  <2> QED
    BY <1>1, <2>1, TerminalHeard DEF Write, Terminal
<1>2. CASE BoundedError
  BY <1>1, <1>2 DEF BoundedError, Exit, Concluded
<1>3. CASE ResourceFailure
  <2>1. PICK size \in Sizes :
          \/ Emit(Plain("error"), ErrorSize(size)) /\ Exit(3)
          \/ BoundedError
    BY <1>3 DEF ResourceFailure
  <2> QED
    BY <1>1, <1>2, <2>1 DEF Emit, Exit, Concluded
<1> QED
  BY <1>2, <1>3

\* A terminal event, or a failure.
LEMMA ConcludeConcludes ==
  ASSUME heard \in {"nothing", "open", "rejected"}, NEW type \in Terminal, NEW code,
         Conclude(type, code)
  PROVE  Concluded(type, code)
BY EmittedConcludes, FailureConcludes DEF Conclude
-----------------------------------------------------------------------------
(* The invariant of what is shown.                                         *)

\* The events of a step are of different types, and in its order.
Distinct(s) == \A i, j \in 1..Len(s) : s[i].type = s[j].type => i = j
Has(s, type) == \E i \in 1..Len(s) : s[i].type = type
Written(count) == IF count > MaxWarnings THEN MaxWarnings ELSE count

Outgoing ==
  /\ Distinct(outbox)
  /\ \A i \in 1..Len(outbox) :
       outbox[i].type = "directory" => outbox[i].record \in DirectoryRecord
WarningsTold ==
  /\ shown \in Nat
  /\ running \in Busy =>
       shown + (IF Has(outbox, "warning") THEN 1 ELSE 0) = Written(warnings)
RootLast ==
  /\ pc \in {"start", "walk"} => Root \notin Kept
  /\ Root \in Kept => tree[Root].bytes = bytes
  /\ \A i \in 1..Len(outbox) :
       outbox[i].type = "directory" /\ outbox[i].record.path = Root =>
         outbox[i].record.bytes = bytes /\ pc \notin {"start", "walk"}
Closed ==
  /\ pc = "cancelled" => cancelled
  /\ running = "complete" => pc = "complete"
  /\ heard = "complete" =>
       /\ running \in {"leaving", "ended", "killed"} /\ exit \in {0, None}
       /\ pc = "complete"
       /\ announced = finished /\ shown = Written(warnings)

WholeInv ==
  /\ StreamInv /\ WalkInv /\ Totals /\ Planted
  /\ Outgoing /\ WarningsTold /\ RootLast /\ Closed

\* What is left when the first event is taken.
LEMMA TailOf ==
  ASSUME NEW s \in Seq(Event), s # <<>>, Distinct(s)
  PROVE  /\ Tail(s) \in Seq(Event) /\ Len(Tail(s)) \in Nat
         /\ Len(Tail(s)) = Len(s) - 1 /\ Head(s) = s[1] /\ 1 \in 1..Len(s)
         /\ \A i \in 1..Len(Tail(s)) : Tail(s)[i] = s[i + 1] /\ i + 1 \in 1..Len(s)
         /\ Distinct(Tail(s))
         /\ \A type : Has(Tail(s), type) <=> Has(s, type) /\ Head(s).type # type
<1>1. /\ Tail(s) \in Seq(Event) /\ Len(Tail(s)) \in Nat
      /\ Len(Tail(s)) = Len(s) - 1 /\ Head(s) = s[1] /\ 1 \in 1..Len(s)
      /\ \A i \in 1..Len(Tail(s)) : Tail(s)[i] = s[i + 1] /\ i + 1 \in 1..Len(s)
  OBVIOUS
<1>2. Distinct(Tail(s))
  <2>1. ASSUME NEW i \in 1..Len(Tail(s)), NEW j \in 1..Len(Tail(s)),
               Tail(s)[i].type = Tail(s)[j].type
        PROVE  i = j
    <3>1. i + 1 = j + 1
      BY <1>1, <2>1 DEF Distinct
    <3> QED
      BY <3>1
  <2> QED
    BY <2>1 DEF Distinct
<1>3. ASSUME NEW type, Has(Tail(s), type) PROVE Has(s, type) /\ Head(s).type # type
  <2>1. PICK i \in 1..Len(Tail(s)) : Tail(s)[i].type = type
    BY <1>3 DEF Has
  <2>2. i + 1 \in 1..Len(s) /\ s[i + 1].type = type /\ i + 1 # 1
    BY <1>1, <2>1
  <2> QED
    BY <1>1, <2>2 DEF Has, Distinct
<1>4. ASSUME NEW type, Has(s, type), Head(s).type # type PROVE Has(Tail(s), type)
  <2>1. PICK i \in 1..Len(s) : s[i].type = type
    BY <1>4 DEF Has
  <2>2. i # 1
    BY <1>1, <1>4, <2>1
  <2>3. i - 1 \in 1..Len(Tail(s)) /\ (i - 1) + 1 = i
    BY <1>1, <2>2
  <2> QED
    BY <1>1, <2>1, <2>3 DEF Has
<1> QED
  BY <1>1, <1>2, <1>3, <1>4

\* The events of a step of the walk.
LEMMA Pieces ==
  ASSUME NEW a \in Seq(Event), NEW b \in Seq(Event), NEW c \in Seq(Event),
         Len(a) <= 1, Len(b) <= 1, Len(c) <= 1,
         \A i \in 1..Len(a) : a[i].type = "progress",
         \A i \in 1..Len(b) : b[i].type = "warning",
         \A i \in 1..Len(c) : c[i].type = "directory"
  PROVE  LET s == a \o b \o c IN
         /\ Distinct(s)
         /\ Has(s, "warning") <=> Len(b) = 1
         /\ Has(s, "directory") <=> Len(c) = 1
         /\ \A i \in 1..Len(s) : s[i].type = "directory" => s[i] = c[1]
<1> DEFINE s == a \o b \o c
<1>1. PICK k \in Nat, m \in Nat, n \in Nat :
        /\ k = Len(a) /\ m = Len(b) /\ n = Len(c)
        /\ k \in {0, 1} /\ m \in {0, 1} /\ n \in {0, 1}
  OBVIOUS
<1>2. /\ Len(s) = k + m + n
      /\ \A i \in 1..(k + m + n) :
           s[i] = IF i <= k THEN a[i] ELSE IF i <= k + m THEN b[i - k]
                  ELSE c[i - k - m]
  BY <1>1
<1> HIDE DEF s
<1>3. \A i \in 1..(k + m + n) :
        /\ i <= k => s[i].type = "progress" /\ i = 1
        /\ i > k /\ i <= k + m => s[i].type = "warning" /\ i = k + 1 /\ m = 1
        /\ i > k + m => s[i].type = "directory" /\ i = k + m + 1 /\ n = 1 /\ s[i] = c[1]
  <2>1. ASSUME NEW i \in 1..(k + m + n), i <= k PROVE s[i].type = "progress" /\ i = 1
    BY <1>1, <1>2, <2>1
  <2>2. ASSUME NEW i \in 1..(k + m + n), i > k, i <= k + m
        PROVE  s[i].type = "warning" /\ i = k + 1 /\ m = 1
    <3>1. s[i] = b[i - k] /\ i - k \in 1..m /\ m = 1
      BY <1>1, <1>2, <2>2
    <3> QED
      BY <1>1, <3>1
  <2>3. ASSUME NEW i \in 1..(k + m + n), i > k + m
        PROVE  s[i].type = "directory" /\ i = k + m + 1 /\ n = 1 /\ s[i] = c[1]
    <3>1. s[i] = c[i - k - m] /\ i - k - m \in 1..n /\ n = 1 /\ i - k - m = 1
      BY <1>1, <1>2, <2>3
    <3> QED
      BY <1>1, <3>1
  <2> QED
    BY <2>1, <2>2, <2>3
<1>4. Distinct(s)
  <2>1. \A i \in 1..(k + m + n) :
          \/ s[i].type = "progress" /\ i = 1
          \/ s[i].type = "warning" /\ i = k + 1
          \/ s[i].type = "directory" /\ i = k + m + 1
    BY <1>1, <1>3
  <2>2. ASSUME NEW i \in 1..(k + m + n), NEW j \in 1..(k + m + n), s[i].type = s[j].type
        PROVE  i = j
    BY <2>1, <2>2
  <2> QED
    BY <1>2, <2>2 DEF Distinct
<1>5. Has(s, "warning") <=> m = 1
  <2>1. m = 1 => k + 1 \in 1..(k + m + n) /\ k + 1 > k /\ k + 1 <= k + m
    BY <1>1
  <2> QED
    BY <1>1, <1>2, <1>3, <2>1 DEF Has
<1>6. Has(s, "directory") <=> n = 1
  <2>1. n = 1 => k + m + 1 \in 1..(k + m + n) /\ k + m + 1 > k + m
    BY <1>1
  <2> QED
    BY <1>1, <1>2, <1>3, <2>1 DEF Has
<1>7. \A i \in 1..Len(s) : s[i].type = "directory" => s[i] = c[1]
  BY <1>1, <1>2, <1>3
<1> QED
  BY <1>1, <1>4, <1>5, <1>6, <1>7 DEF s

\* What a step of the walk sends.
LEMMA WalkSends ==
  ASSUME Walk
  PROVE  /\ running = "scan" /\ outbox = <<>> /\ Step
         /\ Distinct(outbox')
         /\ Has(outbox', "warning") <=> warnings' # warnings /\ Shown(warnings')
         /\ Has(outbox', "directory") <=> emitted' \in DirectoryRecord
         /\ \A i \in 1..Len(outbox') : outbox'[i].type = "directory" =>
              outbox'[i].record = emitted' /\ emitted' \in DirectoryRecord
         /\ UNCHANGED <<running, total, sent, largest, exit, shown, terminals, reader>>
<1> DEFINE noted == <<Plain("progress")>>  warned == <<Plain("warning")>>
           left == <<[type |-> "directory", record |-> emitted']>>
<1>1. PICK progress \in BOOLEAN :
        outbox' = (IF progress THEN noted ELSE <<>>)
                  \o (IF warnings' # warnings /\ Shown(warnings') THEN warned ELSE <<>>)
                  \o (IF emitted' \in DirectoryRecord THEN left ELSE <<>>)
  BY DEF Walk
<1> DEFINE a == IF progress THEN noted ELSE <<>>
           b == IF warnings' # warnings /\ Shown(warnings') THEN warned ELSE <<>>
           c == IF emitted' \in DirectoryRecord THEN left ELSE <<>>
<1>2. /\ a \in Seq(Event) /\ Len(a) <= 1
      /\ \A i \in 1..Len(a) : a[i].type = "progress"
  <2>1. CASE progress
    BY <2>1 DEF Plain, Event, Loose
  <2>2. CASE ~ progress
    BY <2>2
  <2> QED
    BY <2>1, <2>2
<1>3. /\ b \in Seq(Event) /\ Len(b) <= 1
      /\ \A i \in 1..Len(b) : b[i].type = "warning"
      /\ Len(b) = 1 <=> warnings' # warnings /\ Shown(warnings')
  <2>1. CASE warnings' # warnings /\ Shown(warnings')
    BY <2>1 DEF Plain, Event, Loose
  <2>2. CASE ~ (warnings' # warnings /\ Shown(warnings'))
    BY <2>2
  <2> QED
    BY <2>1, <2>2
<1>4. /\ c \in Seq(Event) /\ Len(c) <= 1
      /\ \A i \in 1..Len(c) : c[i].type = "directory"
      /\ Len(c) = 1 <=> emitted' \in DirectoryRecord
      /\ Len(c) = 1 => c[1].record = emitted'
  <2>1. CASE emitted' \in DirectoryRecord
    BY <2>1 DEF Event, Loose
  <2>2. CASE emitted' \notin DirectoryRecord
    BY <2>2
  <2> QED
    BY <2>1, <2>2
<1>5. outbox' = a \o b \o c
  BY <1>1
<1> HIDE DEF a, b, c
<1>6. /\ Distinct(outbox')
      /\ Has(outbox', "warning") <=> Len(b) = 1
      /\ Has(outbox', "directory") <=> Len(c) = 1
      /\ \A i \in 1..Len(outbox') : outbox'[i].type = "directory" => outbox'[i] = c[1]
  BY <1>2, <1>3, <1>4, <1>5, Pieces
<1>7. \A i \in 1..Len(outbox') : outbox'[i].type = "directory" =>
        outbox'[i].record = emitted' /\ emitted' \in DirectoryRecord
  BY <1>4, <1>6 DEF Has
<1> QED
  BY <1>3, <1>4, <1>6, <1>7 DEF Walk

\* What is not touched stays true.
LEMMA WholeVars ==
  ASSUME WalkInv, Totals, Planted, UNCHANGED <<vars, tree, pending>>
  PROVE  WalkInv' /\ Totals' /\ Planted' /\ Kept' = Kept
<1>1. WalkInv'
  BY WalkInductive
<1>2. Totals'
  BY DEF Totals, vars, Holds
<1>3. Kept' = Kept
  BY DEF Kept, Builder!Known
<1> QED
  BY <1>1, <1>2, <1>3 DEF Planted

\* The process has ended.
LEMMA WholeConcluded ==
  ASSUME WholeInv, StreamInv', running \in Busy,
         NEW type \in Terminal, NEW code, Concluded(type, code),
         type = "complete" => code = 0 /\ pc = "complete" /\ outbox = <<>>,
         UNCHANGED vars
  PROVE  WholeInv'
<1>1. WalkInv' /\ Totals' /\ Planted' /\ Kept' = Kept
  BY WholeVars DEF WholeInv, Concluded
<1>2. /\ Len(outbox') = 0 /\ running' = "leaving" /\ shown' = shown /\ tree' = tree
      /\ UNCHANGED <<pc, cancelled, bytes, warnings, finished>>
  BY DEF Concluded, vars
<1>3. Outgoing'
  BY <1>2 DEF Outgoing, Distinct
<1>4. WarningsTold'
  BY <1>2 DEF WholeInv, WarningsTold, Busy, Decided
<1>5. RootLast'
  BY <1>1, <1>2 DEF WholeInv, RootLast
<1>6. Closed'
  <2>1. ASSUME heard' = "complete"
        PROVE  /\ exit' = 0 /\ pc' = "complete"
               /\ announced' = finished' /\ shown' = Written(warnings')
    <3>1. type = "complete" /\ exit' = code /\ announced' = finished
      BY <2>1 DEF Concluded, Terminal
    <3>2. ~ Has(outbox, "warning")
      <4>1. Len(outbox) = 0
        BY <3>1
      <4> QED
        BY <4>1 DEF Has
    <3>3. shown \in Nat /\ shown + 0 = Written(warnings)
      BY <3>2 DEF WholeInv, WarningsTold
    <3> QED
      BY <1>2, <3>1, <3>3 DEF Written
  <2> QED
    BY <1>2, <2>1 DEF WholeInv, Closed
<1> QED
  BY <1>1, <1>3, <1>4, <1>5, <1>6 DEF WholeInv

\* An event of the walk is written: a warning is shown, a directory linked.
LEMMA WholeDeliver ==
  ASSUME WholeInv, StreamInv', running = "scan", outbox # <<>>,
         NEW size, Emit(Head(outbox), size), outbox' = Tail(outbox),
         UNCHANGED <<running, exit, vars>>
  PROVE  WholeInv'
<1> DEFINE event == Head(outbox)
<1>1. outbox \in Seq(Event) /\ Distinct(outbox) /\ heard \in {"open", "rejected"}
  BY DEF WholeInv, StreamInv, Counters, Budgeted, Outgoing
<1>2. /\ event = outbox[1] /\ 1 \in 1..Len(outbox)
      /\ \A i \in 1..Len(outbox') : outbox'[i] = outbox[i + 1] /\ i + 1 \in 1..Len(outbox)
      /\ Distinct(outbox')
      /\ Has(outbox', "warning") <=> Has(outbox, "warning") /\ event.type # "warning"
  BY <1>1, TailOf
<1>3. event.type \in Loose
  <2>1. event \in Event
    BY <1>1, <1>2
  <2> QED
    BY <2>1 DEF Event
<1>4. /\ heard' \in {"open", "rejected"}
      /\ \/ UNCHANGED <<tree, pending>>
         \/ event.type = "directory" /\ Builder!Add(event.record)
      /\ shown' = IF event.type = "warning" THEN shown + 1 ELSE shown
  BY <1>1, <1>3, LooseHeard DEF Emit, Write
<1>5. UNCHANGED <<pc, cancelled, bytes, warnings, finished, stack>>
  BY DEF vars
<1>6. event.type = "directory" => event.record \in DirectoryRecord
  BY <1>2 DEF WholeInv, Outgoing
<1> HIDE DEF event
<1>7. WalkInv' /\ Totals'
  BY WalkInductive, <1>5 DEF WholeInv, Totals, Holds
<1>8. /\ Planted'
      /\ \/ Kept' = Kept /\ tree' = tree
         \/ /\ event.type = "directory" /\ Kept' = Kept \cup {event.record.path}
            /\ \A q \in Kept : tree'[q].bytes = tree[q].bytes
            /\ event.record.path \notin Kept
            /\ tree'[event.record.path].bytes = event.record.bytes
  <2>1. CASE UNCHANGED <<tree, pending>>
    BY <2>1, WholeVars DEF WholeInv
  <2>2. CASE event.type = "directory" /\ Builder!Add(event.record)
    BY <1>6, <2>2, Adding DEF WholeInv
  <2> QED
    BY <1>4, <2>1, <2>2
<1>9. Outgoing'
  BY <1>2 DEF WholeInv, Outgoing
<1>10. WarningsTold'
  <2>1. /\ shown \in Nat
        /\ shown + (IF Has(outbox, "warning") THEN 1 ELSE 0) = Written(warnings)
    BY DEF WholeInv, WarningsTold, Busy
  <2>2. event.type = "warning" => Has(outbox, "warning")
    BY <1>2 DEF Has
  <2>3. shown' + (IF Has(outbox', "warning") THEN 1 ELSE 0) = Written(warnings)
    BY <1>2, <1>4, <2>1, <2>2
  <2> QED
    BY <1>4, <1>5, <2>1, <2>3 DEF WarningsTold, Written
<1>11. RootLast'
  <2>1. /\ pc \in {"start", "walk"} => Root \notin Kept
        /\ Root \in Kept => tree[Root].bytes = bytes
        /\ \A i \in 1..Len(outbox) :
             outbox[i].type = "directory" /\ outbox[i].record.path = Root =>
               outbox[i].record.bytes = bytes /\ pc \notin {"start", "walk"}
    BY DEF WholeInv, RootLast
  <2>2. event.type = "directory" /\ event.record.path = Root =>
          event.record.bytes = bytes /\ pc \notin {"start", "walk"}
    BY <1>2, <2>1
  <2>3. Root \in Kept' => tree'[Root].bytes = bytes
    BY <1>8, <2>1, <2>2
  <2>4. pc \in {"start", "walk"} => Root \notin Kept'
    BY <1>8, <2>1, <2>2
  <2>5. \A i \in 1..Len(outbox') :
          outbox'[i].type = "directory" /\ outbox'[i].record.path = Root =>
            outbox'[i].record.bytes = bytes /\ pc \notin {"start", "walk"}
    BY <1>2, <2>1
  <2> QED
    BY <1>5, <2>3, <2>4, <2>5 DEF RootLast
<1>12. Closed'
  BY <1>4, <1>5 DEF WholeInv, Closed
<1> QED
  BY <1>7, <1>8, <1>9, <1>10, <1>11, <1>12 DEF WholeInv

\* A step of the walk leaves its events in the outbox.
LEMMA WholeWalk ==
  ASSUME WholeInv, StreamInv', Walk
  PROVE  WholeInv'
<1>1. /\ running = "scan" /\ outbox = <<>> /\ Step /\ Distinct(outbox')
      /\ Has(outbox', "warning") <=> warnings' # warnings /\ Shown(warnings')
      /\ \A i \in 1..Len(outbox') : outbox'[i].type = "directory" =>
           outbox'[i].record = emitted' /\ emitted' \in DirectoryRecord
      /\ UNCHANGED <<running, shown, heard, announced, tree, pending, exit>>
  BY WalkSends DEF reader
<1>2. /\ Totals' /\ RootWhole' /\ WalkInv' /\ pc \in {"start", "walk"}
      /\ cancelled' = cancelled /\ warnings' \in {warnings, warnings + 1}
      /\ pc' = "cancelled" => cancelled'
  BY <1>1, TotalsStep DEF WholeInv
<1>3. Planted' /\ Kept' = Kept
  BY <1>1 DEF WholeInv, Planted, Kept, Builder!Known
<1>4. Outgoing'
  BY <1>1 DEF Outgoing
<1>5. WarningsTold'
  <2>1. ~ Has(outbox, "warning")
    <3>1. Len(outbox) = 0
      BY <1>1
    <3> QED
      BY <3>1 DEF Has
  <2>2. shown \in Nat /\ shown + 0 = Written(warnings)
    BY <1>1, <2>1 DEF WholeInv, WarningsTold, Busy
  <2>3. warnings \in Nat /\ MaxWarnings \in Nat
    BY FramesTyped, BudgetAssumption DEF WholeInv
  <2>4. shown + (IF Has(outbox', "warning") THEN 1 ELSE 0) = Written(warnings')
    BY <1>1, <1>2, <2>2, <2>3 DEF Written, Shown
  <2> QED
    BY <1>1, <2>2, <2>4 DEF WarningsTold, Written
<1>6. RootLast'
  <2>1. Root \notin Kept'
    BY <1>2, <1>3 DEF WholeInv, RootLast
  <2> QED
    BY <1>1, <1>2, <2>1 DEF RootLast, RootWhole
<1>7. Closed'
  <2>1. heard # "complete"
    BY <1>1 DEF WholeInv, Closed
  <2> QED
    BY <1>1, <1>2, <2>1 DEF Closed
<1> QED
  BY <1>2, <1>3, <1>4, <1>5, <1>6, <1>7 DEF WholeInv

\* The invariant holds at first and every step preserves it.
LEMMA WholeInductive ==
  /\ StreamInit => WholeInv
  /\ WholeInv /\ [StreamNext]_all => WholeInv'
<1>1. ASSUME StreamInit PROVE WholeInv
  <2>1. StreamInv /\ WalkInv
    BY <1>1, StreamInductive, WalkInductive DEF StreamInit
  <2>2. /\ Kept = {} /\ Len(outbox) = 0 /\ outbox = <<>>
        /\ pc = "start" /\ bytes = 0 /\ warnings = 0 /\ shown = 0
        /\ heard = "nothing" /\ running = "begin"
    BY <1>1 DEF StreamInit, Init, Builder!BuilderInit, Kept, Builder!Known
  <2>3. Planted
    BY <1>1, <2>2 DEF StreamInit, Builder!BuilderInit, Planted, Kept, Builder!Known
  <2>4. ~ Has(outbox, "warning") /\ Outgoing
    BY <2>2 DEF Outgoing, Has, Distinct
  <2>5. WarningsTold
    BY <2>2, <2>4, BudgetAssumption DEF WarningsTold, Written
  <2> QED
    BY <2>1, <2>2, <2>3, <2>4, <2>5 DEF WholeInv, Totals, RootLast, Closed
<1>2. ASSUME WholeInv, [StreamNext]_all PROVE WholeInv'
  <2>1. /\ StreamInv' /\ StreamInv
        /\ running = "begin" => heard = "nothing"
        /\ running \in {"scan"} \cup Decided =>
             heard \in {"open", "rejected"} /\ running \in Busy
        /\ running \in Decided => outbox = <<>>
    BY <1>2, StreamInductive DEF WholeInv, StreamInv, Budgeted, Busy
  <2>2. CASE Refuse
    <3>1. running = "begin" /\ running \in Busy /\ UNCHANGED vars
      BY <2>2 DEF Refuse, Busy
    <3>2. Concluded("error", 2)
      BY <2>1, <2>2, <3>1, ConcludeConcludes, FailureConcludes DEF Refuse, Terminal
    <3> QED
      BY <1>2, <2>1, <3>1, <3>2, WholeConcluded DEF Terminal
  <2>3. CASE Begin
    <3>1. running = "begin" /\ running \in Busy /\ UNCHANGED vars
      BY <2>3 DEF Begin, Busy
    <3>2. CASE ResourceFailure
      BY <1>2, <2>1, <3>1, <3>2, FailureConcludes, WholeConcluded DEF Terminal
    <3>3. ASSUME NEW size, Emit(Plain("start"), size), running' = "scan",
                 UNCHANGED <<exit, outbox>>
          PROVE  WholeInv'
      <4>1. /\ heard' \in {"open", "rejected"} /\ UNCHANGED <<tree, pending>>
            /\ shown' = shown
        BY <2>1, <3>1, <3>3, LooseHeard DEF Emit, Write, Plain, Terminal
      <4>2. /\ WalkInv' /\ Totals' /\ Planted' /\ Kept' = Kept
        BY <1>2, <3>1, <4>1, WholeVars DEF WholeInv
      <4>3. UNCHANGED <<pc, cancelled, bytes, warnings, finished>>
        BY <3>1 DEF vars
      <4>4. Outgoing' /\ WarningsTold'
        BY <1>2, <3>1, <3>3, <4>1, <4>3 DEF WholeInv, Outgoing, WarningsTold
      <4>5. RootLast' /\ Closed'
        BY <1>2, <3>3, <4>1, <4>2, <4>3 DEF WholeInv, RootLast, Closed
      <4> QED
        BY <2>1, <4>2, <4>4, <4>5 DEF WholeInv
    <3> QED
      BY <2>3, <3>2, <3>3 DEF Begin
  <2>4. CASE Deliver
    <3>1. running = "scan" /\ outbox # <<>> /\ UNCHANGED vars
      BY <2>4 DEF Deliver
    <3>2. CASE ResourceFailure
      BY <1>2, <2>1, <3>1, <3>2, FailureConcludes, WholeConcluded DEF Terminal
    <3> QED
      BY <1>2, <2>1, <2>4, <3>1, <3>2, WholeDeliver DEF Deliver
  <2>5. CASE End
    <3>1. /\ running = "scan" /\ UNCHANGED vars /\ outbox = <<>>
          /\ UNCHANGED <<outbox, shown, heard, announced, exit, tree, pending>>
          /\ running' \in Decided
      BY <2>5 DEF End, reader, Decided
    <3>2. WalkInv' /\ Totals' /\ Planted' /\ Kept' = Kept
      BY <1>2, <3>1, WholeVars DEF WholeInv
    <3>3. UNCHANGED <<pc, cancelled, bytes, warnings, finished>>
      BY <3>1 DEF vars
    <3>4. running' = "complete" => pc = "complete"
      BY <1>2, <2>5 DEF End, Ended, WholeInv, Closed
    <3>5. Outgoing' /\ WarningsTold' /\ RootLast'
      BY <1>2, <3>1, <3>2, <3>3 DEF WholeInv, Outgoing, WarningsTold, RootLast, Busy
    <3>6. heard # "complete"
      BY <2>1, <3>1
    <3>7. Closed'
      BY <1>2, <3>1, <3>3, <3>4, <3>6 DEF WholeInv, Closed
    <3> QED
      BY <2>1, <3>2, <3>5, <3>7 DEF WholeInv
  <2>9. CASE Report
    <3>1. running \in Decided /\ UNCHANGED vars
      BY <2>9 DEF Report, Decided
    <3>2. CASE running = "limit" /\ ResourceFailure
      BY <1>2, <2>1, <3>1, <3>2, FailureConcludes, WholeConcluded DEF Terminal
    <3>3. CASE running = "cancelled" /\ Conclude("cancelled", 130)
      BY <1>2, <2>1, <3>1, <3>3, ConcludeConcludes, WholeConcluded DEF Terminal
    <3>4. CASE running = "complete" /\ Conclude("complete", 0)
      <4>1. pc = "complete"
        BY <1>2, <3>4 DEF WholeInv, Closed
      <4> QED
        BY <1>2, <2>1, <3>1, <3>4, <4>1, ConcludeConcludes, WholeConcluded DEF Terminal
    <3> QED
      BY <2>9, <3>2, <3>3, <3>4 DEF Report
  <2>6. CASE Signal
    <3>1. /\ cancelled' = TRUE
          /\ UNCHANGED <<fs, pc, stack, seen, discovered, finished, entries, bytes,
                         warnings, emitted, running, outbox, shown, heard, exit,
                         announced, tree, pending>>
      BY <2>6 DEF Signal, process, reader
    <3>2. WalkInv'
      <4>1. Chain(stack, warnings)'
        BY <1>2, <3>1 DEF WholeInv, WalkInv, Chain, Entries
      <4>2. TypeOK' /\ Fresh' /\ Bounded'
        BY <1>2, <3>1 DEF WholeInv, WalkInv, TypeOK, Fresh, Bounded
      <4> QED
        BY <4>1, <4>2 DEF WalkInv
    <3>3. Kept' = Kept
      BY <3>1 DEF Kept, Builder!Known
    <3>4. Totals' /\ Planted'
      BY <1>2, <3>1, <3>3 DEF WholeInv, Totals, Holds, Planted
    <3>5. Outgoing' /\ WarningsTold' /\ RootLast'
      BY <1>2, <3>1, <3>3 DEF WholeInv, Outgoing, WarningsTold, RootLast
    <3>6. Closed'
      BY <1>2, <3>1 DEF WholeInv, Closed
    <3> QED
      BY <2>1, <3>2, <3>4, <3>5, <3>6 DEF WholeInv
  <2>7. CASE Kill \/ Quit \/ UNCHANGED all
    <3>1. /\ UNCHANGED <<vars, tree, pending, outbox, shown, heard, announced>>
          /\ \/ running' = running /\ exit' = exit
             \/ running' = "killed" /\ exit' = None
             \/ running = "leaving" /\ running' = "ended" /\ exit' = exit
      BY <2>7 DEF Kill, Quit, all, process, reader
    <3>2. WalkInv' /\ Totals' /\ Planted' /\ Kept' = Kept
      BY <1>2, <3>1, WholeVars DEF WholeInv
    <3>3. UNCHANGED <<pc, cancelled, bytes, warnings, finished>>
      BY <3>1 DEF vars
    <3>4. Outgoing' /\ WarningsTold' /\ RootLast' /\ Closed'
      BY <1>2, <3>1, <3>2, <3>3
         DEF WholeInv, Outgoing, WarningsTold, RootLast, Closed, Busy, Decided
    <3> QED
      BY <2>1, <3>2, <3>4 DEF WholeInv
  <2>8. CASE Walk
    BY <1>2, <2>1, <2>8, WholeWalk
  <2> QED
    BY <1>2, <2>2, <2>3, <2>4, <2>5, <2>6, <2>7, <2>8, <2>9 DEF StreamNext, Proceed
<1> QED
  BY <1>1, <1>2

\* The tree that the reader shows is the whole walk: no directory is missing,
\* the root's size is what the scan counted, and every warning was written or
\* is among the suppressed ones that the last event announces.
THEOREM WholeCorrect == StreamSpec => []ShowsTheWholeWalk
<1>1. WholeInv => ShowsTheWholeWalk
  <2>1. SUFFICES ASSUME WholeInv, Shows
                 PROVE  /\ exit \in {0, None} /\ pc = "complete"
                        /\ tree[Root].bytes = bytes
                        /\ Cardinality(Builder!Known) = finished
                        /\ shown + Suppressed = warnings
    BY DEF ShowsTheWholeWalk
  <2>2. /\ heard = "complete" /\ announced = Cardinality(Builder!Known)
        /\ Root \in Kept
    BY <2>1 DEF Shows, Builder!Accepts, Kept
  <2>3. /\ exit \in {0, None} /\ pc = "complete"
        /\ announced = finished /\ shown = Written(warnings)
    BY <2>1, <2>2 DEF WholeInv, Closed
  <2>4. tree[Root].bytes = bytes
    BY <2>1, <2>2 DEF WholeInv, RootLast
  <2>5. warnings \in Nat
    BY <2>1, FramesTyped DEF WholeInv
  <2>6. shown + Suppressed = warnings
    BY <2>3, <2>5, BudgetAssumption DEF Written, Suppressed
  <2> QED
    BY <2>2, <2>3, <2>4, <2>6
<1> QED
  BY <1>1, WholeInductive, PTL DEF StreamSpec
-----------------------------------------------------------------------------
(* What a completed scan has left. As long as no directory is listed again *)
(* the directories left, those on the stack and those still to come are    *)
(* disjoint, so no record comes twice: the reader takes every one, and     *)
(* what it finds of a directory's children is what the record announces.   *)

Waiting ==
  {outbox[i].record : i \in {j \in 1..Len(outbox) : outbox[j].type = "directory"}}
Sent == Kept \cup {row.path : row \in Waiting}
Opened == {stack[i].path : i \in Depths}
Reached == Sent \cup Opened
Listed(S, p) == {q \in S : Parent(q) = p}

Apart ==
  /\ Sent \cap Opened = {}
  /\ \A row \in Waiting : /\ row \in DirectoryRecord /\ row.path \notin Kept
                           /\ row.parent = Parent(row.path)
  /\ \A i \in Depths : stack[i].left \cap Reached = {}
Rooted ==
  /\ finished = Cardinality(Sent)
  /\ pc = "start" => Sent = {}
  /\ pc = "complete" => stack = <<>> /\ (Sent # {} => Root \in Sent)
  /\ \A p \in Reached \ {Root} : fs.parent[p] \in Reached
  /\ \A S \in SUBSET (Reached \ {Root}) :
       S # {} => \E p \in S : fs.parent[p] \notin S
Announced(p, count) ==
  /\ \A i \in Depths : stack[i].path = p => stack[i].children = count
  /\ p \in Kept => tree[p].count = count
  /\ \A row \in Waiting : row.path = p => row.children = count
CountedBelow == \A p \in Path : Announced(p, Cardinality(Listed(Sent, p)))
Joined ==
  /\ \A p \in Kept : tree[p].children = Listed(Kept, p)
  /\ \A p \in Path : pending[p] = IF p \in Kept THEN {} ELSE Listed(Kept, p)
Grown == Apart /\ Rooted /\ CountedBelow /\ Joined

GrownInv ==
  /\ WholeInv
  /\ running \in Busy \/ heard = "complete" => Grown
  /\ running \in {"scan"} \cup Decided => heard = "open"
  /\ running \notin {"leaving", "ended"} => exit = None
  /\ exit = 0 => heard = "complete"

\* The paths are finite, and so is every set of them.
LEMMA PathsFinite ==
  ASSUME NEW S \in SUBSET Path
  PROVE  IsFiniteSet(S) /\ Cardinality(S) \in Nat
<1>1. Path = Node \cup {Root}
  BY DEF Path
<1>2. IsFiniteSet(Path)
  BY <1>1, PathAssumption, FS_AddElement
<1> QED
  BY <1>2, FS_Subset, FS_CardinalityType

\* The builder counts as the walk does.
LEMMA SameCount == ASSUME NEW S PROVE Builder!Cardinality(S) = Cardinality(S)
BY Zenon DEF Builder!Cardinality, Cardinality

\* One more directory is one more of its parent's.
LEMMA ListedMore ==
  ASSUME NEW S \in SUBSET Path, NEW p \in Path, p \notin S, NEW q
  PROVE  /\ Cardinality(S \cup {p}) = Cardinality(S) + 1
         /\ Cardinality(Listed(S, q)) \in Nat
         /\ Cardinality(Listed(S \cup {p}, q)) =
              IF Parent(p) = q THEN Cardinality(Listed(S, q)) + 1
              ELSE Cardinality(Listed(S, q))
<1>1. IsFiniteSet(S) /\ IsFiniteSet(Listed(S, q)) /\ p \notin Listed(S, q)
  <2>1. Listed(S, q) \in SUBSET Path
    BY DEF Listed
  <2> QED
    BY <2>1, PathsFinite DEF Listed
<1>2. Cardinality(S \cup {p}) = Cardinality(S) + 1
  BY <1>1, FS_AddElement
<1>3. Cardinality(Listed(S, q)) \in Nat
  BY <1>1, FS_CardinalityType
<1>4. CASE Parent(p) = q
  <2>1. Listed(S \cup {p}, q) = Listed(S, q) \cup {p}
    BY <1>4 DEF Listed
  <2>2. Cardinality(Listed(S, q) \cup {p}) = Cardinality(Listed(S, q)) + 1
    BY <1>1, FS_AddElement
  <2> QED
    BY <1>2, <1>3, <1>4, <2>1, <2>2
<1>5. CASE Parent(p) # q
  <2>1. Listed(S \cup {p}, q) = Listed(S, q)
    BY <1>5 DEF Listed
  <2> QED
    BY <1>2, <1>3, <1>5, <2>1
<1> QED
  BY <1>4, <1>5

\* A directory not reached has none below it, and is not its own parent.
LEMMA NoneListed ==
  ASSUME Apart, Rooted, NEW p, p \notin Reached, p # None
  PROVE  Cardinality(Listed(Sent, p)) = 0
<1>1. ASSUME NEW q \in Sent PROVE Parent(q) # p
  BY <1>1 DEF Rooted, Reached, Parent
<1>2. Listed(Sent, p) = {}
  BY <1>1 DEF Listed
<1> QED
  BY <1>2, FS_EmptySet

-----------------------------------------------------------------------------
(* The steps of the walk, as far as they matter to that.                   *)

\* A step that opens nothing and leaves nothing.
Shrunk ==
  /\ Len(stack') = Len(stack) /\ fs' = fs /\ finished' = finished
  /\ pc' \notin {"start", "complete"} /\ emitted' \notin DirectoryRecord
  /\ \A i \in Depths :
       /\ stack'[i].path = stack[i].path
       /\ stack'[i].children = stack[i].children
       /\ stack'[i].left \subseteq stack[i].left
LEMMA ShrunkBy ==
  ASSUME WalkInv, NEW n \in Node,
         Exclude(n) \/ Miss(n) \/ TooMuch(n) \/ Measure(n) \/ Stop
  PROVE  Shrunk
<1>1. stack # <<>> /\ pc = "walk" /\ stack \in Seq(Frame)
  BY DEF Exclude, Miss, TooMuch, Measure, Visitable, Walking, Stop, WalkInv,
         Bounded, TypeOK
<1>2. Len(stack) \in Depths /\ Top \in Frame
  BY <1>1, TopTyped
<1>3. None \notin DirectoryRecord
  BY RecordAssumption
<1>4. CASE TooMuch(n) \/ Stop
  BY <1>3, <1>4 DEF TooMuch, Stop, Shrunk
<1>5. CASE Exclude(n) \/ Miss(n)
  <2> DEFINE frame == [Top EXCEPT !.left = @ \ {n}]
  <2>1. /\ stack' = [stack EXCEPT ![Len(stack)] = frame]
        /\ pc' = pc /\ fs' = fs /\ finished' = finished /\ emitted' = None
    BY <1>5 DEF Exclude, Miss, Top
  <2>2. /\ frame.path = Top.path /\ frame.children = Top.children
        /\ frame.left \subseteq Top.left
    BY <1>2 DEF Frame
  <2> HIDE DEF frame
  <2>3. /\ Len(stack') = Len(stack) /\ stack'[Len(stack)] = frame
        /\ \A i \in Depths : i # Len(stack) => stack'[i] = stack[i]
    BY <1>1, <1>2, <2>1 DEF Depths
  <2> QED
    BY <1>1, <1>3, <2>1, <2>2, <2>3 DEF Shrunk, Top
<1>6. CASE Measure(n)
  <2>1. PICK left \in Remaining(n) :
          stack' = [stack EXCEPT ![Len(stack)] = Taken(Top, left, n)]
    BY <1>6 DEF Measure, Top
  <2> DEFINE frame == Taken(Top, left, n)
  <2>2. frame.path = Top.path /\ frame.children = Top.children /\ frame.left = left
    <3>1. Counted(n) \in Nat /\ left \subseteq Top.left
      BY CountedTyped DEF WalkInv, Path, Remaining
    <3> QED
      BY <1>2, <3>1, TakenTyped
  <2>3. left \subseteq Top.left /\ stack' = [stack EXCEPT ![Len(stack)] = frame]
    BY <2>1 DEF Remaining
  <2> HIDE DEF frame
  <2>4. /\ Len(stack') = Len(stack) /\ stack'[Len(stack)] = frame
        /\ \A i \in Depths : i # Len(stack) => stack'[i] = stack[i]
    BY <1>1, <1>2, <2>3 DEF Depths
  <2>5. pc' \notin {"start", "complete"} /\ fs' = fs /\ finished' = finished
    BY <1>1, <1>6 DEF Measure, Refused
  <2>6. emitted' \notin DirectoryRecord
    <3>1. emitted' = None \/ emitted'.kind = "file"
      BY <1>6, WalkMeasure
    <3> QED
      BY <1>3, <3>1 DEF DirectoryRecord
  <2> QED
    BY <2>2, <2>3, <2>4, <2>5, <2>6 DEF Shrunk, Top
<1> QED
  BY <1>4, <1>5, <1>6

\* A directory is entered, and is not to come any more.
LEMMA EnteredOnce ==
  ASSUME WalkInv, "again" \notin Faults, NEW n \in Node, Descend(n)
  PROVE  /\ Len(stack') = Len(stack) + 1 /\ Len(stack) \in Depths
         /\ fs' = fs /\ finished' = finished /\ pc' = "walk"
         /\ emitted' \notin DirectoryRecord /\ n \in Top.left
         /\ fs.parent[n] = Top.path
         /\ \A i \in Depths :
              /\ stack'[i].path = stack[i].path /\ stack[i].path # n
              /\ stack'[i].children = stack[i].children
              /\ stack'[i].left \subseteq stack[i].left \ {n}
         /\ stack'[Len(stack')].path = n /\ stack'[Len(stack')].children = 0
         /\ stack'[Len(stack')].left \subseteq Entries(n)
<1>1. stack # <<>> /\ stack \in Seq(Frame) /\ n \in Top.left
  BY DEF Descend, Visitable, Walking, WalkInv, Bounded, TypeOK
<1>2. Len(stack) \in Depths /\ Top \in Frame /\ Top.left \subseteq Entries(Top.path)
  BY <1>1, TopTyped
<1>3. PICK failures \in Failures, left \in Remaining(n) :
        stack' = Append([stack EXCEPT ![Len(stack)].left = left], Open(n, failures))
  BY DEF Descend
<1> DEFINE frame == [Top EXCEPT !.left = left]
           kept == [stack EXCEPT ![Len(stack)] = frame]
<1>4. left = Top.left \ {n}
  BY DEF Remaining
<1>5. frame \in Frame /\ frame.left = Top.left \ {n}
  BY <1>2, <1>4 DEF Frame
<1>6. stack' = Append(kept, Open(n, failures))
  BY <1>3 DEF Top
<1> HIDE DEF frame
<1>7. /\ kept \in Seq(Frame) /\ Len(kept) = Len(stack) /\ kept[Len(stack)] = frame
      /\ \A i \in Depths : i # Len(stack) => kept[i] = stack[i]
  BY <1>1, <1>2, <1>5 DEF Depths
<1> HIDE DEF kept
<1>8. /\ Open(n, failures) \in Frame /\ Open(n, failures).left \subseteq Entries(n)
  BY OpenTyped DEF WalkInv, Path
<1>9. /\ \A i \in Depths : stack'[i] = kept[i]
      /\ stack'[Len(stack')] = Open(n, failures)
  BY <1>6, <1>7, <1>8 DEF Depths
<1>10. ASSUME NEW i \in Depths PROVE stack'[i].left \subseteq stack[i].left \ {n}
  <2>1. CASE i = Len(stack)
    BY <1>5, <1>7, <1>9, <2>1 DEF Top
  <2>2. CASE i # Len(stack)
    <3>1. stack[i].left \subseteq Entries(stack[i].path) /\ stack[i].path # Top.path
      BY <1>2, <2>2 DEF WalkInv, Chain, Depths, Top
    <3>2. n \notin stack[i].left
      BY <1>1, <1>2, <3>1 DEF Entries
    <3> QED
      BY <1>7, <1>9, <2>2, <3>2
  <2> QED
    BY <2>1, <2>2
<1>11. /\ Len(stack') = Len(stack) + 1
       /\ \A i \in Depths : stack[i].path # n
       /\ \A i \in Depths : /\ stack'[i].path = stack[i].path
                            /\ stack'[i].children = stack[i].children
       /\ stack'[Len(stack')].path = n /\ stack'[Len(stack')].children = 0
       /\ fs.parent[n] = Top.path
  BY WalkDescend
<1>12. fs' = fs /\ finished' = finished /\ pc' = "walk" /\ emitted' \notin DirectoryRecord
  BY RecordAssumption DEF Descend, Visitable, Walking
<1> QED
  BY <1>1, <1>2, <1>8, <1>9, <1>10, <1>11, <1>12
\* The reader has nothing new and the walk has left nothing.
Quiet ==
  /\ fs' = fs /\ finished' = finished /\ UNCHANGED <<tree, pending>>
  /\ Waiting = {} /\ Waiting' = {}
LEMMA QuietKeeps ==
  ASSUME Grown, Quiet
  PROVE  /\ Sent = Kept /\ Sent' = Sent /\ Kept' = Kept /\ Joined'
         /\ \A p : Listed(Sent, p)' = Listed(Sent, p)
         /\ \A p, count : Announced(p, count) /\ p \in Kept' => tree'[p].count = count
<1>1. Kept' = Kept
  BY DEF Quiet, Kept, Builder!Known
<1>2. Sent = Kept /\ Sent' = Sent
  BY <1>1 DEF Quiet, Sent
<1>3. \A q : Parent(q)' = Parent(q)
  BY DEF Quiet, Parent
<1>4. \A p : Listed(Sent, p)' = Listed(Sent, p) /\ Listed(Kept, p)' = Listed(Kept, p)
  BY <1>1, <1>2, <1>3 DEF Listed
<1>5. Joined'
  BY <1>1, <1>4 DEF Grown, Joined, Quiet
<1>6. \A p, count : Announced(p, count) /\ p \in Kept' => tree'[p].count = count
  BY <1>1 DEF Announced, Quiet
<1> QED
  BY <1>1, <1>2, <1>4, <1>5, <1>6

\* A step that opens nothing and leaves nothing changes nothing of it.
LEMMA GrownShrunk ==
  ASSUME Grown, Quiet, Shrunk
  PROVE  Grown'
<1>1. /\ Sent' = Sent /\ Kept' = Kept /\ Joined'
      /\ \A p : Listed(Sent, p)' = Listed(Sent, p)
      /\ \A p, count : Announced(p, count) /\ p \in Kept' => tree'[p].count = count
  BY QuietKeeps
<1>2. Depths' = Depths
  BY DEF Shrunk, Depths
<1>3. Opened' = Opened /\ Reached' = Reached
  <2>1. Opened' = Opened
    BY <1>2 DEF Shrunk, Opened
  <2> QED
    BY <1>1, <2>1 DEF Reached
<1>4. Apart'
  BY <1>1, <1>2, <1>3 DEF Grown, Apart, Quiet, Shrunk
<1>5. Rooted'
  BY <1>1, <1>3 DEF Grown, Rooted, Shrunk
<1>6. CountedBelow'
  <2>1. ASSUME NEW p, NEW count, Announced(p, count) PROVE Announced(p, count)'
    <3>1. \A i \in Depths' : stack'[i].path = p => stack'[i].children = count
      BY <1>2, <2>1 DEF Announced, Shrunk
    <3> QED
      BY <1>1, <2>1, <3>1 DEF Announced, Quiet
  <2> QED
    BY <1>1, <2>1 DEF Grown, CountedBelow
<1> QED
  BY <1>1, <1>4, <1>5, <1>6 DEF Grown

\* The walk begins, or the root is not there.
LEMMA GrownStart ==
  ASSUME WalkInv, Grown, Quiet, Start \/ StartMissing
  PROVE  Grown'
<1>1. /\ pc = "start" /\ stack = <<>> /\ Sent = {} /\ finished = 0
      /\ finished' = finished
  BY DEF Start, StartMissing, WalkInv, Fresh, Grown, Rooted
<1>2. /\ Sent' = {} /\ Kept' = Kept /\ Kept = {} /\ Joined'
      /\ \A p : Listed(Sent, p)' = Listed(Sent, p)
  BY <1>1, QuietKeeps
<1>3. /\ pc' = "complete" => stack' = <<>>
      /\ pc' # "start"
      /\ \A i \in Depths' : /\ stack'[i].path = Root /\ stack'[i].children = 0
                            /\ stack'[i].left \subseteq Node
  <2>1. CASE StartMissing
    BY <1>1, <2>1 DEF StartMissing, Depths
  <2>2. CASE Start
    <3>1. PICK failures \in Failures : stack' = <<Open(Root, failures)>>
      BY <2>2 DEF Start
    <3>2. Len(stack') = 1 /\ stack'[1] = Open(Root, failures)
      BY <3>1
    <3>3. \A i \in Depths' : i = 1
      BY <3>2 DEF Depths
    <3> QED
      BY <2>2, <3>2, <3>3 DEF Start, Open, Entries
  <2> QED
    BY <2>1, <2>2
<1>4. Reached' \subseteq {Root}
  BY <1>2, <1>3 DEF Reached, Opened
<1>5. Apart'
  BY <1>2, <1>3, <1>4, PathAssumption DEF Apart, Quiet
<1>6. Rooted'
  BY <1>1, <1>2, <1>3, <1>4, FS_EmptySet DEF Rooted
<1>7. CountedBelow'
  <2>1. \A p : Cardinality(Listed(Sent, p)') = 0
    <3>1. \A p : Listed(Sent, p) = {}
      BY <1>1 DEF Listed
    <3> QED
      BY <1>2, <3>1, FS_EmptySet
  <2>2. \A p : Announced(p, 0)'
    BY <1>2, <1>3 DEF Announced, Quiet
  <2> QED
    BY <2>1, <2>2 DEF CountedBelow
<1> QED
  BY <1>2, <1>5, <1>6, <1>7 DEF Grown

\* A directory is entered.
LEMMA GrownDescend ==
  ASSUME WalkInv, Grown, Quiet, "again" \notin Faults, NEW n \in Node, Descend(n)
  PROVE  Grown'
<1>1. /\ Sent' = Sent /\ Kept' = Kept /\ Joined'
      /\ \A p : Listed(Sent, p)' = Listed(Sent, p)
      /\ \A p, count : Announced(p, count) /\ p \in Kept' => tree'[p].count = count
  BY QuietKeeps
<1>2. /\ Len(stack') = Len(stack) + 1 /\ Len(stack) \in Depths
      /\ fs' = fs /\ finished' = finished /\ pc' = "walk"
      /\ n \in Top.left /\ fs.parent[n] = Top.path
      /\ \A i \in Depths :
           /\ stack'[i].path = stack[i].path /\ stack[i].path # n
           /\ stack'[i].children = stack[i].children
           /\ stack'[i].left \subseteq stack[i].left \ {n}
      /\ stack'[Len(stack')].path = n /\ stack'[Len(stack')].children = 0
      /\ stack'[Len(stack')].left \subseteq Entries(n)
  BY EnteredOnce
<1>3. Depths' = Depths \cup {Len(stack')}
  BY <1>2, FramesTyped DEF Depths
<1>4. Opened' = Opened \cup {n} /\ Reached' = Reached \cup {n}
  <2>1. Opened' = Opened \cup {n}
    BY <1>2, <1>3 DEF Opened
  <2> QED
    BY <1>1, <2>1 DEF Reached
<1>5. n \notin Reached /\ Top.path \in Reached /\ n # Root /\ n # None
  <2>1. Top.left \cap Reached = {}
    BY <1>2 DEF Grown, Apart, Top
  <2>2. Top.path \in Opened
    BY <1>2 DEF Opened, Top
  <2> QED
    BY <1>2, <2>1, <2>2, PathAssumption DEF Reached
<1>6. Entries(n) \cap Reached' = {}
  <2>1. ASSUME NEW q \in Entries(n), q \in Reached' PROVE FALSE
    <3>1. fs.parent[q] = n /\ q \in Node /\ q # Root
      BY <2>1, PathAssumption DEF Entries
    <3>2. CASE q = n
      BY <1>2, <1>5, <3>1, <3>2
    <3>3. CASE q \in Reached
      BY <1>5, <3>1, <3>3 DEF Grown, Rooted
    <3> QED
      BY <1>4, <2>1, <3>2, <3>3
  <2> QED
    BY <2>1
<1>7. Apart'
  <2>1. Sent' \cap Opened' = {}
    BY <1>1, <1>4, <1>5 DEF Grown, Apart, Reached
  <2>2. ASSUME NEW i \in Depths' PROVE stack'[i].left \cap Reached' = {}
    <3>1. CASE i \in Depths
      BY <1>2, <1>4, <3>1 DEF Grown, Apart
    <3>2. CASE i = Len(stack')
      BY <1>2, <1>6, <3>2
    <3> QED
      BY <1>3, <3>1, <3>2
  <2> QED
    BY <2>1, <2>2 DEF Apart, Quiet
<1>8. Rooted'
  <2>1. \A p \in Reached' \ {Root} : fs.parent[p] \in Reached'
    BY <1>2, <1>4, <1>5 DEF Grown, Rooted
  <2>2. ASSUME NEW S \in SUBSET (Reached' \ {Root}), S # {}
        PROVE  \E p \in S : fs.parent[p] \notin S
    <3>1. CASE S \subseteq {n}
      <4>1. n \in S /\ fs.parent[n] \notin S
        BY <1>2, <1>5, <2>2, <3>1
      <4> QED
        BY <4>1
    <3>2. CASE S \ {n} # {}
      <4>1. S \ {n} \in SUBSET (Reached \ {Root})
        BY <1>4
      <4>2. PICK p \in S \ {n} : fs.parent[p] \notin S \ {n}
        BY <3>2, <4>1 DEF Grown, Rooted
      <4>3. fs.parent[p] \in Reached
        BY <4>1, <4>2 DEF Grown, Rooted
      <4> QED
        BY <1>5, <4>2, <4>3
    <3> QED
      BY <3>1, <3>2
  <2> QED
    BY <1>1, <1>2, <2>1, <2>2 DEF Grown, Rooted
<1>9. CountedBelow'
  <2>1. Cardinality(Listed(Sent, n)) = 0
    BY <1>5, NoneListed DEF Grown
  <2>2. ASSUME NEW p, NEW count, Announced(p, count), p = n => count = 0
        PROVE  Announced(p, count)'
    <3>1. ASSUME NEW i \in Depths', stack'[i].path = p PROVE stack'[i].children = count
      <4>1. CASE i \in Depths
        BY <1>2, <2>2, <3>1, <4>1 DEF Announced
      <4>2. CASE i = Len(stack')
        BY <1>2, <2>2, <3>1, <4>2
      <4> QED
        BY <1>3, <3>1, <4>1, <4>2
    <3> QED
      BY <1>1, <2>2, <3>1 DEF Announced, Quiet
  <2> QED
    BY <1>1, <2>1, <2>2 DEF Grown, CountedBelow
<1> QED
  BY <1>1, <1>7, <1>8, <1>9 DEF Grown

\* A directory is left: its record waits to be sent, and it is one more below
\* the one above it.
LEMMA GrownLeave ==
  ASSUME WalkInv, Planted, Grown, Leave, UNCHANGED <<tree, pending>>,
         Waiting = {}, Waiting' = {emitted'}
  PROVE  Grown'
<1> DEFINE row == emitted'  p == Top.path
<1>1. /\ Len(stack) \in Depths /\ Len(stack') = Len(stack) - 1
      /\ row \in DirectoryRecord /\ row.path = p /\ row.parent = Parent(p)
      /\ row.children = Top.children
      /\ \A i \in 1..Len(stack') :
           /\ stack'[i].path = stack[i].path /\ stack[i].path # p
           /\ stack'[i].children = IF i = Len(stack') THEN stack[i].children + 1
                                   ELSE stack[i].children
      /\ stack' # <<>> => /\ p \in Node /\ Len(stack') \in Depths
                          /\ fs.parent[p] = stack[Len(stack')].path
                          /\ pc' \in {"walk", "failed"}
      /\ stack' = <<>> => p = Root /\ pc' \in {"complete", "failed"}
      /\ finished' = finished + 1 /\ WalkInv'
  BY WalkLeave
<1> HIDE DEF row, p
<1>2. fs' = fs /\ Kept' = Kept /\ Sent = Kept /\ Sent' = Sent \cup {p}
  <2>1. Kept' = Kept
    BY DEF Kept, Builder!Known
  <2>2. Sent' = Kept \cup {row.path}
    BY <2>1 DEF Sent, row
  <2> QED
    BY <1>1, <2>1, <2>2 DEF Leave, Sent
<1>3. /\ Depths = Depths' \cup {Len(stack)} /\ Depths' = 1..Len(stack')
      /\ p = stack[Len(stack)].path /\ Len(stack) \in Nat
  BY <1>1, FramesTyped DEF Depths, p, Top
<1>4. /\ Opened = Opened' \cup {p} /\ p \notin Opened' /\ Reached' = Reached
      /\ p \in Opened
  <2>1. Opened' = {stack[i].path : i \in Depths'}
    <3>1. \A i \in Depths' : stack'[i].path = stack[i].path
      BY <1>1, <1>3
    <3>2. Opened' = {stack'[i].path : i \in Depths'}
      BY DEF Opened
    <3> QED
      BY <3>1, <3>2
  <2>2. Opened = Opened' \cup {p} /\ p \notin Opened'
    BY <1>1, <1>3, <2>1 DEF Opened
  <2> QED
    BY <1>2, <2>2 DEF Reached
<1>5. p \notin Sent /\ p \in Path /\ Sent \in SUBSET Path
  BY <1>1, <1>2, <1>4 DEF Grown, Apart, DirectoryRecord, Planted
<1>6. \A i \in Depths' : stack'[i].left = stack[i].left
  <2>1. stack' = [i \in 1..(Len(stack) - 1) |->
                   IF i = Len(stack) - 1 THEN Added(stack[i], row) ELSE stack[i]]
    BY DEF Leave, row
  <2>2. \A frame \in Frame : Added(frame, row).left = frame.left
    BY DEF Added, Frame
  <2>3. \A i \in Depths' : i \in 1..(Len(stack) - 1) /\ stack[i] \in Frame
    BY <1>1, <1>3, FramesTyped
  <2> QED
    BY <2>1, <2>2, <2>3
<1>7. /\ row.parent = None \/ row.parent \in Opened'
      /\ \A i \in Depths' : row.parent = stack[i].path <=> i = Len(stack')
  <2>1. CASE stack' = <<>>
    <3>1. Depths' = {}
      <4>1. Len(stack') = 0
        BY <2>1
      <4> QED
        BY <1>3, <4>1
    <3> QED
      BY <1>1, <2>1, <3>1 DEF Parent
  <2>2. CASE stack' # <<>>
    <3>1. row.parent = stack[Len(stack')].path /\ Len(stack') \in Depths'
      <4>1. stack' \in Seq(Frame)
        BY <1>1 DEF WalkInv, TypeOK
      <4>2. Len(stack') \in Depths'
        BY <2>2, <4>1 DEF Depths
      <4> QED
        BY <1>1, <2>2, <4>2, PathAssumption DEF Parent
    <3>2. row.parent \in Opened'
      BY <1>1, <1>3, <3>1 DEF Opened
    <3>3. \A i \in Depths' : stack[i].path = stack[Len(stack')].path => i = Len(stack')
      BY <1>3, <3>1 DEF WalkInv, Chain, Depths
    <3> QED
      BY <3>1, <3>2, <3>3
  <2> QED
    BY <2>1, <2>2
<1>8. Apart'
  <2>1. Sent' \cap Opened' = {}
    BY <1>2, <1>4 DEF Grown, Apart
  <2>2. \A r \in Waiting' : /\ r \in DirectoryRecord /\ r.path \notin Kept'
                            /\ r.parent = Parent(r.path)
    <3>1. \A r \in Waiting' : r = row
      BY DEF row
    <3>2. row \in DirectoryRecord /\ row.path \notin Kept' /\ row.parent = Parent(row.path)
      BY <1>1, <1>2, <1>5
    <3> QED
      BY <3>1, <3>2
  <2>3. \A i \in Depths' : stack'[i].left \cap Reached' = {}
    BY <1>3, <1>4, <1>6 DEF Grown, Apart
  <2>4. \A q : Parent(q)' = Parent(q)
    BY <1>2 DEF Parent
  <2> QED
    BY <2>1, <2>2, <2>3, <2>4 DEF Apart
<1>9. Rooted'
  <2>1. finished' = Cardinality(Sent')
    BY <1>1, <1>2, <1>5, ListedMore DEF Grown, Rooted
  <2>2. pc' # "start" /\ (pc' = "complete" => stack' = <<>> /\ Root \in Sent')
    BY <1>1, <1>2
  <2> QED
    BY <1>2, <1>4, <2>1, <2>2 DEF Grown, Rooted
<1>10. CountedBelow'
  <2>1. ASSUME NEW q \in Path PROVE Announced(q, Cardinality(Listed(Sent, q)))'
    <3> DEFINE count == Cardinality(Listed(Sent, q))
    <3>1. Announced(q, count)
      BY <2>1 DEF Grown, CountedBelow
    <3>2. Cardinality(Listed(Sent, q)') = IF row.parent = q THEN count + 1 ELSE count
      <4>1. Listed(Sent, q)' = Listed(Sent \cup {p}, q)
        BY <1>2 DEF Listed, Parent
      <4>2. Cardinality(Listed(Sent \cup {p}, q)) =
              IF Parent(p) = q THEN Cardinality(Listed(Sent, q)) + 1
              ELSE Cardinality(Listed(Sent, q))
        BY <1>5, ListedMore
      <4>3. Parent(p) = row.parent
        BY <1>1
      <4> QED
        BY <4>1, <4>2, <4>3
    <3> HIDE DEF count
    <3>3. PICK more : more = IF row.parent = q THEN count + 1 ELSE count
      OBVIOUS
    <3>4. ASSUME NEW i \in Depths', stack'[i].path = q PROVE stack'[i].children = more
      <4>1. i \in 1..Len(stack') /\ i \in Depths
        BY <1>3
      <4>2. stack[i].path = q /\ stack[i].children = count
        BY <1>1, <3>1, <3>4, <4>1 DEF Announced
      <4>3. row.parent = q <=> i = Len(stack')
        BY <1>7, <4>2
      <4> QED
        BY <1>1, <3>3, <4>1, <4>2, <4>3
    <3>5. q \in Kept' => tree'[q].count = more
      <4>1. q \in Kept => q # row.parent
        BY <1>2, <1>4, <1>5, <1>7, PathAssumption DEF Grown, Apart, Path
      <4> QED
        BY <1>2, <3>1, <3>3, <4>1 DEF Announced
    <3>6. \A r \in Waiting' : r.path = q => r.children = more
      <4>1. ASSUME p = q PROVE row.children = more
        <5>1. row.parent # p
          BY <1>4, <1>5, <1>7, PathAssumption DEF Path
        <5>2. Top.children = count
          BY <1>1, <1>3, <3>1, <4>1 DEF Announced, Top
        <5> QED
          BY <1>1, <3>3, <4>1, <5>1, <5>2
      <4> QED
        BY <1>1, <4>1 DEF row
    <3>7. Announced(q, more)'
      BY <3>4, <3>5, <3>6 DEF Announced
    <3> QED
      BY <3>2, <3>3, <3>7
  <2> QED
    BY <2>1 DEF CountedBelow
<1>11. Joined'
  <2>1. \A q : Listed(Kept, q)' = Listed(Kept, q)
    BY <1>2 DEF Listed, Parent
  <2> QED
    BY <1>2, <2>1 DEF Grown, Joined
<1> QED
  BY <1>8, <1>9, <1>10, <1>11 DEF Grown

\* Nothing of it changes.
LEMMA StillGrown ==
  ASSUME Grown, UNCHANGED <<fs, pc, stack, finished, tree, pending>>, Waiting' = Waiting
  PROVE  Grown'
<1>1. /\ Kept' = Kept /\ Depths' = Depths
      /\ \A q : Parent(q)' = Parent(q)
  BY DEF Kept, Builder!Known, Depths, Parent
<1>2. Sent' = Sent /\ Opened' = Opened
  BY <1>1 DEF Sent, Opened
<1>3. Reached' = Reached
  BY <1>2 DEF Reached
<1>4. /\ \A p : Listed(Sent, p)' = Listed(Sent, p)
      /\ \A p : Listed(Kept, p)' = Listed(Kept, p)
  BY <1>1, <1>2 DEF Listed
<1>5. Apart'
  BY <1>1, <1>2, <1>3 DEF Grown, Apart
<1>6. Rooted'
  BY <1>2, <1>3 DEF Grown, Rooted
<1>7. \A p, count : Announced(p, count)' <=> Announced(p, count)
  BY <1>1 DEF Announced
<1>8. CountedBelow' /\ Joined'
  BY <1>1, <1>4, <1>7 DEF Grown, CountedBelow, Joined
<1> QED
  BY <1>5, <1>6, <1>8 DEF Grown

\* Every step of the walk keeps it.
LEMMA GrownWalk ==
  ASSUME GrownInv, WholeInv', "again" \notin Faults, Walk
  PROVE  GrownInv'
<1>1. /\ running = "scan" /\ outbox = <<>> /\ Step
      /\ Has(outbox', "directory") <=> emitted' \in DirectoryRecord
      /\ \A i \in 1..Len(outbox') : outbox'[i].type = "directory" =>
           outbox'[i].record = emitted' /\ emitted' \in DirectoryRecord
      /\ UNCHANGED <<running, exit, heard, tree, pending>>
  BY WalkSends DEF reader
<1>2. WalkInv /\ Planted /\ Grown /\ heard = "open" /\ exit = None
  BY <1>1 DEF GrownInv, WholeInv, Busy
<1>3. Waiting = {}
  <2>1. Len(outbox) = 0
    BY <1>1
  <2> QED
    BY <2>1 DEF Waiting
<1>4. emitted' \notin DirectoryRecord => Waiting' = {}
  BY <1>1 DEF Waiting
<1>5. emitted' \in DirectoryRecord => Waiting' = {emitted'}
  BY <1>1 DEF Waiting, Has
<1>6. None \notin DirectoryRecord
  BY RecordAssumption
<1>7. CASE Start \/ StartMissing
  <2>1. emitted' = None /\ fs' = fs /\ finished' = finished
    BY <1>2, <1>7 DEF Start, StartMissing, WalkInv, Fresh
  <2>2. Quiet
    BY <1>1, <1>3, <1>4, <1>6, <2>1 DEF Quiet
  <2>3. Grown'
    BY <1>2, <1>7, <2>2, GrownStart
  <2> QED
    BY <1>1, <1>2, <2>3, ExitAssumption DEF GrownInv
<1>8. CASE Leave
  <2>1. emitted' \in DirectoryRecord
    BY <1>2, <1>8, WalkLeave
  <2>2. Grown'
    BY <1>1, <1>2, <1>3, <1>5, <1>8, <2>1, GrownLeave
  <2> QED
    BY <1>1, <1>2, <2>2, ExitAssumption DEF GrownInv
<1>9. CASE Shrunk
  <2>1. Quiet
    BY <1>1, <1>3, <1>4, <1>9 DEF Quiet, Shrunk
  <2>2. Grown'
    BY <1>2, <1>9, <2>1, GrownShrunk
  <2> QED
    BY <1>1, <1>2, <2>2, ExitAssumption DEF GrownInv
<1>10. ASSUME NEW n \in Node, Descend(n) PROVE GrownInv'
  <2>1. fs' = fs /\ finished' = finished /\ emitted' \notin DirectoryRecord
    BY <1>2, <1>10, EnteredOnce
  <2>2. Quiet
    BY <1>1, <1>3, <1>4, <2>1 DEF Quiet
  <2>3. Grown'
    BY <1>2, <1>10, <2>2, GrownDescend
  <2> QED
    BY <1>1, <1>2, <2>3, ExitAssumption DEF GrownInv
<1>11. CASE Stop
  <2>1. Shrunk
    BY <1>6, <1>11 DEF Stop, Shrunk
  <2> QED
    BY <1>9, <2>1
<1>12. ASSUME NEW n \in Node, Visit(n) PROVE GrownInv'
  <2>1. CASE Descend(n)
    BY <1>10, <2>1
  <2>2. CASE Exclude(n) \/ Miss(n) \/ TooMuch(n) \/ Measure(n)
    <3>1. Shrunk
      BY <1>2, <2>2, ShrunkBy
    <3> QED
      BY <1>9, <3>1
  <2> QED
    BY <1>12, <2>1, <2>2 DEF Visit
<1> QED
  BY <1>1, <1>7, <1>8, <1>11, <1>12 DEF Step

\* The process ends or fails: the walk is as it was.
LEMMA GrownConcluded ==
  ASSUME GrownInv, WholeInv', running \in Busy,
         NEW type \in Terminal, NEW code, Concluded(type, code),
         UNCHANGED vars, code = 0 => type = "complete" /\ running = "complete",
         type = "complete" => outbox = <<>>
  PROVE  GrownInv'
<1>1. running' = "leaving" /\ outbox' = <<>> /\ UNCHANGED <<tree, pending>>
  BY DEF Concluded
<1>2. exit' = 0 => heard' = "complete"
  BY DEF Concluded, GrownInv, Decided
<1>3. ASSUME heard' = "complete" PROVE Grown'
  <2>1. outbox' = outbox /\ Grown
    BY <1>1, <1>3 DEF Concluded, GrownInv, Terminal
  <2>2. Waiting' = Waiting
    BY <2>1 DEF Waiting
  <2> QED
    BY <1>1, <2>1, <2>2, StillGrown DEF vars
<1> QED
  BY <1>1, <1>2, <1>3 DEF GrownInv, Busy, Decided

\* The reader takes the record that was waiting.
LEMMA GrownTaken ==
  ASSUME WalkInv, Planted, Grown, UNCHANGED <<fs, pc, stack, finished>>,
         NEW row \in DirectoryRecord, Waiting = {row}, Waiting' = {},
         Builder!Takes(row) => Builder!Add(row)
  PROVE  Builder!Takes(row) /\ Grown'
<1> DEFINE p == row.path
<1>1. /\ p \in Path /\ p \notin Kept /\ row.parent = Parent(p)
      /\ Kept \in SUBSET Path /\ Sent = Kept \cup {p}
  BY DEF Grown, Apart, Planted, Sent, DirectoryRecord
<1>2. row.parent # p
  <2>1. CASE p = Root
    BY <1>1, <2>1, PathAssumption DEF Parent
  <2>2. CASE p # Root
    <3>1. {p} \in SUBSET (Reached \ {Root}) /\ {p} # {}
      BY <1>1, <2>2 DEF Reached
    <3>2. \E q \in {p} : fs.parent[q] \notin {p}
      BY <3>1 DEF Grown, Rooted
    <3> QED
      BY <1>1, <2>2, <3>2 DEF Parent
  <2> QED
    BY <2>1, <2>2
<1>3. Builder!Takes(row)
  <2>1. finished = Cardinality(Kept) + 1
    BY <1>1, ListedMore DEF Grown, Rooted
  <2>2. finished \in 0..MaxDirectories /\ Cardinality(Kept) \in Nat
    BY <1>1, PathsFinite DEF WalkInv, TypeOK
  <2>3. Cardinality(Kept) < MaxDirectories
    BY <2>1, <2>2, LimitAssumption
  <2>4. Builder!Cardinality(Builder!Known) < MaxDirectories
    BY <2>3, SameCount DEF Kept
  <2> QED
    BY <1>1, <2>4 DEF Builder!Takes, Kept
<1>4. Builder!Add(row)
  BY <1>3
<1>5. /\ Kept' = Kept \cup {p}
      /\ \A q \in Kept : tree'[q].count = tree[q].count
      /\ tree'[p].count = row.children
      /\ \A q \in Kept' :
           tree'[q].children =
             (IF q = p THEN pending[p] ELSE tree[q].children)
             \cup (IF q = row.parent /\ q \in Kept THEN {p} ELSE {})
      /\ \A q \in Path :
           pending'[q] = IF q = p THEN {}
                         ELSE IF q = row.parent /\ q \notin Kept
                         THEN pending[q] \cup {p} ELSE pending[q]
  BY <1>2, <1>4, Adding
<1> HIDE DEF p
<1>6. Sent' = Sent /\ Kept' = Sent
  BY <1>1, <1>5 DEF Sent
<1>7. /\ Depths' = Depths /\ Opened' = Opened /\ Reached' = Reached
      /\ \A q : Parent(q)' = Parent(q)
  <2>1. Depths' = Depths /\ \A q : Parent(q)' = Parent(q)
    BY DEF Depths, Parent
  <2>2. Opened' = Opened
    BY <2>1 DEF Opened
  <2> QED
    BY <1>6, <2>1, <2>2 DEF Reached
<1>8. /\ \A q : Listed(Sent, q)' = Listed(Sent, q)
      /\ \A q : Listed(Kept, q)' =
           Listed(Kept, q) \cup (IF row.parent = q THEN {p} ELSE {})
  <2>1. \A q : Listed(Sent, q)' = Listed(Sent, q)
    BY <1>6, <1>7 DEF Listed
  <2>2. \A q : Listed(Kept, q)' = {r \in Kept \cup {p} : Parent(r) = q}
    BY <1>5, <1>7 DEF Listed
  <2> QED
    BY <1>1, <2>1, <2>2 DEF Listed
<1>9. Apart'
  BY <1>6, <1>7 DEF Grown, Apart
<1>10. Rooted'
  BY <1>6, <1>7 DEF Grown, Rooted
<1>11. CountedBelow'
  <2>1. ASSUME NEW q, NEW count, Announced(q, count) PROVE Announced(q, count)'
    <3>1. \A i \in Depths' : stack'[i].path = q => stack'[i].children = count
      BY <1>7, <2>1 DEF Announced
    <3>2. q \in Kept' => tree'[q].count = count
      <4>1. p = q => row.children = count
        BY <2>1 DEF Announced, p
      <4> QED
        BY <1>5, <2>1, <4>1 DEF Announced
    <3> QED
      BY <3>1, <3>2 DEF Announced
  <2> QED
    BY <1>8, <2>1 DEF Grown, CountedBelow
<1>12. Joined'
  <2>1. \A q \in Kept' : tree'[q].children = Listed(Kept, q)'
    <3>1. ASSUME NEW q \in Kept PROVE tree'[q].children = Listed(Kept, q)'
      <4>1. tree[q].children = Listed(Kept, q) /\ q # p
        BY <1>1 DEF Grown, Joined
      <4>2. tree'[q].children = tree[q].children \cup (IF q = row.parent THEN {p} ELSE {})
        BY <1>5, <4>1
      <4>3. Listed(Kept, q)' = Listed(Kept, q) \cup (IF row.parent = q THEN {p} ELSE {})
        BY <1>8
      <4> QED
        BY <4>1, <4>2, <4>3
    <3>2. tree'[p].children = Listed(Kept, p)'
      <4>1. pending[p] = Listed(Kept, p)
        BY <1>1 DEF Grown, Joined
      <4>2. tree'[p].children = pending[p]
        <5>1. p \in Kept' /\ row.parent # p
          BY <1>2, <1>5 DEF p
        <5>2. tree'[p].children =
                pending[p] \cup (IF p = row.parent /\ p \in Kept THEN {p} ELSE {})
          BY <1>5, <5>1
        <5> QED
          BY <5>1, <5>2
      <4>3. Listed(Kept, p)' = Listed(Kept, p)
        <5>1. row.parent # p
          BY <1>2 DEF p
        <5>2. Listed(Kept, p)' =
                Listed(Kept, p) \cup (IF row.parent = p THEN {p} ELSE {})
          BY <1>8
        <5> QED
          BY <5>1, <5>2
      <4> QED
        BY <4>1, <4>2, <4>3
    <3> QED
      BY <1>5, <3>1, <3>2
  <2>2. ASSUME NEW q \in Path
        PROVE  pending'[q] = IF q \in Kept' THEN {} ELSE Listed(Kept, q)'
    <3>1. pending[q] = IF q \in Kept THEN {} ELSE Listed(Kept, q)
      BY DEF Grown, Joined
    <3>2. CASE q = p
      BY <1>5, <3>2
    <3>3. CASE q # p /\ q \in Kept
      BY <1>5, <3>1, <3>3
    <3>4. CASE q # p /\ q \notin Kept
      <4>1. pending[q] = Listed(Kept, q) /\ q \notin Kept'
        BY <1>5, <3>1, <3>4
      <4>2. Listed(Kept, q)' = Listed(Kept, q) \cup (IF row.parent = q THEN {p} ELSE {})
        BY <1>8
      <4>3. pending'[q] = IF q = row.parent THEN pending[q] \cup {p} ELSE pending[q]
        BY <1>5, <3>4
      <4>4. CASE q = row.parent
        BY <4>1, <4>2, <4>3, <4>4
      <4>5. CASE q # row.parent
        BY <4>1, <4>2, <4>3, <4>5
      <4> QED
        BY <4>4, <4>5
    <3> QED
      BY <3>2, <3>3, <3>4
  <2> QED
    BY <2>1, <2>2 DEF Joined
<1> QED
  BY <1>3, <1>9, <1>10, <1>11, <1>12 DEF Grown

\* An event is written and the reader takes it.
LEMMA GrownDeliver ==
  ASSUME GrownInv, WholeInv', running = "scan", outbox # <<>>,
         NEW size, Emit(Head(outbox), size), outbox' = Tail(outbox),
         UNCHANGED <<running, exit, vars>>
  PROVE  GrownInv'
<1> DEFINE event == Head(outbox)
<1>1. outbox \in Seq(Event) /\ Distinct(outbox) /\ heard = "open" /\ Grown /\ exit = None
  BY DEF GrownInv, WholeInv, StreamInv, Counters, Outgoing
<1>2. /\ event = outbox[1] /\ 1 \in 1..Len(outbox)
      /\ Len(outbox) \in Nat /\ Len(outbox') = Len(outbox) - 1
      /\ \A i \in 1..Len(outbox') : outbox'[i] = outbox[i + 1] /\ i + 1 \in 1..Len(outbox)
      /\ Has(outbox', "directory") <=> Has(outbox, "directory") /\ event.type # "directory"
  BY <1>1, TailOf
<1>3. event.type \in Loose
  <2>1. event \in Event
    BY <1>1, <1>2
  <2> QED
    BY <2>1 DEF Event
<1>4. /\ \/ heard' = "open"
         \/ event.type = "directory" /\ ~ Builder!Takes(event.record)
      /\ event.type = "directory" /\ Builder!Takes(event.record) =>
           Builder!Add(event.record)
      /\ event.type # "directory" => UNCHANGED <<tree, pending>>
  <2>1. event.type # "start"
    BY <1>3 DEF Loose
  <2>2. Hear(event)
    BY DEF Emit, Write
  <2> HIDE DEF event
  <2> QED
    BY <1>1, <1>3, <2>1, <2>2, LooseHeard
<1> HIDE DEF event
<1>5. UNCHANGED <<fs, pc, stack, finished>>
  BY DEF vars
<1>6. CASE event.type # "directory"
  <2>1. ASSUME NEW i \in 1..Len(outbox), outbox[i].type = "directory"
        PROVE  i - 1 \in 1..Len(outbox') /\ outbox'[i - 1] = outbox[i]
    <3>1. i # 1
      BY <1>2, <1>6, <2>1
    <3>2. i - 1 \in 1..Len(outbox') /\ (i - 1) + 1 = i
      BY <1>2, <3>1
    <3> QED
      BY <1>2, <3>2
  <2>2. Waiting' = Waiting
    <3>1. \A row : row \in Waiting <=>
            \E i \in 1..Len(outbox) : outbox[i].type = "directory" /\ outbox[i].record = row
      BY DEF Waiting
    <3>2. \A row : row \in Waiting' <=>
            \E i \in 1..Len(outbox') : outbox'[i].type = "directory" /\ outbox'[i].record = row
      BY DEF Waiting
    <3>3. ASSUME NEW row \in Waiting PROVE row \in Waiting'
      <4>1. PICK i \in 1..Len(outbox) : outbox[i].type = "directory" /\ outbox[i].record = row
        BY <3>1
      <4>2. i - 1 \in 1..Len(outbox') /\ outbox'[i - 1] = outbox[i]
        BY <2>1, <4>1
      <4> QED
        BY <3>2, <4>1, <4>2
    <3>4. \A row \in Waiting' : row \in Waiting
      BY <1>2, <3>1, <3>2
    <3> QED
      BY <3>3, <3>4
  <2>3. Grown'
    BY <1>1, <1>4, <1>5, <1>6, <2>2, StillGrown
  <2> QED
    BY <1>1, <1>4, <1>6, <2>3, ExitAssumption DEF GrownInv
<1>7. CASE event.type = "directory"
  <2> DEFINE row == event.record
  <2>1. row \in DirectoryRecord
    BY <1>2, <1>7 DEF GrownInv, WholeInv, Outgoing
  <2>2. Waiting = {row}
    <3>1. \A i \in 1..Len(outbox) : outbox[i].type = "directory" <=> i = 1
      BY <1>1, <1>2, <1>7 DEF Distinct
    <3> QED
      BY <1>2, <3>1 DEF Waiting
  <2>3. Waiting' = {}
    BY <1>2, <1>7 DEF Has, Waiting
  <2> HIDE DEF row
  <2>4. Builder!Takes(row) /\ Grown'
    <3>1. Builder!Takes(row) => Builder!Add(row)
      BY <1>4, <1>7 DEF row
    <3>2. WalkInv /\ Planted
      BY DEF GrownInv, WholeInv
    <3> QED
      BY <1>1, <1>5, <2>1, <2>2, <2>3, <3>1, <3>2, GrownTaken
  <2> QED
    BY <1>1, <1>4, <2>4, ExitAssumption DEF GrownInv, row
<1> QED
  BY <1>6, <1>7

\* The invariant holds at first and every step preserves it.
LEMMA GrownInductive ==
  ASSUME "again" \notin Faults
  PROVE  /\ StreamInit => GrownInv
         /\ GrownInv /\ [StreamNext]_all => GrownInv'
<1>1. ASSUME StreamInit PROVE GrownInv
  <2>1. WholeInv
    BY <1>1, WholeInductive
  <2>2. /\ Kept = {} /\ Len(outbox) = 0 /\ Len(stack) = 0 /\ finished = 0
        /\ pc = "start" /\ pending = [p \in Path |-> {}]
        /\ heard = "nothing" /\ running = "begin" /\ exit = None
    BY <1>1 DEF StreamInit, Init, Builder!BuilderInit, Kept, Builder!Known
  <2>3. Waiting = {} /\ Depths = {} /\ Opened = {} /\ Sent = {} /\ Reached = {}
    <3>1. Waiting = {} /\ Depths = {}
      BY <2>2 DEF Waiting, Depths
    <3>2. Opened = {} /\ Sent = {}
      BY <2>2, <3>1 DEF Opened, Sent
    <3> QED
      BY <3>1, <3>2 DEF Reached
  <2>4. \A p : Listed(Sent, p) = {} /\ Listed(Kept, p) = {}
    BY <2>2, <2>3 DEF Listed
  <2>5. Apart /\ Rooted
    BY <2>2, <2>3, FS_EmptySet DEF Apart, Rooted
  <2>6. CountedBelow /\ Joined
    BY <2>2, <2>3, <2>4 DEF CountedBelow, Announced, Joined
  <2>7. exit # 0
    BY <2>2, ExitAssumption
  <2> QED
    BY <2>1, <2>2, <2>5, <2>6, <2>7 DEF GrownInv, Grown, Decided
<1>2. ASSUME GrownInv, [StreamNext]_all PROVE GrownInv'
  <2>1. /\ WholeInv' /\ Closed
        /\ running = "begin" => heard = "nothing"
        /\ running \in {"scan"} \cup Decided => heard = "open" /\ running \in Busy
        /\ running \in Decided => outbox = <<>>
    BY <1>2, WholeInductive DEF GrownInv, WholeInv, StreamInv, Budgeted, Busy
  <2>2. CASE Refuse
    <3>1. running = "begin" /\ running \in Busy /\ UNCHANGED vars
      BY <2>2 DEF Refuse, Busy
    <3>2. Concluded("error", 2)
      BY <2>1, <2>2, <3>1, ConcludeConcludes, FailureConcludes DEF Refuse, Terminal
    <3> QED
      BY <1>2, <2>1, <3>1, <3>2, GrownConcluded DEF Terminal
  <2>3. CASE Begin
    <3>1. running = "begin" /\ running \in Busy /\ UNCHANGED vars
      BY <2>3 DEF Begin, Busy
    <3>2. CASE ResourceFailure
      <4>1. Concluded("error", 3)
        BY <2>1, <3>1, <3>2, FailureConcludes
      <4> QED
        BY <1>2, <2>1, <3>1, <4>1, GrownConcluded DEF Terminal
    <3>3. ASSUME NEW size, Emit(Plain("start"), size), running' = "scan",
                 UNCHANGED <<exit, outbox>>
          PROVE  GrownInv'
      <4>1. heard' = "open" /\ UNCHANGED <<tree, pending>>
        BY <2>1, <3>1, <3>3, LooseHeard DEF Emit, Write, Plain
      <4>2. Waiting' = Waiting
        BY <3>3 DEF Waiting
      <4>3. Grown /\ exit = None
        BY <1>2, <3>1 DEF GrownInv
      <4>4. Grown'
        BY <3>1, <4>1, <4>2, <4>3, StillGrown DEF vars
      <4> QED
        BY <2>1, <3>3, <4>1, <4>3, <4>4, ExitAssumption DEF GrownInv
    <3> QED
      BY <2>3, <3>2, <3>3 DEF Begin
  <2>4. CASE Deliver
    <3>1. running = "scan" /\ outbox # <<>> /\ UNCHANGED vars
      BY <2>4 DEF Deliver
    <3>2. CASE ResourceFailure
      <4>1. Concluded("error", 3)
        BY <2>1, <3>1, <3>2, FailureConcludes
      <4> QED
        BY <1>2, <2>1, <3>1, <4>1, GrownConcluded DEF Terminal
    <3> QED
      BY <1>2, <2>1, <2>4, <3>1, <3>2, GrownDeliver DEF Deliver
  <2>5. CASE Report
    <3>1. running \in Decided /\ running \in Busy /\ UNCHANGED vars
      BY <2>5 DEF Report, Decided, Busy
    <3>2. CASE running = "limit" /\ ResourceFailure
      <4>1. Concluded("error", 3)
        BY <2>1, <3>1, <3>2, FailureConcludes
      <4> QED
        BY <1>2, <2>1, <3>1, <4>1, GrownConcluded DEF Terminal
    <3>3. CASE running = "cancelled" /\ Conclude("cancelled", 130)
      <4>1. Concluded("cancelled", 130)
        BY <2>1, <3>1, <3>3, ConcludeConcludes DEF Terminal
      <4> QED
        BY <1>2, <2>1, <3>1, <4>1, GrownConcluded DEF Terminal
    <3>4. CASE running = "complete" /\ Conclude("complete", 0)
      <4>1. Concluded("complete", 0)
        BY <2>1, <3>1, <3>4, ConcludeConcludes DEF Terminal
      <4> QED
        BY <1>2, <2>1, <3>1, <3>4, <4>1, GrownConcluded DEF Terminal
    <3> QED
      BY <2>5, <3>2, <3>3, <3>4 DEF Report
  <2>6. CASE Signal \/ End \/ Quit \/ Kill \/ UNCHANGED all
    <3>1. /\ UNCHANGED <<fs, pc, stack, finished, tree, pending, outbox, heard>>
          /\ \/ running' = running /\ exit' = exit
             \/ running = "scan" /\ running' \in Decided /\ exit' = exit
             \/ running = "leaving" /\ running' = "ended" /\ exit' = exit
             \/ running' = "killed" /\ exit' = None
      <4>1. CASE Signal
        BY <4>1 DEF Signal, process, reader
      <4>2. CASE End
        BY <4>2 DEF End, reader, vars, Decided
      <4>3. CASE Quit
        BY <4>3 DEF Quit, reader, vars
      <4>4. CASE Kill
        BY <4>4 DEF Kill, reader, vars
      <4>5. CASE UNCHANGED all
        BY <4>5 DEF all, process, reader, vars
      <4> QED
        BY <2>6, <4>1, <4>2, <4>3, <4>4, <4>5
    <3>2. Waiting' = Waiting
      BY <3>1 DEF Waiting
    <3>3. Grown => Grown'
      BY <3>1, <3>2, StillGrown
    <3> QED
      BY <1>2, <2>1, <3>1, <3>3, ExitAssumption DEF GrownInv, Busy, Decided
  <2>7. CASE Walk
    BY <1>2, <2>1, <2>7, GrownWalk
  <2> QED
    BY <1>2, <2>2, <2>3, <2>4, <2>5, <2>6, <2>7 DEF StreamNext, Proceed
<1> QED
  BY <1>1, <1>2

\* Unless a directory is listed twice, whatever a completed scan has written is

\* accepted: the root is there, every directory hangs below it, none waits for
\* its parent, and each has as many children as its record announced.
LEMMA GrownAccepted ==
  ASSUME GrownInv, exit = 0, finished > 0
  PROVE  Shows
<1>1. /\ heard = "complete" /\ pc = "complete" /\ announced = finished
      /\ outbox = <<>> /\ Grown /\ Kept \in SUBSET Path
  BY ExitAssumption
     DEF GrownInv, WholeInv, Closed, Planted, StreamInv, Budgeted
<1>2. Sent = Kept /\ Reached = Kept /\ finished = Cardinality(Kept)
  <2>1. Len(outbox) = 0 /\ Len(stack) = 0
    BY <1>1 DEF Grown, Rooted
  <2>2. Waiting = {} /\ Opened = {}
    BY <2>1 DEF Waiting, Opened, Depths
  <2>3. Sent = Kept
    BY <2>2 DEF Sent
  <2> QED
    BY <1>1, <2>2, <2>3 DEF Reached, Grown, Rooted
<1>3. Root \in Kept
  <2>1. Kept # {}
    BY <1>2, FS_EmptySet
  <2> QED
    BY <1>1, <1>2, <2>1 DEF Grown, Rooted
<1>4. \A p \in Kept \ {Root} : Parent(p) = fs.parent[p] /\ fs.parent[p] \in Kept
  BY <1>1, <1>2 DEF Grown, Rooted, Parent
<1>5. Parent(Root) = None /\ None \notin Path
  BY PathAssumption DEF Parent, Path
<1>6. \A p \in Path : pending[p] = {}
  <2>1. ASSUME NEW p \in Path, p \notin Kept PROVE Listed(Kept, p) = {}
    BY <1>4, <1>5, <2>1 DEF Listed
  <2> QED
    BY <1>1, <2>1 DEF Grown, Joined
<1>7. \A p \in Kept : tree[p].children = Listed(Kept, p)
  BY <1>1 DEF Grown, Joined
<1>8. \A p \in Kept : Root \notin tree[p].children
  BY <1>1, <1>5, <1>7 DEF Listed
<1>9. \A p \in Kept : Builder!Cardinality(tree[p].children) = tree[p].count
  <2>1. ASSUME NEW p \in Kept PROVE Cardinality(Listed(Kept, p)) = tree[p].count
    BY <1>1, <1>2 DEF Grown, CountedBelow, Announced
  <2> QED
    BY <1>7, <2>1, SameCount
<1>10. Builder!Visited(Root)
  <2>1. ASSUME NEW S \in SUBSET (Kept \ {Root}), S # {}
        PROVE  \E p \in S : \E q \in Kept \ S : p \in tree[q].children
    <3>1. PICK p \in S : fs.parent[p] \notin S
      BY <1>1, <1>2, <2>1 DEF Grown, Rooted
    <3>2. fs.parent[p] \in Kept \ S /\ p \in Listed(Kept, fs.parent[p])
      BY <1>4, <3>1 DEF Listed
    <3> QED
      BY <1>7, <3>2
  <2> QED
    BY <2>1 DEF Builder!Visited, Kept
<1>11. Builder!Cardinality(Kept) = announced
  BY <1>1, <1>2, SameCount
<1>12. Builder!Accepts(Root, announced)
  BY <1>3, <1>6, <1>8, <1>9, <1>10, <1>11 DEF Builder!Accepts, Kept
<1> QED
  BY <1>1, <1>2, <1>12 DEF Shows, Kept

\* As long as no directory is listed again while it is read, a scan that

\* completed is shown by its reader, for every tree, every order of the walk,
\* every limit and every size of the events. (One that is listed again is
\* walked again; its second record makes the reader reject the stream.)
THEOREM ShownCorrect == "again" \notin Faults => (StreamSpec => []CompletedIsShown)
<1> SUFFICES ASSUME "again" \notin Faults PROVE StreamSpec => []CompletedIsShown
  OBVIOUS
<1>1. StreamInit => GrownInv
  BY GrownInductive
<1>2. GrownInv /\ [StreamNext]_all => GrownInv'
  BY GrownInductive
<1>3. GrownInv => CompletedIsShown
  BY GrownAccepted DEF CompletedIsShown
<1> QED
  BY <1>1, <1>2, <1>3, PTL DEF StreamSpec

=============================================================================
