------------------------------- MODULE Panel -------------------------------
(***************************************************************************)
(* The panel as the broker's client: which requests it waits for, the scan *)
(* and the activation it follows, the snapshot it shows, the broker        *)
(* process it starts, loses and starts again.                              *)
(*                                                                         *)
(* The panel is one thread; its functions call one another and change its  *)
(* properties one by one.  `panel' is the record of these properties, and  *)
(* a function of the source is an operator from one such record to the     *)
(* next.  What a function sends is collected in the field sent and put on  *)
(* the pipe at the end of the step.                                        *)
(***************************************************************************)
EXTENDS SnapshotService, SequencesExt

CONSTANTS
  MaxRequests,  \* maxBrokerRequests
  Hurry         \* what the user does while requests are pending:
                \* \subseteq {"select", "rescan", "browse"}

Activation == [token : Nat, gen : Nat \cup {None}, root : Root \cup {None},
               rows : SUBSET {"metadata", "children"}]
PutOff == [call : {"scan", "launch"}, root : Root \cup {None},
           mount : Root \cup {None}, asked : BOOLEAN, current : BOOLEAN]
ASSUME LimitOfRequests == MaxRequests \in Nat \ {0}
ASSUME NoneIsNoCall == None \notin Activation /\ None \notin PutOff

VARIABLE panel
vars == <<service, stdin, stdout, panel>>

(***************************************************************************)
(* Identifiers.  nextBrokerRequestId and token_hex never repeat: an        *)
(* identifier is fresh when nothing refers to it any more.                 *)
(***************************************************************************)
Least(used) == Min(1..(Cardinality(used) + 1) \ used)
IdsIn(set) == {m.id : m \in set}
GensIn(set) == {m.gen : m \in set}
Held(x) == IF x = None THEN {} ELSE {x.gen}

FreshId(p) ==
  Least(IdsIn(p.requests \cup Range(p.sent) \cup Range(stdin)
              \cup Range(stdout) \cup Range(queries) \cup outcomes)
        \cup (IF staging = None THEN {} ELSE {staging.id})
        \cup {p.scanRequest})
FreshToken(p) ==
  Least({r.token : r \in p.requests}
        \cup (IF p.activation = None THEN {} ELSE {p.activation.token}))
FreshGen ==
  Least(GensIn(Range(stdin) \cup Range(stdout) \cup Range(queries)
               \cup outcomes \cup panel.requests)
        \cup {panel.view, panel.staging}
        \cup UNION {Held(x) : x \in {active, previous, staging,
                                      panel.activation}})

(***************************************************************************)
(* The functions of the panel.                                             *)
(***************************************************************************)
Running(p) == p.process # "off"
Selected(p) == IF p.listed THEN p.preferred ELSE None

RefusedEarly(p, op) ==  \* a mutant
  \/ ~Running(p)
  \/ op # "hello" /\ ~p.ready
  \/ Cardinality(p.requests) >= MaxRequests - 1
Refused(p, op) == \/ ~Running(p)
                  \/ op # "hello" /\ ~p.ready
                  \/ Cardinality(p.requests) >= MaxRequests

\* sendBrokerRequest: m carries op, root, mount, gen, token and asked.
Send(p, m) ==
  IF Refused(p, m.op) THEN p ELSE
  LET id == FreshId(p) IN
  [p EXCEPT
    !.requests = @ \cup {[id |-> id, op |-> m.op, gen |-> m.gen,
                          token |-> m.token]},
    !.sent = Append(@, [id |-> id, op |-> m.op, root |-> m.root,
                        mount |-> m.mount, gen |-> m.gen, asked |-> m.asked])]

Plain(op) == [op |-> op, root |-> None, mount |-> None, gen |-> None,
              token |-> None, asked |-> FALSE]
About(op, gen, token) == [Plain(op) EXCEPT !.gen = gen, !.token = token]

Finish(p, ids) ==
  [p EXCEPT !.requests = {r \in @ : r.id \notin ids}]

StartBroker(p) ==
  IF Running(p) \/ p.ready THEN p
  ELSE [p EXCEPT !.process = "starting", !.terminating = FALSE,
                 !.requests = {}]

\* The cached rows stay; only the backend they came from is gone.
FailBroker(p) ==
  [p EXCEPT !.ready = FALSE, !.available = FALSE, !.requests = {},
            !.pendingScan = None, !.activation = None,
            !.scanRequest = None, !.staging = None, !.cancelling = FALSE,
            !.terminating = Running(p)]

CancelActiveScan(p) ==
  IF p.scanRequest = None \/ p.staging = None \/ p.cancelling THEN p
  ELSE Send([p EXCEPT !.cancelling = TRUE],
            About("scanCancel", p.staging, None))

\* A scan that the selection has left behind is not launched.  scanRequest
\* is what sendBrokerRequest returns, empty when it refuses.
LaunchScan(p, scan) ==
  IF ~scan.current \/ ~p.ready THEN p ELSE
  LET q == Send([p EXCEPT !.cancelling = FALSE],
                [Plain("scanStart") EXCEPT !.root = scan.root,
                   !.mount = scan.mount, !.asked = scan.asked])
  IN  [q EXCEPT !.scanRequest =
         IF Len(q.sent) = Len(p.sent) THEN None ELSE Last(q.sent).id]

Later(p, call) == [p EXCEPT !.later = Append(@, call)]
Launch(scan) == [scan EXCEPT !.call = "launch"]

LaunchPendingScan(p) ==
  LET q == [p EXCEPT !.pendingScan = None] IN
  IF p.pendingScan = None THEN q ELSE Later(q, Launch(p.pendingScan))

\* The scan request of the selected filesystem; asked: by the user.
RequestScan(p, asked) ==
  LET scan == [call |-> "scan", root |-> p.treeRoot, mount |-> Selected(p),
               asked |-> asked, current |-> TRUE]
  IN  IF Selected(p) = None THEN p
      ELSE IF ~p.ready THEN StartBroker([p EXCEPT !.pendingScan = scan])
      ELSE IF p.scanRequest # None
      THEN CancelActiveScan([p EXCEPT !.pendingScan = scan])
      ELSE LaunchScan(p, scan)

RequestSnapshotOpen(p, root) ==
  IF Selected(p) = None \/ root # p.treeRoot THEN p
  ELSE IF ~p.ready THEN StartBroker([p EXCEPT !.pendingOpen = root])
  ELSE Send(p, [Plain("snapshotOpen") EXCEPT !.root = root,
                                             !.mount = Selected(p)])

\* treeGeneration++ and pendingScan = null: what was asked for before is
\* no longer current.
NextTreeGeneration(p) ==
  [p EXCEPT !.pendingScan = None,
            !.later = [i \in DOMAIN @ |-> [@[i] EXCEPT !.current = FALSE]]]

SelectFilesystem(p, root) ==
  IF Selected(p) = root /\ p.treeRoot = root THEN p
  ELSE RequestSnapshotOpen(
         [CancelActiveScan(NextTreeGeneration(p)) EXCEPT
            !.listed = TRUE, !.preferred = root, !.treeRoot = root], root)

\* A new activation: its first rows are requested under a token of its own.
BeginActivation(p, gen, root) ==
  LET token == FreshToken(p)
      q == [p EXCEPT !.activation =
              [token |-> token, gen |-> gen, root |-> root, rows |-> {}]]
  IN  Send(Send(q, About("metadata", gen, token)),
           About("children", gen, token))

AbortPendingActivation(p) ==
  IF p.activation = None THEN p ELSE
  LET failed == p.activation
      q == [p EXCEPT
              !.activation = None,
              !.requests = {r \in @ : r.token # failed.token}]
  IN  LaunchPendingScan(
        Send(q, About("activationAbort", failed.gen, failed.token)))

\* Requests for rows of the snapshot on screen; the others for rows carry
\* the token of an activation.
Navigates(r) == r.op = "children" /\ r.token = None

CommitKeepsRequests(p) ==  \* a mutant: rows on their way are not given up
  LaunchPendingScan(
    [p EXCEPT !.view = p.activation.gen, !.shown = p.activation.root,
              !.treeRoot = p.activation.root, !.available = TRUE,
              !.activation = None])
CommitInitialView(p) ==
  LaunchPendingScan(
    [p EXCEPT !.requests = {r \in @ : ~Navigates(r)},
              !.view = p.activation.gen,
              !.shown = p.activation.root,
              !.treeRoot = p.activation.root,
              !.available = TRUE,
              !.activation = None])

(***************************************************************************)
(* Steps of the user.  Pending: something is loading or on its way.        *)
(***************************************************************************)
Becomes(p) == /\ panel' = [p EXCEPT !.sent = <<>>]
              /\ stdin' = stdin \o p.sent
              /\ UNCHANGED <<service, stdout>>

Pending == \/ panel.activation # None
           \/ panel.pendingOpen # None
           \/ panel.pendingScan # None
           \/ \E r \in panel.requests : ~Navigates(r) /\ r.op # "scanStart"
MaySwitch(root) ==
  \/ "select" \in Hurry
  \/ /\ root \in {None, panel.preferred}
     /\ ~panel.ready \/ ~Pending
  \/ /\ panel.scanRequest = None
     /\ ~Pending \/ (~panel.ready /\ panel.requests = {})

\* Summoned from the bar, for a filesystem or without one.  A panel whose
\* snapshot is still served shows it as it is.
Open(root) ==
  LET target == IF root = None THEN panel.preferred ELSE root
      p == StartBroker([panel EXCEPT !.opened = TRUE])
  IN  Becomes(
        IF ~panel.listed
        THEN [p EXCEPT !.preferred = target, !.discovering = TRUE]
        ELSE IF Selected(p) # target \/ p.treeRoot # target
        THEN SelectFilesystem(p, target)
        ELSE IF p.available THEN p
        ELSE RequestSnapshotOpen(p, target))
UserOpens == \E root \in Root \cup {None} :
  /\ "select" \in Hurry \/ ~panel.opened
  /\ MaySwitch(root)
  /\ Open(root)

UserCloses ==
  LET p == CancelActiveScan([panel EXCEPT !.opened = FALSE,
                               !.pendingScan = None, !.pendingOpen = None])
  IN  /\ panel.opened
      /\ Becomes(IF ~Running(p) THEN p
                 ELSE IF p.ready
                 THEN [Send(p, Plain("shutdown")) EXCEPT !.ready = FALSE]
                 ELSE [p EXCEPT !.terminating = TRUE])

UserSelects == \E root \in Root :
  /\ panel.opened /\ panel.listed
  /\ MaySwitch(root)
  /\ Becomes(SelectFilesystem(panel, root))

\* The Rescan button is enabled unless the panel is scanning.
UserRescans ==
  /\ panel.opened
  /\ panel.scanRequest = None
  /\ "rescan" \in Hurry \/ (panel.ready /\ ~Pending)
  /\ Becomes(RequestScan(panel, TRUE))

\* Refresh disks: the scan is cancelled and the filesystems listed anew.
UserRefreshes ==
  LET p == IF panel.ready THEN panel ELSE StartBroker(panel) IN
  /\ panel.opened
  /\ ~panel.discovering  \* the button is disabled meanwhile
  /\ Becomes([CancelActiveScan(NextTreeGeneration(p)) EXCEPT
                !.discovering = TRUE])

Listed ==
  /\ panel.discovering
  /\ \E root \in Root :
       /\ root = panel.preferred \/ panel.preferred = None
       /\ Becomes(SelectFilesystem([panel EXCEPT !.discovering = FALSE], root))

UserBrowses ==
  /\ panel.opened
  /\ panel.available
  /\ "browse" \in Hurry \/ ~\E r \in panel.requests : Navigates(r)
  /\ Becomes(Send(panel, About("children", panel.view, None)))

(***************************************************************************)
(* handleBrokerLine: one action for each way a message is taken.           *)
(***************************************************************************)
Line == Head(stdout)
Expected == CHOOSE r \in panel.requests : r.id = Line.id
Arrives == stdout # <<>> /\ Line.id \in IdsIn(panel.requests)
Settled == Finish(panel, {Line.id})
Turns(p) == /\ panel' = [p EXCEPT !.sent = <<>>]
            /\ stdin' = stdin \o p.sent
            /\ stdout' = Tail(stdout)
            /\ UNCHANGED service

Unexpected == /\ stdout # <<>>
              /\ Line.id \notin IdsIn(panel.requests)
              /\ Turns(panel)

HelloReady ==
  LET opening == IF panel.pendingOpen = None THEN Settled
                 ELSE Later(Settled, [call |-> "open", current |-> TRUE,
                                      root |-> panel.pendingOpen])
  IN  /\ Arrives /\ Expected.op = "hello" /\ Line.type = "ready"
      /\ Turns(LaunchPendingScan([opening EXCEPT !.ready = TRUE,
                                                 !.pendingOpen = None]))

\* Anything but a snapshot, an error included, is answered by a scan.
SnapshotAnswer ==
  /\ Arrives /\ Expected.op = "snapshotOpen"
  /\ Turns(IF Line.type = "snapshotAvailable"
           THEN BeginActivation(Settled, Line.gen, Line.root)
           ELSE RequestScan(Settled, FALSE))

ScanStarted ==
  LET p == [panel EXCEPT
              !.requests = {IF r.id = Line.id THEN [r EXCEPT !.gen = Line.gen]
                            ELSE r : r \in @},
              !.staging = Line.gen]
  IN  /\ Arrives /\ Expected.op = "scanStart" /\ Line.type = "scanStarted"
      /\ Turns(IF p.pendingScan = None THEN p
               ELSE Later(p, [call |-> "cancel", current |-> TRUE]))

\* A message about another scan than the one that is followed is dropped.
\* An error names no generation, so it is dropped too.
Followed == /\ Line.type # "error"
            /\ Line.gen = Expected.gen
            /\ Line.id = panel.scanRequest
ScanLineDropped ==
  /\ Arrives /\ Expected.op = "scanStart" /\ Line.type # "scanStarted"
  /\ ~Followed
  /\ Turns(panel)

ScanOver == [Settled EXCEPT !.scanRequest = None, !.staging = None]
ScanNotDone ==
  /\ Arrives /\ Expected.op = "scanStart" /\ Line.type = "scanFailed"
  /\ Followed
  /\ Turns(LaunchPendingScan([ScanOver EXCEPT !.cancelling = FALSE]))

\* A snapshot that comes after its cancellation is given back.
IgnoredInstead(p, gen) ==  \* a mutant
  [p EXCEPT !.cancelling = FALSE]
GivenBack(p, gen) ==
  Send([p EXCEPT !.cancelling = FALSE], About("activationAbort", gen, None))
SnapshotActivated ==
  /\ Arrives /\ Expected.op = "scanStart" /\ Line.type = "snapshotActivated"
  /\ Followed
  /\ Turns(IF panel.cancelling
           THEN LaunchPendingScan(GivenBack(ScanOver, Line.gen))
           ELSE BeginActivation(ScanOver, Line.gen, Line.root))

RowsArrive ==
  /\ Arrives /\ Line.type = "queryResult" /\ Navigates(Expected)
  /\ Turns(IF Line.gen = panel.view THEN Settled ELSE panel)

\* The rows of the activation in progress; those of another are dropped.
Awaited == /\ panel.activation # None
           /\ panel.activation.token = Expected.token
           /\ panel.activation.gen = Line.gen
FirstRowsArrive ==
  LET p == [Settled EXCEPT !.activation.rows = @ \cup {Expected.op}] IN
  /\ Arrives /\ Line.type = "queryResult" /\ ~Navigates(Expected)
  /\ Turns(IF ~Awaited THEN panel
           ELSE IF p.activation.rows # {"metadata", "children"} THEN p
           ELSE Send(p, About("activationCommit", p.activation.gen,
                              p.activation.token)))

ActivationCommitted ==
  /\ Arrives /\ Line.type = "activationCommitted"
  /\ Turns(IF Awaited THEN CommitInitialView(Settled) ELSE panel)

Acknowledged ==
  /\ Arrives
  /\ Line.type \in {"activationAborted", "scanCancelRequested"}
  /\ Turns(Settled)

RequestRefused ==
  /\ Arrives /\ Line.type = "error"
  /\ Expected.op \notin {"snapshotOpen", "scanStart"}
  /\ Turns(CASE Navigates(Expected) -> Settled
             [] ~Navigates(Expected)
                /\ Expected.op \in {"metadata", "children"} ->
                  AbortPendingActivation(Settled)
             [] Expected.op \in {"hello", "activationCommit"} ->
                  FailBroker(Settled)
             [] OTHER -> Settled)

(***************************************************************************)
(* Calls put off with Qt.callLater, deadlines, and the broker process.     *)
(***************************************************************************)
CallsLater ==
  LET c == Head(panel.later)
      p == [panel EXCEPT !.later = Tail(@)]
  IN  /\ panel.later # <<>>
      /\ Becomes(CASE c.call = "open" -> RequestSnapshotOpen(p, c.root)
                   [] c.call = "launch" -> LaunchScan(p, c)
                   [] c.call = "cancel" -> CancelActiveScan(p)
                   [] c.call = "start" ->
                        IF p.opened THEN StartBroker(p) ELSE p)

\* The broker has a request before it, or an answer is on its way.
Answerable(r) ==
  \/ r.id \in IdsIn(Range(stdin) \cup Range(stdout) \cup Range(queries)
                    \cup outcomes)
  \/ staging # None /\ staging.id = r.id

\* A deadline passes: of a request that nothing will answer, or of one whose
\* answer is late.
DeadlinePasses ==
  /\ \E r \in panel.requests : "slow" \in Faults \/ ~Answerable(r)
  /\ Becomes(FailBroker(panel))

BrokerStarted ==
  /\ panel.process = "starting"
  /\ LET p == Send([panel EXCEPT !.process = "up"], Plain("hello")) IN
     /\ panel' = [p EXCEPT !.sent = <<>>]
     /\ stdin' = p.sent
  /\ serving' = TRUE
  /\ UNCHANGED <<stored, held, outcomes, queries, stdout>>

\* An open panel starts its broker again and opens what is selected.
ExitedInView(p) ==  \* a mutant: what is on screen may still be browsed
  [p EXCEPT !.process = "off", !.terminating = FALSE, !.ready = FALSE,
            !.requests = {}, !.scanRequest = None, !.staging = None,
            !.activation = None]
Exited(p) ==
  [p EXCEPT !.process = "off", !.terminating = FALSE, !.ready = FALSE,
            !.available = FALSE, !.requests = {}, !.scanRequest = None,
            !.staging = None, !.activation = None]
BrokerExits ==
  LET p == Exited(panel)
      reopening == IF p.preferred = None THEN p
                   ELSE [p EXCEPT !.pendingOpen = p.preferred]
  IN  /\ panel.process = "up"
      /\ panel.terminating \/ ~serving \/ "crash" \in Faults
      /\ panel' = IF p.opened
                  THEN Later(reopening, [call |-> "start", current |-> TRUE])
                  ELSE p
      /\ Gone

(***************************************************************************)
(* The system.                                                             *)
(***************************************************************************)
Init ==
  /\ ServiceInit
  /\ panel = [opened |-> FALSE, listed |-> FALSE, discovering |-> FALSE,
              preferred |-> None, treeRoot |-> None,
              process |-> "off", ready |-> FALSE, terminating |-> FALSE,
              requests |-> {}, sent |-> <<>>, later |-> <<>>,
              scanRequest |-> None, staging |-> None, cancelling |-> FALSE,
              activation |-> None, pendingScan |-> None, pendingOpen |-> None,
              view |-> None, shown |-> None, available |-> FALSE]

UserActs == \/ UserOpens \/ UserCloses \/ UserSelects \/ UserRescans
            \/ UserRefreshes \/ UserBrowses
TakesLine ==
  \/ Unexpected \/ HelloReady \/ SnapshotAnswer \/ ScanStarted
  \/ ScanLineDropped \/ ScanNotDone \/ SnapshotActivated \/ RowsArrive
  \/ FirstRowsArrive \/ ActivationCommitted \/ Acknowledged \/ RequestRefused
BrokerActs == /\ ~panel.terminating  \* a signal ends the broker at once
              /\ UNCHANGED panel
              /\ Serve(FreshGen) \/ Work

\* What was put off runs when the lines read in one go have been handled,
\* before any other event; a step of the broker may as well come after it.
Quiet == panel.later = <<>>
Event == \/ UserActs \/ Listed \/ DeadlinePasses
         \/ BrokerStarted \/ BrokerExits \/ BrokerActs
Next == \/ TakesLine
        \/ CallsLater
        \/ Quiet /\ Event

Spec == Init /\ [][Next]_vars

(***************************************************************************)
(* Properties.                                                             *)
(***************************************************************************)
Alive == panel.process = "up" /\ serving /\ ~panel.terminating

\* Rows of an activation that another has replaced are dropped with their
\* request left waiting, and so is the refusal of a scan: see the README.
Overtaken(r) == /\ r.token # None
                /\ \/ panel.activation = None
                   \/ r.token # panel.activation.token
RefusedScan(r) == r.op = "scanStart" /\ r.gen = None

\* Every other request in brokerRequests is one that the broker has before it
\* or has answered.  A request nobody will answer makes brokerRequestDeadline
\* stop a broker that has done its work.
NothingElseStarves ==
  Alive => \A r \in panel.requests :
             Answerable(r) \/ Overtaken(r) \/ RefusedScan(r)

\* A pendingActivation waits for a request of its own: one whose rows or whose
\* commit were never asked for would stay "loading" and block every scan.
ActivationGoesOn ==
  Alive /\ panel.ready /\ panel.activation # None =>
    \E r \in panel.requests : r.token = panel.activation.token

\* What can be browsed (activeBackendAvailable) is a generation the broker
\* still serves, unless the answer that replaces it is on its way.
ViewIsServed ==
  Alive /\ panel.available /\ panel.ready =>
    \/ Holds(active, panel.view) \/ Holds(previous, panel.view)
    \/ \E i \in DOMAIN stdout : stdout[i].type = "activationCommitted"

\* When the panel is at rest the broker has no activation and no scan left
\* unsettled, for which it would refuse every later snapshot and scan.
Resting == /\ Alive /\ Quiet /\ panel.ready /\ ~Pending
           /\ panel.requests = {} /\ stdout = <<>> /\ outcomes = {}
NothingUnsettled == Resting => previous = None /\ staging = None

\* While the panel says "Rescanning..." (scanRequestId is set) the broker has
\* that request before it, runs that scan or has its outcome on the way.
ScanningIsTrue ==
  Alive /\ panel.scanRequest # None =>
    \E r \in panel.requests : r.id = panel.scanRequest /\ Answerable(r)

\* A filesystem is scanned on the user's request, or if it has no valid
\* snapshot: opening the panel and switching filesystems scan nothing else.
ScansOnlyWhatIsMissing ==
  [][\A i \in (Len(stdin) + 1)..Len(stdin') :
       stdin'[i].op = "scanStart" /\ ~stdin'[i].asked
         => stdin'[i].root \notin stored]_vars
=============================================================================
