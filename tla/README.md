# OmaTree: models, checks and proofs

OmaTree scans a filesystem, stores the result in a SQLite database and lets a
panel (QML) or a terminal interface browse it. This directory holds TLA+
modules of its core, the TLC configurations that check them on small instances
and theorems that TLAPS checks for every instance. `PROJECT.json` lists the
components, runs, mutants, the lines each definition models, findings, hazards
and theorems.

- `tlc -workers 2 -config Scan_pipeline.cfg MCScanPipeline.tla` runs one check.
- `for m in Iteration.tla *Proofs.tla; do tlapm $m; done` checks all proofs.

## 1. Inventory

Paths are relative to the repository; "core" is `helper/omatree_core`.

| Component | State | Operations | Interacts with |
|---|---|---|---|
| **Snapshot broker** `core/broker.py` | `_active`, `_previous`, `_staging`, the generations with reference counts, `_query_jobs`, `_outstanding`, `_current_query`, `_shutdown` | eight request types, scan worker, scan timer, query thread, shutdown | panel (NDJSON over pipes), store, writer, reader, scanner |
| **Persistent snapshot store** `core/persistent_snapshots.py` | `snapshot-<key>-<random>.sqlite` files and one `active-<key>.json` pointer per target | `load`, `publish` | broker; other processes through the directory |
| **Snapshot writer** `core/sqlite_snapshot.py` | a database under construction, its row and path indexes, a finalized flag | `create`, `write_*`, `finalize`, `abort`; `SQLiteSnapshot.delete` | scan worker, scanner |
| **Query reader** `core/sqlite_query.py` | a read-only connection, a deadline | `open`, `children`, `children_at`, `search`, `ancestors`, `metadata` | query thread, store |
| **Broker protocol** `core/broker_protocol.py` | none | parses and bounds a request line | broker |
| **Scanner** `core/scanner.py` | the explicit stack of open directories, the inodes already counted | `scan`, `_Cancellation.check` | writer or stream as its sink |
| **Discovery, paths** `core/discovery.py`, `core/paths.py` | none | list of mounts, mount exclusions, validation of a root | scanner, panel, terminal interface |
| **Scan stream and builder** `helper/discover.py`, `core/protocol.py`, `core/snapshot.py`, `core/resources.py` | an NDJSON budget; a snapshot under construction | emit and account events; all-or-nothing build | readers of the command's output; terminal interface |
| **Panel** `Panel.qml` | broker process, pending requests (at most 4) with deadlines, the scan in progress, navigation and search in progress | send a request, match a reply, time out, restart the broker | broker, browser state |
| **Browser and search state** `BrowserState.js`, `SearchState.js` | bounded caches of rows and pages | add a page, evict, navigate, restore | panel |
| **Tree model, frontend safety** `TreeModel.js`, `FrontendSafety.js` | none | pure functions over rows and paths | panel |
| **Terminal interface** `tui/app.py`, `tui/controller.py` | a scan with a cancellation and a worker thread, the displayed directory | start, cancel, poll, navigate | discovery, scanner, builder |
| **Installer, bar widget, launchers** `tui/cli_install.py`, `BarWidget.qml`, `bin/` | a symlink; none; none | install, remove; layout; exec | – |

How the core works. A *scan* of a target (a root path with its mount point)
gets a fresh *generation* id. Its worker writes a new database, and if the scan
is still wanted, makes the generation `_active` and the former one `_previous`.
The panel then sends `activationCommit`: the database is published (renamed to
its final name, then the target's pointer file is replaced) and the predecessor
is *retired*. Or it sends `activationAbort` and the predecessor is active again.
`snapshotOpen` makes the stored snapshot of a target active without a scan. A
*query* is queued on a generation and holds a reference on it; a new search
pushes out older ones. A retired generation's database is deleted by whichever
thread sees its last reference go.

What is hard:

- **Interleaving**: control thread, scan worker, timer and query thread share
  one lock that handlers drop and take again (`_activation_commit` publishes
  without it, outcomes are written without it, databases are deleted without it).
- **Aliasing**: opening A, B and A again yields two generations with one file.
- **Crash**: the store is all that survives. There is no recovery code; the
  order of the renames has to suffice.
- **Partial failure**: publishing fails after the rename; the output breaks
  while a scan reports; joins in `shutdown` time out.
- **Limits**: outstanding requests, queued searches that supersede one another,
  the four requests of the panel, the budgets of the scan.
- **Stale answers**: the panel handles a reply after the user, a deadline or the
  death of the broker has changed what it was waiting for.
- **A tree that changes** while it is walked; a snapshot that is replaced while
  it is paged through.

What makes each component correct:

- *Broker*: no database in use is deleted; every database that nobody may use
  any more is; the stored snapshot of a target is only ever replaced, by a
  complete one; requests are answered once, queries and scans always end; a
  cancelled scan does not become active.
- *Store*: a pointer names a complete database of its target, after a kill at
  any instant.
- *Writer and scanner*: each parent's aggregates are the sums of its children,
  a hard link counts once, a database is finalized whole or not at all.
- *Reader*: the pages of a listing are a partition of it in its sort order.
- *Stream and builder*: what was accounted is what was emitted; nothing is
  shown of an incomplete stream.
- *Panel and caches*: every request is settled once, the view belongs to the
  generation it is labelled with, caches keep their bounds and lose nothing
  that is on screen.
- *Terminal interface*: a cancelled scan leaves no result, the interface never
  waits on a dead worker, the cursor stays on a row that is on the screen.

## 2. Plan

Modules, in the order of their importance, with what is left:

| | Modules | State |
|---|---|---|
| 1 | `SnapshotBroker`, `SnapshotLibrary` (what it promises of stored snapshots) | done, section 3; all safety properties proved |
| 2 | `Panel` composed with `SnapshotService` | done but for search, breadcrumbs and reveal, section 4; `NothingElseStarves` proved |
| 3 | `Scanner`, `SnapshotWriter`, `SnapshotReader`, `SnapshotBuilder`, composed in `ScanPipeline` | done, section 5; all properties proved |
| 4 | `ScanStream` on top of `Scanner` and `SnapshotBuilder` | done, section 6; all safety properties proved |
| 5 | `QueryPages` | done, section 7; all properties proved |
| 6 | `TerminalApp` on top of `TerminalBrowser` | done, section 8; all safety properties proved |
| 7 | `BrowserState`: the panel's bounded caches; the rows on screen stay cached; 5 rows, bound of 3 | to do |
| 8 | `SnapshotStore`: two broker processes on one cache directory, with kills; 2 processes, 1 target, 4 files | to do |

Theorems to prove next, beyond those of section 9: `NothingUnsettled` and
`ViewIsServed` of `Panel`, from its inductive invariant and a count of what is
pending. No module has a RECURSIVE operator, for the sake of proofs.

## 3. SnapshotBroker

One broker process, its threads, the cache directory, and process restarts.

| Code | Model |
|---|---|
| database files, at their working or final path | `disk[g] ∈ {absent, partial, work, final}`; a file is named after the generation whose scan wrote it |
| `active-<key>.json` | `pointer[r]` |
| `_Generation` | `gen[g]`: `file`, `place` (the path it believes in), `persistent`, `retired`, `doomed` (`delete_on_retire`), `refs` |
| `_active`, `_previous`, `_staging` | `active`, `previous`, `staging` |
| `_ScanState` and where its worker is | `scan[g]`; `pc` is the worker's position |
| `_QueryJob`, `_query_jobs`, `_outstanding`, `_current_query` | `job[q]`; the sets `Queued`, `Outstanding` and `Current` are read off `job[q].pc`, `arrival` is the queue's order; `job[q].path` is the path the query thread has read from the generation |
| locals of the handler being executed | `ctl`, with the handler's position |
| messages written | `reply[q]`, `notice[g]` |

An action is one critical section, or the unlocked stretch between two.
`CommitStart` → `PublishRename` → `PublishPoint` → `CommitSettle` →
`CommitDelete` is `_activation_commit`; `PublishFails` may leave it after either
step of publishing. `ScanOpen` … `ScanAnnounce` and `FinishScan`, `ScanReport`
are the scan worker; `Take`, `Look`, `Open`, `Execute`, `Fail`, `Finish` the
query thread. It reads the path of a generation without the lock (`Look`), opens
the file there (`Open`), and `_ensure_open_and_unchanged` looks for the opened
file at *that* path again before the query runs (`Execute`); a commit may rename
the file between any two of these, and the error comes a step later still
(`Fail`). A handler runs to its end before the next request is read, as in
`serve`.

Abstractions: a message is its kind; a request's arguments are well formed; the
walk is one step; a query's rows are not modelled; ids never repeat
(`token_hex(16)`). Databases are always in the cache directory (the copying
branch of `publish` is not modelled). Two processes never run at once.

The client may send anything at any time, within `Ops`; the environment may do
what `Faults` allows. Both are constants so that a run can be about one
question; all members of both are used by some run.

`SnapshotLibrary` is what the README of OmaTree promises of stored snapshots: a
target keeps its latest snapshot until a complete one of that target replaces
it in one step. The refinement maps `latest[r]` to what
`PersistentSnapshotStore.load` finds (`Latest`) and `target` to `rootOf`. Kills
and restarts are stutters of it.

### Runs

`r1`, `r2` are targets, `g1`… generations, `q1`… queries. `Archive` says which
targets have a snapshot from an earlier session (`OneArchived`: `g1` of `r1`).
Generation ids that the archive does not name are symmetric in the safety runs,
and the two searches in `broker_outcomes`.

| Run | Checks | Instance |
|---|---|---|
| `broker_retention` | `RetainedFilesPresent`, `RetiredFilesReclaimed`, `FailsOnlyWhenMoved` | both targets archived, 6 generations (2 archived, 4 issued), 1 query, no searches, no failing publication |
| `broker_outcomes` | `TypeOK`, `ReferencesCounted`, `CancelledNeverActivates`, `AnsweredOnce`, `SupersededAnswered` | 2 scans, 3 queries of which 2 searches, failures, timer, breaking pipe, joins that give up |
| `broker_library` | `PointersValid`, `LibraryImplemented` | kill at every step, restart, failing publication, queries on retired generations, 4 generations |
| `broker_liveness` | `QueriesAnswered`, `ScansSettle`, `ShutdownCompletes` | `FairSpec`, 1 target, 2 generations, 2 queries |
| `broker_search_leak` | `RetiredFilesReclaimed`, **violated** | 2 searches, 3 generations |

Why the bounds are enough. A generation's life touches its predecessor and
successor only, so three generations on a target exercise predecessor, active
and staging at once; two targets are needed for the rule on `delete_on_retire`;
`broker_retention` has enough ids to open A, B, A and then rescan A while a
query still runs on the first generation. Two outstanding queries are one
running and one queued, three let a search push out another. `MaxOutstanding`
is 2 where the code has 4: what matters is whether the limit is reached.

Deadlock is off where shutdown or exhausted ids let everything stop, and on in
`broker_library`, where a kill is always possible.

`RetiredFilesReclaimed` is claimed for a broker that gets no search and whose
publications succeed: with searches it is violated, and after a failed
`publish` whose move back also fails the broker believes in a path that is
empty. `RetainedFilesPresent` is claimed while the output is intact: a worker
whose `snapshotActivated` cannot be written deletes the database of the
generation it has just made active, but then the broker is shutting down.

`FailsOnlyWhenMoved` says what the code gives, which is less than one might
wish: a query that was accepted before a commit may fail long after it, if it
read or opened the working path before the rename and looked there again after
it. What is checked is that nothing else makes a query fail for want of its
database: the file is then at its final path, it is never one that was deleted,
and a query that reads the path after the commit succeeds.

Fairness (`Fairness`): the handler in progress, the query thread and every
scan worker run on when they can: they are threads the operating system
schedules, and nothing they wait for is unbounded in the model (the walk is
finite, queries have a deadline). A broken output makes `serve` shut down by
itself. The client, the timer and faults are under no fairness.

## 4. Panel and SnapshotService

The panel joined to the broker by its two pipes.

`SnapshotService` is the broker as a client meets it: a request is one step,
files are left out (section 3 has both), and what remains is what a reply can
say: `active`, `previous` and `staging`, the queued `queries`, what is `stored`,
and the scan `outcomes` that are decided under the lock and written after it.
`stdin` and `stdout` are the pipes, first in, first out.

`Panel` is `Panel.qml`. QML runs in one thread, so a step is one turn of the
event loop: a line from the broker, a step of the user, a timer, the end of a
process. `panel` is the record of the properties:

| Code | Model |
|---|---|
| `opened`, `preferredMountpoint`, `treeRootPath`, `brokerReady` | `opened`, `preferred`, `treeRoot`, `ready` |
| `filesystemModel.count > 0`, `discoveryLoading` | `listed`, `discovering` |
| `brokerProcess.running`, `brokerTerminationRequested` | `process` (off, starting, up), `terminating` |
| `brokerRequests` | `requests`: id, operation, generation, token |
| `scanRequestId`, `stagingGenerationId`, `scanCancellationRequested` | `scanRequest`, `staging`, `cancelling` |
| `pendingActivation` with its `metadata` and `children` | `activation` with `rows` |
| `pendingScan`, `pendingSnapshotOpen` | `pendingScan`, `pendingOpen` |
| `activeGenerationId`, its root, `activeBackendAvailable` | `view`, `shown`, `available` |
| functions put off with `Qt.callLater` | `later` |
| `treeGeneration` of such a function or scan | `current` |

A function of the source is an operator from one such record to the next, under
the function's name; `handleBrokerLine` is one action for each way it takes a
message, and what it sends in that turn goes into `stdin` at the end of it.
`Qt.callLater` functions run before the next event of another kind (`Quiet`);
lines that were read together may come before them, as in `drainBrokerLines`.

Abstractions: ids and generation ids are numbers, the least that nothing refers
to (they never repeat in the code); a path is the filesystem it is the root of;
rows are not modelled, so a listing and a page of the breadcrumb are the same
request (`children` without a token); progress and warning lines, malformed
messages, searches, revealing and an empty list of filesystems are left out. A
`SIGTERM` ends the broker without another message. A deadline passes when no
answer can come any more, or at any time with `"slow"`.

The user is a constant: with `Hurry = {}` one who waits until nothing is
loading before choosing another filesystem, asks for one listing at a time and
presses Rescan only at rest, but may close, open, refresh and browse at any
moment. `Hurry` names what a user does who does not wait. `Faults` names what
may fail: the broker process (`"crash"`), a scan, opening or publishing a
database, a query.

| Run | Checks | Instance |
|---|---|---|
| `panel_requests` | `NothingElseStarves`, `ActivationGoesOn`, `ViewIsServed`, `NothingUnsettled` | 2 filesystems, one with a snapshot, `Faults = {"crash"}`, `Hurry = {}` |
| `panel_needless_scan` | `ScansOnlyWhatIsMissing`, **violated** | a user who switches filesystems without waiting |
| `panel_endless_scan` | `ScanningIsTrue`, **violated** | a patient user, no faults |

The state space is finite without a bound on the number of steps: ids are used
again once nothing refers to them. `MaxRequests` and `MaxOutstanding` are the
4 of the code. Two filesystems are enough to switch, one with and one without a
snapshot to open it or scan it. Deadlock is off: a panel that is closed and
whose broker has ended has nothing to do.

The four properties of `panel_requests` also hold with `Faults` `{}`, `{"slow"}`,
`{"crash", "scan"}` and `{"scan", "publish"}`, and `NothingElseStarves` with all
of them (section 9). What is not claimed, and why:

- With `"query"`, `NothingUnsettled` does not hold: the error of an old
  `metadata` request aborts the activation that came after it, and the broker
  keeps a `previous` that nobody settles (`Panel.qml:1276` compares no token).
  Nor does `ViewIsServed`: an error of the rows of a snapshot that was active
  already makes the panel abort it, and the broker, which has no predecessor
  for it, then serves nothing, while the panel still shows that snapshot.
- With `"browse"` in `Hurry`, `ActivationGoesOn` does not hold: with three
  listings on their way the `metadata` request of an activation takes the last
  of the four places, its `children` request is refused (`Panel.qml:1068`
  ignores the empty id), and the activation waits for rows nobody has asked
  for. (The commit itself always fits: the request whose answer leads to it is
  finished first.) With other faults
  beside it (`"open"`, or `"scan"` and `"publish"`) `ViewIsServed` fails too.
- `NothingElseStarves` excepts two kinds of requests that do starve: rows of an
  activation that another one overtook, which `handleBrokerLine` drops without
  finishing the request, so that its deadline stops a healthy broker three
  seconds later; and refused scans (`panel_endless_scan`).
- Refresh disks during the first scan of a newly selected filesystem cancels
  that scan, and `selectFilesystem` returns early: what stays on screen is the
  other filesystem, without a scan or a message.

## 5. Scanner, SnapshotWriter, SnapshotReader, SnapshotBuilder, ScanPipeline

`Scanner` is `scan_tree`: `stack` is its stack of frames, one action per way an
entry is taken (`Exclude`, `Miss`, `TooMuch`, `Descend`, `Measure`), `Leave`
emits a directory's record and adds it to its parent. The file system is any of
`Trees`; it changes under the walk by `Faults`: an entry vanishes, a directory
cannot be read or breaks off half-way, an entry is listed again. `fs.linked` are
the names whose own stat shows more than one link when the walk comes to them;
as names come and go during the walk, the names of one inode need not agree. A consumer
that refuses a record and a cancellation may end the walk at any step.

`SnapshotWriter` holds the rows and the checks of `_validate`, `SnapshotReader`
what `open` demands of a file, `SnapshotBuilder` the in-memory tree of the
terminal interface. `ScanPipeline` gives the records of one walk to both
consumers, as `_scan_worker` and `ScanController.scan` each do to theirs.

`HardlinksCountOnce` therefore speaks of the names that showed several links: an
inode counts once among them. One whose other name is unlinked, or made, between
the stats of two of its names shows one link at one of them and is counted at
that name too, so twice: `count_stat` looks for an inode it has seen only if the
stat at hand shows several links (`scanner.py:133`). That is the code's, and the
run includes it. An entry that is listed again shows the same links again; for a
reported file that is no loss, since its second row ends the scan.

`scan_pipeline`: `TypeOK`, `SizesAddUp`, `HardlinksCountOnce`,
`IncompleteIsMarked`, `CompleteWalksAccepted`, `OpensWhenComplete`, over every
tree of four entries whose first is a directory (so up to three levels below
the root), with two names for one file, a mount point or a path that is too
long, and with every choice of names that show several links.
`MaxDirectories = 3` is reached by some trees and not by others, and so is
`MaxIdentities = 1`; `MaxEntries = 6` is reached when a directory lists an entry
again. Sizes are powers of two, so that hardly two sums agree by accident.

## 6. ScanStream

The `scan` command of `discover.py`: `scan_command` around the walk of
`Scanner`, `NdjsonBudget` with its reserve for a terminal event, `main`'s exit
status, a signal, a kill, and `snapshot_from_events` reading the lines as they
come. The end of a scan is three steps: the last check for a signal decides the
outcome (`End`), its event is written (`Report`), the process exits (`Quit`). A
signal between them changes nothing any more, and a kill leaves what was
written: a reader then shows a tree although the scan was cancelled, or though
it never exited with 0. `ShowsTheWholeWalk` says that even so it is the whole
walk. A size is a small number and an event takes any size, one more than is
allowed included; `MaxEvent = 2` and `MaxTotal = 10` let a walk end anywhere
for want of room, `MaxWarnings = 1` lets a warning be suppressed.

`scan_stream` (`FairStreamSpec`): `WithinBudget`, `EndsWithOneTerminal`,
`ShowsTheWholeWalk`, `CompletedIsShown` and, as liveness, `Ends`. The fairness
is that of a process that is scheduled; signals and kills are under none.

`Faults` has no `"again"` here: a directory that is listed twice is walked twice,
the builder raises at its second record, and the reader shows nothing of a scan
that exits with 0. That is what the code does; `CompletedIsShown` is about the
scans without it.

## 7. QueryPages

`children`, `children_at`, `search` and `ancestors` of `SQLiteSnapshotReader`
with their continuations, against the listing itself: an answer is any page that
`_pack` may cut, at the row limit or before it for the size of its rows; a
client may present a continuation to another operation or directory, or after
the snapshot was replaced. `children_at` reads none: a `childrenAt` request that
carries one begins a listing like any other. Rows carry size, folded name and path, the order of a
listing is its `ORDER BY`, what follows a continuation its `WHERE`.

`query_pages`: `PagesAreTheListing`, `RevealListsDirectories`,
`PagesAreTheChain`, `TokensGoOn`, over every tree of `N = 4` entries of sizes 0
and 1 under a root, which are directories or files in any combination, with
folded names that agree or differ. `MaxRows = 2` gives two or three pages
to a listing, `MaxBreadcrumb = 2` to a chain. One replacement of the snapshot
(`MaxReplaced = 1`) is enough for a continuation to be stale.

## 8. TerminalApp, TerminalBrowser

`TerminalApp` is the loop of `TerminalApp.run` (poll, draw, key) and the scan
thread of `start_scan`, which calls `ScanController.scan`: each place where the
thread can be interrupted between two accesses to shared state is an action
(`Register`, `Report`, `WalkEnds`, `Release`, `Publish`, `Finish`).
`TerminalBrowser` is `BrowserController`: the rows are numbered in the order in
which they are shown when everything is open, so that an index is a count.

`terminal_app` (`FairSpec`): `OneScanAtATime`, `BrowsesTheNewest`,
`CursorOnScreen`, `CancelledNeverReplaces`, `SelectionStays`, and as liveness
`QuitEnds` and `ScansEnd`, over `MaxScans = 2` scans of `MaxEvents = 1` event
that find one of three trees of up to `N + 1 = 4` directories, on a screen of 0
to 2 rows that changes its height at any frame. Two scans are needed for one to
replace the other's snapshot, two rows for fewer rows than directories.
Fairness: `getch` returns after 100 ms, so the loop turns, and the scan thread
is scheduled and its walk finite. No key is ever certain.

A cancel before the thread has registered its `Cancellation` is lost, by the
code; `CancelledNeverReplaces` speaks of the ones that reach it.

## Findings

Each is a run in which TLC finds the violation; `PROJECT.json` quotes what the
repository says.

- `broker_search_leak`: a search that drops a queued search of a retired
  generation gives back its last reference without deleting the database.
- `panel_needless_scan`: every reply to `snapshotOpen` but `snapshotAvailable`,
  an error and a reply about another filesystem included, starts a scan of the
  filesystem selected now. So switching while an answer is on its way, or while
  another filesystem is being scanned, scans one whose snapshot is valid. A
  patient user meets it too, by closing and opening the panel during a scan.
- `panel_endless_scan`: an error reply to `scanStart` names no generation and is
  dropped, so the panel says "Rescanning…", with its button disabled, until the
  deadline of an hour and ten seconds stops the broker. The broker refuses a
  scan while a query on the retired generation still runs.

### Divergences without a run

These do not hold either; the first three are one line of a configuration away.

- `SnapshotBroker!SilentAfterShutdown` (operations scanStart, shutdown): a scan
  that has just cleared `_staging` is not joined by `shutdown` and may write its
  outcome after `shutdownComplete`
  (`tests/test_broker.py`, test_shutdown_cancels_staging_without_post_shutdown_events).
- `SnapshotBroker!PredecessorKept` (scanStart, snapshotOpen, activationCommit):
  `_activation_commit` clears `_previous` after publishing without the lock; a
  scan activated meanwhile loses its predecessor, and an abort of it leaves
  nothing active.
- `QueryPages!RevealListsFiles`: `children_at` reads directories only and
  reports no more rows when they are exhausted, so the listing that reveals a
  search result never goes on to the files.
- Aborting an activation while a query runs on it leaves the database in the
  cache directory: `Abort` does not set `doomed`, which is what
  `RetiredFilesReclaimed` speaks of. And `activationAbort` accepts a generation
  that was committed, though its error says "is not awaiting activation".

## 9. Proofs

The theorems hold for every value of the constants that the assumptions admit:
any number of targets, generations, queries, files, scans and rows, every limit,
and every choice of operations and faults. The general pattern is an inductive
invariant, one lemma per action (or per group of actions that leave the same
things alone), and temporal logic only in the last step.

| Module | Theorem | States |
|---|---|---|
| `SnapshotBrokerProofs` | `TypeCorrect` | `[]TypeOK` |
| | `ReferencesCorrect` | `[]ReferencesCounted` |
| | `CancellationCorrect` | `CancelledNeverActivates` |
| | `AnswersCorrect` | `[]AnsweredOnce` |
| | `SupersededCorrect` | `[]SupersededAnswered` |
| | `PointersCorrect` | `[]PointersValid` |
| | `LibraryCorrect` | `LibraryImplemented`, the refinement of `SnapshotLibrary` |
| | `RetentionCorrect` | `[]RetainedFilesPresent` |
| | `FailsCorrect` | `FailsOnlyWhenMoved`, if publishing does not fail |
| | `ReclaimCorrect` | `[]RetiredFilesReclaimed`, if moreover nobody searches |
| `ScannerProofs` | `WalkCorrect` | `[]TypeOK` of the walk alone |
| `ScanPipelineProofs` | `PipelineTyped` | `[]TypeOK` of the walk with its consumers |
| | `OpensCorrect` | `[]OpensWhenComplete` |
| | `WalksAccepted` | `[]CompleteWalksAccepted` |
| | `SizesCorrect` | `[]SizesAddUp` |
| | `HardlinksCorrect` | `[]HardlinksCountOnce` |
| | `MarkedCorrect` | `[]IncompleteIsMarked` |
| `ScanStreamProofs` | `BudgetCorrect` | `[]WithinBudget` |
| | `TerminalCorrect` | `[]EndsWithOneTerminal` |
| | `WholeCorrect` | `[]ShowsTheWholeWalk` |
| | `ShownCorrect` | `[]CompletedIsShown`, if no directory is listed again |
| `QueryPagesProofs` | `ListingCorrect` | `[]PagesAreTheListing` |
| | `RevealCorrect` | `[]RevealListsDirectories` |
| | `ChainCorrect` | `[]PagesAreTheChain` |
| | `TokensCorrect` | `[]TokensGoOn` |
| `PanelProofs` | `StarvationCorrect` | `[]NothingElseStarves`, if the user neither switches nor rescans while something is pending |
| `TerminalAppProofs` | `OneScanCorrect` | `[]OneScanAtATime` |
| | `NewestCorrect` | `[]BrowsesTheNewest` |
| | `CursorCorrect` | `[]CursorOnScreen` |
| | `CancelledCorrect` | `CancelledNeverReplaces` |
| | `SelectionCorrect` | `SelectionStays` |

### The broker

The invariants build on one another: the pointers on those of types and
references, the files that are deleted (*Retention*) on the pointers.

- *Types, references, cancellation.* `TypeOK` is inductive by itself; its part
  `LocalsOK` relates the handler's position to its locals. The reference count
  needs `CountInv == TypeOK /\ Provenance /\ ReferencesCounted`: a scan that
  activates, or a snapshot that is opened, sets its count to 0, so nobody may
  hold that generation yet, and `Provenance` says where ids come from.
  `CancelledNeverActivates` needs that a staging generation is not active
  already (`StagingIsFresh`).
- *Pointers, refinement.* `StoreInv` adds what the unlocked stretches of
  `_activation_commit` and `snapshotOpen` know of the shared state when they
  take the lock again (`Committing`, `Opening`), that a database no commit has
  published is named by no pointer (`PublishedOnce`), and that a doomed one that
  was published has been replaced (`Retirement`), and that no scan runs while
  an activation is unsettled (`OneUnsettled`). Under `StoreInv` every step of the broker
  replaces the latest snapshot of one target or leaves all (`LibraryCorrect`).
- *Retention.* Four threads delete databases: a commit or abort, the shutdown, a
  settled query, an ended scan. Each decided to before it took, or after it
  released, the lock. `RetentionInv` says that what they are about to delete is
  retired, and `DoomedAlone` that a doomed published database has no other id in
  use; that is not inductive without `QueriedWhere`, which says on which
  generations queries can be at each moment of an activation.
- *What fails.* `FailsCorrect` rests on `PathsRead`: the path a query has read
  is the working one or its generation's present one, and a query that was
  opened, or did not find its file, at a path that is not the present one had
  read the working one before the commit moved the file, which is in place at
  its final path as long as the query holds its reference.
- *The two conditional theorems.* `FailsCorrect` and `ReclaimCorrect` assume
  `"store" \notin Faults`: a publication that fails after its rename leaves the
  database at its final path while the broker believes in the working one.
  `ReclaimCorrect` also assumes `Searches = {}`: a search that pushes out another
  gives back a last reference without deleting (`broker_search_leak`). Both are
  what the code does, not what the proof could not do.
- *Answers.* `AnswerInv` says that nothing has been said of a query that waits
  or runs, or is about to be told it was dropped (`Replies`), and that a request
  pushes out a search only if it then finds room (`Bounded`).

### The panel

`IInv` (`PanelProofs`, theorem `PanelInductive`) relates the requests the panel
waits for to the two pipes and to the broker's state. Its first half is about
one request:

- `Wire`: an identifier names one request, which is in one place (`Apart`);
  answers fit their request (`Matched`); the outcome of a scan comes after the
  line that names its generation (`Ended`, `Started`), and a refusal comes alone
  (`RefusedAlone`).
- `NoneForgotten`: while the broker serves, a request is before it, or answered,
  or of an activation that was overtaken, or a refused scan.
- `OneScan`, `SameRoot`, `RowsNamed`: the scan that is under way is the one in
  `scanRequestId`, what is on its way is about the selected filesystem, requests
  for rows name the snapshot on screen or that of their activation.

The property is `NoneForgotten`; the rest is there for the lines that
`handleBrokerLine` drops without finishing their request. A dropped line about
a scan must be an error, so its generation and its filesystem have to be right
whenever it is not; dropped rows must be those of an activation that another
one overtook. The second half, `Control`, is why two of these never meet:
without a process nothing is pending (`Offline`), `hello` is alone (`Booting`),
and while a snapshot is opened or a scan is put off or launched there is no
activation, no scan or no other open that it would overtake (`Opening`,
`Launching`, `NextScan`, `OneOpen`), and all of them are about the filesystem
selected now (`Unlisted`, `Chosen`, `Aimed`).

A step of the panel is a composition of its functions, and the proof has the
same shape: each function takes a panel that is `Fine`, with what it has sent so
far at the end of the pipe, to one that is `Fine`, and each action composes
those lemmas; the broker's steps are one lemma each. New identifiers differ from
all that are on their way since the least unused number exists
(`FreshIdAbsent`, from a cardinality argument).

The hypothesis of the theorem is `Hurry \subseteq {"browse"}`. It cannot be
dropped: TLC finds the property violated by a user who switches filesystems
without waiting, as by one who presses Rescan without waiting: either way two
`scanStart` are pending at once, `scanRequestId` names the newer one, and the
outcome of the older is dropped with its request left behind. There is none on `Faults`, on the filesystems or on the size of the
two limits.

### The scan

- *The walk.* `WalkInv` (`ScannerProofs`) says that the stack is a path from the
  root (`Chain`: each frame's directory lists the next one's, no directory is on
  the stack twice, what is still to come is in the directory it is read from) and that
  `finished + Len(stack) <= discovered`, from which the directory limit follows.
- *The consumers.* `PipelineInv` relates rows, frames and the tree in memory:
  every row's parent is stored or on the stack (`Hanging`), the counts of a frame
  or row are those of the rows below it (`Accounted`), and the builder's tree
  and its waiting children are the rows' (`Built`). A directory that is listed
  again is walked again, and the rows stored below it then are not counted by
  the row it has; so what is said of rows excepts directories on the stack, and
  what is said of frames the directories that have a row. When the second walk
  leaves such a directory its row is refused and the scan fails: no complete
  database is wrong. `WalksAccepted` then shows the checks of `_validate` and of
  the builder one by one; that every directory can be reached is shown of sets
  closed under parents, since no set of stored directories but the root is.
- *The sizes.* `SizesInv`, inductive on top of `PipelineInv`: what a frame or
  row counts is its own size, what it measured directly and the rows below it
  (`SubtreesAdded`, with the same exception); what the frames of the stack hold
  together is what the scan has counted (`TotalKept`); and the files' rows have,
  among the names that showed several links, one counted name per inode
  (`LinksCounted`). A sum over a set
  (`MapThenSumSet`) takes its members in an arbitrary order, and to say what it
  is when a row is added one has to know that the order does not matter. That is
  induction over the set's cardinality, done here through the least number that
  would refute it (`LeastNumber`, from the well-foundedness of `<` on `Nat`),
  which needs no operator as a parameter.
- *What is missing.* `MarkedInv`: for an entry without a row, every row above
  it has warnings, and for every directory above it that is on the stack a
  warning was counted since it was entered, or the entry, or one above it, is
  still to come. The directories above an entry (`Below`) are a recursive
  function: `BelowSteps` shows that it exists and `BelowListed` that what it
  collects lists one another. Only directories list entries
  (`ListingAssumption`); without it an entry could hang below a file, which has
  no record to be marked.
- *The output.* `StreamInv` (`ScanStreamProofs`): until a terminal event is
  written the bytes sent are those the budget counted and leave `MaxEvent` of it.
- *What is shown.* `WholeInv`: the warnings written and the one that still waits
  in the outbox are the first `MaxWarnings` of them, the frames together hold
  what the scan has counted (`Totals`, said by a running sum along the stack),
  and so the root's record, which nothing follows, holds all of it; the reader
  says "complete" only when the walk was complete and that outcome was reported,
  whatever signal or kill came after. `ShowsTheWholeWalk`
  needs no more: a tree the reader could not complete is not shown.
- *That it is shown.* `GrownInv`, the converse: the directories sent, those on
  the stack and those still to come are disjoint (`Apart`), every directory
  reached hangs below the root (`Rooted`), each has announced as many children
  as have been sent (`CountedBelow`), and the reader has linked each to its
  parent or keeps it until that comes (`Joined`). So it takes every record and
  accepts the whole. `Apart` fails as soon as a directory is listed again, hence
  the hypothesis `"again" \notin Faults`.

### The pages

`PageInv` (`QueryPagesProofs`) says, next to the four properties, where a walk
goes on (`NextRow`): the token of a listing is the key of the last row given, the
token of a chain is the first ancestor not given. It rests on three groups of
lemmas.

- *The order.* `Precedes` orders the paths strictly and totally (`Ordered`), and
  what the WHERE clauses select after a key are the rows that follow its row
  (`AfterKey`). So the ranks of a finite set of rows are the numbers below its
  cardinality, one each (`RankGrows`, `RowOfRank`), and `InOrder`, which chooses
  a row for each rank, lists every row once and in order (`Enumerated`).
- *The cut.* A page is a beginning of the rows and has a token unless it is all
  of them (`PageBegins`, `PageFollows`); what follows its last row is the rest
  of the listing (`RestFollows`); a page of the rest continues it
  (`PageContinues`). A walk that reveals a directory changes from its own pages,
  of directories only, to those of `children` (`SiblingsAnswered`): the key has
  the group of directories, and no file precedes one.
- *The chain.* `Chain` is a recursive function: each step leads to a smaller path,
  so after N steps it has met the root (`ChainSteps`, `ChainClimbs`); there is one
  way up (`OneWayUp`), so the chain of an ancestor is the rest of the chain
  (`ChainRest`).

A token is of one walk and one snapshot, so it is accepted only while `Current`
(`AcceptedHome`); after a rescan nothing is claimed of the walk but that its
token is refused.

### The terminal interface

`AppInv`: scans run one after the other and the outcome of one is the last
message of its thread (`InOrder`, `Delivered`), that thread has replaced the
snapshot or none has since the last outcome was seen (`Replaced`), and the
cursor is on a row and on the screen (`Placed`). `CancelledNeverReplaces` is
temporal: a scan that was cancelled or failed stays so, step by step.

`SelectionStays` is about one key. The directories above a row have smaller
numbers (`AncestorsClosed`, `AncestorsLeast`), so opening or closing one changes
only rows after it (`RowsBefore`): the selected row keeps its index, and an index
names one row (`IndexGrows`, `RowAtIndex`). That rows have the row of the
directory above them is `RowsHang`. The directories above a row are a recursive
function again; `Iteration` has what such proofs share: a set of numbers has a
least one, a set that has 0 and with each number the next has all, and a function
can be applied again and again as often as one likes.

### Assumptions

Named in the modules that declare the constants, and evaluated by TLC on every
run: `None` is nothing else (no generation, target, path, record, metadata,
request, token, activation or function put off); the panel may wait for one
request at least (`LimitOfRequests`); the paths of a snapshot are finitely many and a directory has
a smaller number than what it lists (`DatabaseAssumption`, which the writer's
validation justifies);
nodes and queries are finite; limits are positive; the archive names each
snapshot for one target; trees are file systems in which the names of one file
have one size (`InodeAssumption`) and in which only directories list entries
(`ListingAssumption`); no exit status is `None` (`ExitAssumption`); the budget has room for a terminal event
(`BudgetAssumption`); a tree of the terminal interface numbers its directories in the order in which
they are shown (`TerminalAssumption`).

### Only model-checked

- Liveness (`QueriesAnswered`, `ScansSettle`, `ShutdownCompletes`, `Ends`,
  `QuitEnds`, `ScansEnd`): out of the prover's reach.
- `ActivationGoesOn`, `ViewIsServed` and `NothingUnsettled` of `Panel`. Unlike
  `NothingElseStarves` they hold only because everything a patient user may have
  pending fits under the limit of four requests, and each fails with some
  `Faults` or `Hurry` (section 4): an invariant for them has to count requests
  of each kind, in every phase of an activation and of a cancelled scan.

Every property of a passing run is broken by a mutant of the code under the same
instance (`mutants` in `PROJECT.json`); the mutated forms stand beside the
definitions they replace.

## 10. Not modelled

Of the broker: progress and warning messages, recognition of duplicate request
ids (among the last 256), validation of arguments, the parent-death signal. Of
the store: the copy across directories and two processes on one cache. Of the
writer and the reader: SQLite itself, the ownership and mode of files, text
encoding, the figures in a row (`ancestors`, `metadata` and `children` count the
files of a directory differently), the interruption of a statement. Of the
panel: search, breadcrumbs and reveal, the caches of rows, copying and opening a
folder, the discovery process beyond its end. Of the terminal interface: drawing
and the checks of its target. The broker protocol, mount discovery, the tree
model and the frontend's validators are pure conversions; the installer, the bar
widget and the launchers hold no state that a model would tell apart.
