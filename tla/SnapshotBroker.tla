--------------------------- MODULE SnapshotBroker ---------------------------
(***************************************************************************)
(* The broker process of OmaTree (helper/omatree_core/broker.py) and the   *)
(* files it keeps in the snapshot cache directory.                         *)
(*                                                                         *)
(* Three kinds of threads share the broker's lock:                         *)
(*   - the control thread reads one request at a time and handles it to    *)
(*     the end (serve, handle); a handler releases the lock between steps; *)
(*   - one scan worker per scan builds a database, activates it and emits  *)
(*     the outcome (_scan_worker); a timer may cancel it;                  *)
(*   - the query thread takes jobs from a FIFO queue (_query_loop).        *)
(* One action is one critical section, or the unlocked work between two.   *)
(*                                                                         *)
(* A database file is named by the generation whose scan wrote it, so a    *)
(* generation opened from disk has another generation's file.              *)
(***************************************************************************)
EXTENDS Integers, Sequences, FiniteSets

CONSTANTS
  Root,            \* scan targets: a root path with its mount point
  Gen,             \* generation ids the brokers may ever issue (a bound)
  Query,           \* query request ids, each used once per process (a bound)
  Searches,        \* the queries whose operation is "search"
  MaxOutstanding,  \* MAX_OUTSTANDING_REQUESTS
  Archive,         \* snapshots published before the first process started
  Ops,             \* the operations the client of this instance sends
  Faults,          \* what may go wrong in the environment
  None

AllOps == {"scanStart", "snapshotOpen", "scanCancel", "activationCommit",
           "activationAbort", "query", "shutdown"}

\* "scan": a scan, its validation or its database fails; "timeout": the scan
\* timer or a query deadline expires; "store": publishing fails half-way;
\* "pipe": the output pipe breaks; "slow": a join in shutdown times out;
\* "crash": the process is killed; "restart": a stopped process is restarted.
AllFaults == {"scan", "timeout", "store", "pipe", "slow", "crash", "restart"}

ASSUME NoneAssumption == None \notin Gen /\ None \notin Root
ASSUME QueryAssumption == IsFiniteSet(Query) /\ Searches \subseteq Query
ASSUME LimitAssumption == MaxOutstanding \in Nat \ {0}
ASSUME ArchiveAssumption ==
  /\ Archive \in [Root -> Gen \cup {None}]
  /\ \A r, s \in Root : Archive[r] = Archive[s] => r = s \/ Archive[r] = None
ASSUME ChoiceAssumption == Ops \subseteq AllOps /\ Faults \subseteq AllFaults

VARIABLES
  disk,         \* the state of each database file
  pointer,      \* the active-<key>.json files: Root -> the file they name
  rootOf,       \* the scan target each issued generation id stands for
  gen,          \* _Generation records
  active, previous, staging,   \* _active, _previous, _staging
  scan,         \* _ScanState records with the worker's program counter: at
                \* "scanFailed" or "scanCancelled" it is about to emit that
  job,          \* _QueryJob records with their progress
  arrival,      \* the order of _query_jobs, as pairs <<earlier, later>>
  queryThread,  \* whether _query_loop still runs
  ctl,          \* the control thread and its locals
  shutdown,     \* _shutdown
  broken,       \* the output pipe no longer accepts writes
  reply,        \* messages emitted for each query
  notice        \* messages emitted for each scan

memory == <<gen, active, previous, staging, scan, job, arrival, queryThread,
            ctl, shutdown, broken>>
vars == <<disk, pointer, rootOf, memory, reply, notice>>

-----------------------------------------------------------------------------
(* Types.                                                                  *)

FileState == {"absent", "partial", "work", "final"}

\* place: the path the broker believes the file has. A published file has
\* been renamed from its working path to its final one.
Generation == [file: Gen \cup {None}, place: {"work", "final"},
               persistent: BOOLEAN, retired: BOOLEAN, doomed: BOOLEAN,
               refs: Int]

ScanPc == {"none", "created", "started", "writing", "finalized", "announce",
           "cancelled", "failed", "scanFailed", "scanCancelled", "done"}
Scan == [pc: ScanPc, cancel: BOOLEAN, timedOut: BOOLEAN]

\* Where _run_query is with the current job, before it has answered.
Running == {"taken", "looked", "open", "missing", "changed"}
Held == Running \cup {"queued", "replied", "lost"}
JobPc == Held \cup {"new", "dropped", "refused", "done"}
\* path: the path that was read from the generation, to open its database.
Job == [pc: JobPc, gen: Gen \cup {None}, superseded: BOOLEAN,
        path: {"none", "work", "final"}]

Outcome == {"queryResult", "superseded", "queryTimeout", "queryFailed",
            "tooMany"}
Notice == {"scanStarted", "snapshotActivated", "scanFailed", "scanCancelled"}

CtlPc == {"idle", "failing", "launch", "load", "adopt", "publish", "point",
          "settle", "deletePrevious", "deleteAborted", "supersede", "join",
          "close", "delete", "stopped", "dead"}
Control == [pc: CtlPc, gen: Gen \cup {None}, prev: Gen \cup {None},
            root: Root \cup {None}, file: Gen \cup {None},
            drop: SUBSET Query]

\* The locals that the rest of a handler uses are set when it needs them.
LocalsOK ==
  /\ ctl.pc \in {"launch", "publish", "point", "settle", "deletePrevious",
                 "deleteAborted"} => ctl.gen \in Gen
  /\ ctl.pc = "deletePrevious" => ctl.prev \in Gen
  /\ ctl.pc \in {"load", "adopt"} => ctl.root \in Root
  /\ ctl.pc = "adopt" => ctl.file \in Gen

TypeOK ==
  /\ disk \in [Gen -> FileState]
  /\ pointer \in [Root -> Gen \cup {None}]
  /\ rootOf \in [Gen -> Root \cup {None}]
  /\ gen \in [Gen -> Generation]
  /\ active \in Gen \cup {None}
  /\ previous \in Gen \cup {None}
  /\ staging \in Gen \cup {None}
  /\ scan \in [Gen -> Scan]
  /\ job \in [Query -> Job]
  /\ arrival \in SUBSET (Query \X Query)
  /\ queryThread \in {"loop", "exited"}
  /\ ctl \in Control /\ LocalsOK
  /\ shutdown \in BOOLEAN
  /\ broken \in BOOLEAN
  /\ reply \in [Query -> Seq(Outcome)]
  /\ notice \in [Gen -> Seq(Notice)]

-----------------------------------------------------------------------------
(* Initial states.                                                         *)

At(pc) == [pc |-> pc, gen |-> None, prev |-> None, root |-> None,
           file |-> None, drop |-> {}]

\* A new _Generation, of a scan or of a published snapshot.
NewGeneration(file, published) ==
  [file |-> file, place |-> IF published THEN "final" ELSE "work",
   persistent |-> published, retired |-> FALSE, doomed |-> FALSE, refs |-> 0]

\* What a process that just started remembers: nothing of an earlier one.
NoGenerations == [g \in Gen |-> NewGeneration(None, FALSE)]
NoScans == [g \in Gen |-> [pc |-> "none", cancel |-> FALSE, timedOut |-> FALSE]]
NoJobs == [q \in Query |-> [pc |-> "new", gen |-> None, superseded |-> FALSE,
                        path |-> "none"]]
NoReplies == [q \in Query |-> <<>>]
NoNotices == [g \in Gen |-> <<>>]

Init ==
  /\ pointer = Archive
  /\ disk = [g \in Gen |->
              IF \E r \in Root : Archive[r] = g THEN "final" ELSE "absent"]
  /\ rootOf = [g \in Gen |->
                IF \E r \in Root : Archive[r] = g
                THEN CHOOSE r \in Root : Archive[r] = g ELSE None]
  /\ gen = NoGenerations
  /\ active = None /\ previous = None /\ staging = None
  /\ scan = NoScans
  /\ job = NoJobs /\ arrival = {} /\ queryThread = "loop"
  /\ ctl = At("idle") /\ shutdown = FALSE /\ broken = FALSE
  /\ reply = NoReplies /\ notice = NoNotices

-----------------------------------------------------------------------------
(* Helpers. A definition that differs from the code is a mutant: no action *)
(* uses it, it stands before the definition it could be mistaken for.       *)

\* token_hex(16) never repeats an id.
Unissued == {g \in Gen : rootOf[g] = None}

Queued == {q \in Query : job[q].pc = "queued"}
Outstanding == {q \in Query : job[q].pc \in Held}
Holding(g) == {q \in Outstanding : job[q].gen = g}
Current == {q \in Query : job[q].pc \in Running \cup {"replied", "lost"}}

\* SQLiteSnapshotReader.open finds a finalized database at the given path.
Readable(g) == gen[g].file # None /\ disk[gen[g].file] = gen[g].place

\* SQLiteSnapshot.delete: unlinks the path only if it still is this file.
Without(d, g) ==
  IF gen[g].file # None /\ d[gen[g].file] = gen[g].place
  THEN [d EXCEPT ![gen[g].file] = "absent"] ELSE d

Say(q, outcome) ==
  reply' = IF broken THEN reply ELSE [reply EXCEPT ![q] = Append(@, outcome)]

Tell(g, message) ==
  notice' = IF broken THEN notice ELSE [notice EXCEPT ![g] = Append(@, message)]

\* The end of a handler: its reply is written, or the write fails and serve
\* goes on to shut the broker down.
Return == ctl' = At(IF broken THEN "failing" ELSE "idle")

Accepting(op) == op \in Ops /\ ctl.pc = "idle" /\ ~shutdown

\* What a scan may not start over: its predecessor's queries (_scan_start).
AnyQueried == TRUE
OnlyActiveQueried == \A q \in Outstanding : job[q].gen = active

\* The queued jobs a new search pushes out, and whether the request then fits
\* (_enqueue_query).
Dropped(q) == IF q \in Searches THEN Queued \cap Searches ELSE {}
RoomBeforeDropping(q) == Cardinality(Outstanding) < MaxOutstanding
HasRoom(q) == Cardinality(Outstanding \ Dropped(q)) < MaxOutstanding

\* The references a generation gets back from jobs that leave the queue.
NothingGivenBack(g, leaving) == 0
GivenBack(g, leaving) == Cardinality(Holding(g) \cap leaving)

\* The searches answered after the critical section of _enqueue_query.
AllSuperseded == {q \in Searches : job[q].superseded}
DroppedSearches == ctl.drop

\* delete_on_retire of p when g is committed in its place.
AlwaysSuperseded(p, g) == TRUE
Superseded(p, g) == ~ gen[p].persistent \/ rootOf[p] = rootOf[g]

\* The condition of the handlers for deleting a generation's database.
IgnoresReferences(g) == TRUE
Unreferenced(g) == gen[g].refs = 0

\* The condition of _run_query, evaluated as it gives its reference back.
AnyLastReference(g) == gen[g].retired /\ gen[g].refs = 1
LateLastReference(g) == gen[g].retired /\ gen[g].refs = 0 /\ gen[g].doomed
LastReference(g) == gen[g].retired /\ gen[g].refs = 1 /\ gen[g].doomed

\* The condition under which _query_loop returns.
EndsWhenIdle == Queued = {} /\ Current = {}
WaitsForAJob == shutdown /\ Queued # {} /\ Current = {}
QueryLoopEnds == shutdown /\ Queued = {} /\ Current = {}

\* The condition of _activate: the scan is still wanted.
StillStaging(g) == staging = g
StillWanted(g) == staging = g /\ ~ scan[g].cancel

\* _staging after _finish_scan, and the outcome it reports.
StagingKept(g) == staging
StagingAfter(g) == IF staging = g THEN None ELSE staging
OutcomeWithTimeout(g) == IF scan[g].timedOut THEN "scanTimeout" ELSE "scanCancelled"
OutcomeOf(g) == IF scan[g].pc = "cancelled" /\ ~ scan[g].timedOut
                THEN "scanCancelled" ELSE "scanFailed"

-----------------------------------------------------------------------------
(* Requests: the control thread.                                           *)

\* _scan_start up to the end of its critical section.
ScanStart(r, g) ==
  /\ Accepting("scanStart")
  /\ staging = None
  /\ previous = None
  /\ OnlyActiveQueried
  /\ g \in Unissued
  /\ rootOf' = [rootOf EXCEPT ![g] = r]
  /\ staging' = g
  /\ scan' = [scan EXCEPT ![g].pc = "created"]
  /\ ctl' = [At("launch") EXCEPT !.gen = g]
  /\ UNCHANGED <<disk, pointer, gen, active, previous, job, arrival,
                 queryThread, shutdown, broken, reply, notice>>

\* scanStarted is written, then the timer and the worker start. If the write
\* fails the worker is never started although the scan stays staging.
ScanLaunch ==
  /\ ctl.pc = "launch"
  /\ Tell(ctl.gen, "scanStarted")
  /\ scan' = [scan EXCEPT ![ctl.gen].pc = IF broken THEN "created" ELSE "started"]
  /\ Return
  /\ UNCHANGED <<disk, pointer, rootOf, gen, active, previous, staging, job,
                 arrival, queryThread, shutdown, broken, reply>>

\* _snapshot_open: the check under the lock. An active published generation
\* of the same target is reported again and nothing changes.
SnapshotOpen(r) ==
  /\ Accepting("snapshotOpen")
  /\ staging = None /\ previous = None
  /\ ~ (active # None /\ gen[active].persistent /\ rootOf[active] = r)
  /\ ctl' = [At("load") EXCEPT !.root = r]
  /\ UNCHANGED <<disk, pointer, rootOf, gen, active, previous, staging, scan,
                 job, arrival, queryThread, shutdown, broken, reply, notice>>

\* PersistentSnapshotStore.load, without the lock: the pointer is followed
\* and the database it names must be there; otherwise snapshotMissing.
SnapshotLoad ==
  /\ ctl.pc = "load"
  /\ LET file == pointer[ctl.root] IN
       IF file # None /\ disk[file] = "final"
       THEN ctl' = [ctl EXCEPT !.pc = "adopt", !.file = file]
       ELSE Return
  /\ UNCHANGED <<disk, pointer, rootOf, gen, active, previous, staging, scan,
                 job, arrival, queryThread, shutdown, broken, reply, notice>>

\* The summary is read from the database, then the snapshot becomes active
\* under a new id and what was active becomes previous.
SnapshotAdopt(g) ==
  /\ ctl.pc = "adopt"
  /\ disk[ctl.file] = "final"
  /\ g \in Unissued
  /\ rootOf' = [rootOf EXCEPT ![g] = ctl.root]
  /\ gen' = [gen EXCEPT ![g] = NewGeneration(ctl.file, TRUE)]
  /\ previous' = active
  /\ active' = g
  /\ Return
  /\ UNCHANGED <<disk, pointer, staging, scan, job, arrival, queryThread,
                 shutdown, broken, reply, notice>>

\* The database vanished between the two openings: internalError. The other
\* way out of "adopt" when Gen, a bound of the model, has no id left.
SnapshotAdoptFails ==
  /\ ctl.pc = "adopt"
  /\ disk[ctl.file] # "final" \/ Unissued = {}
  /\ Return
  /\ UNCHANGED <<disk, pointer, rootOf, gen, active, previous, staging, scan,
                 job, arrival, queryThread, shutdown, broken, reply, notice>>

\* _scan_cancel; the timer uses the same flag.
ScanCancel(g) ==
  /\ Accepting("scanCancel")
  /\ staging = g
  /\ scan' = [scan EXCEPT ![g].cancel = TRUE]
  /\ Return
  /\ UNCHANGED <<disk, pointer, rootOf, gen, active, previous, staging, job,
                 arrival, queryThread, shutdown, broken, reply, notice>>

\* _activation_commit, first critical section: active and previous are read
\* into locals and the lock is released.
CommitStart(g) ==
  /\ Accepting("activationCommit")
  /\ active = g
  /\ ctl' = [At(IF gen[g].persistent THEN "settle" ELSE "publish")
             EXCEPT !.gen = g, !.prev = previous]
  /\ UNCHANGED <<disk, pointer, rootOf, gen, active, previous, staging, scan,
                 job, arrival, queryThread, shutdown, broken, reply, notice>>

\* publish, without the lock: the database is renamed to its final path. The
\* generation still carries the old path. A missing source fails the commit.
PublishRename ==
  /\ ctl.pc = "publish"
  /\ LET file == gen[ctl.gen].file IN
       IF Readable(ctl.gen)
       THEN /\ disk' = [disk EXCEPT ![file] = "final"]
            /\ ctl' = [ctl EXCEPT !.pc = "point"]
       ELSE /\ Return
            /\ UNCHANGED disk
  /\ UNCHANGED <<pointer, rootOf, gen, active, previous, staging, scan, job,
                 arrival, queryThread, shutdown, broken, reply, notice>>

\* The pointer is replaced and the generation gets its new path.
PublishPoint ==
  /\ ctl.pc = "point"
  /\ LET g == ctl.gen IN
       /\ pointer' = [pointer EXCEPT ![rootOf[g]] = gen[g].file]
       /\ gen' = [gen EXCEPT ![g].place = "final", ![g].persistent = TRUE]
  /\ ctl' = [ctl EXCEPT !.pc = "settle"]
  /\ UNCHANGED <<disk, rootOf, active, previous, staging, scan, job, arrival,
                 queryThread, shutdown, broken, reply, notice>>

\* Validating the renamed database or writing the pointer fails: the file is
\* moved back, unless that fails too, and the commit is answered by an error.
PublishFails ==
  /\ "store" \in Faults
  /\ ctl.pc = "point"
  /\ disk' \in {disk, [disk EXCEPT ![gen[ctl.gen].file] = "work"]}
  /\ Return
  /\ UNCHANGED <<pointer, rootOf, gen, active, previous, staging, scan, job,
                 arrival, queryThread, shutdown, broken, reply, notice>>

\* _activation_commit, second critical section: the previous generation read
\* earlier retires; its database is doomed when it was never published or is
\* superseded by the committed snapshot of the same target.
CommitSettle ==
  /\ ctl.pc = "settle"
  /\ previous' = None
  /\ LET p == ctl.prev IN
       IF p = None
       THEN /\ Return
            /\ UNCHANGED gen
       ELSE /\ gen' = [gen EXCEPT ![p].retired = TRUE,
                              ![p].doomed = Superseded(p, ctl.gen)]
            /\ ctl' = [ctl EXCEPT !.pc = "deletePrevious"]
  /\ UNCHANGED <<disk, pointer, rootOf, active, staging, scan, job, arrival,
                 queryThread, shutdown, broken, reply, notice>>

\* _delete_retired for a previous generation that no query holds.
CommitDelete ==
  /\ ctl.pc = "deletePrevious"
  /\ LET p == ctl.prev IN
       disk' = IF Unreferenced(p) /\ gen[p].doomed THEN Without(disk, p) ELSE disk
  /\ Return
  /\ UNCHANGED <<pointer, rootOf, gen, active, previous, staging, scan, job,
                 arrival, queryThread, shutdown, broken, reply, notice>>

\* _activation_abort, critical section: back to the previous generation.
Abort(g) ==
  /\ Accepting("activationAbort")
  /\ active = g
  /\ gen' = [gen EXCEPT ![g].retired = TRUE]
  /\ active' = previous
  /\ previous' = None
  /\ ctl' = [At("deleteAborted") EXCEPT !.gen = g]
  /\ UNCHANGED <<disk, pointer, rootOf, staging, scan, job, arrival,
                 queryThread, shutdown, broken, reply, notice>>

AbortDelete ==
  /\ ctl.pc = "deleteAborted"
  /\ LET g == ctl.gen IN
       disk' = IF Unreferenced(g) /\ ~ gen[g].persistent
               THEN Without(disk, g) ELSE disk
  /\ Return
  /\ UNCHANGED <<pointer, rootOf, gen, active, previous, staging, scan, job,
                 arrival, queryThread, shutdown, broken, reply, notice>>

\* _enqueue_query, critical section. A search drops every queued search and
\* marks a running one superseded, before the limit is checked; a request
\* over the limit is refused after that.
Enqueue(q, g) ==
  LET dropped == Dropped(q)
      room == HasRoom(q)
      marked == dropped \cup (IF q \in Searches THEN Current \cap Searches ELSE {})
      kept == Queued \ dropped
  IN
  /\ Accepting("query")
  /\ job[q].pc = "new"
  /\ g \in {active, previous} \ {None}
  /\ job' = [p \in Query |->
       IF p = q THEN [pc |-> IF room THEN "queued" ELSE "refused",
                      gen |-> g, superseded |-> FALSE, path |-> "none"]
       ELSE [job[p] EXCEPT !.pc = IF p \in dropped THEN "dropped" ELSE @,
                           !.superseded = @ \/ p \in marked]]
  /\ gen' = [h \in Gen |-> [gen[h] EXCEPT !.refs =
       @ - GivenBack(h, dropped) + (IF room /\ h = g THEN 1 ELSE 0)]]
  /\ arrival' = (arrival \cap (kept \X kept))
                \cup (IF room THEN kept \X {q} ELSE {})
  /\ IF room
     THEN /\ ctl' = [At("supersede") EXCEPT !.drop = dropped]
          /\ UNCHANGED reply
     ELSE /\ Say(q, "tooMany")
          /\ Return
  /\ UNCHANGED <<disk, pointer, rootOf, active, previous, staging, scan,
                 queryThread, shutdown, broken, notice>>

\* Outside the lock each dropped search is answered "superseded".
EnqueueDone ==
  /\ ctl.pc = "supersede"
  /\ reply' = IF broken THEN reply
              ELSE [q \in Query |-> IF q \in DroppedSearches
                                    THEN Append(reply[q], "superseded")
                                    ELSE reply[q]]
  /\ ctl' = At(IF broken /\ ctl.drop # {} THEN "failing" ELSE "idle")
  /\ UNCHANGED <<disk, pointer, rootOf, gen, active, previous, staging, scan,
                 job, arrival, queryThread, shutdown, broken, notice>>

-----------------------------------------------------------------------------
(* Shutdown: a request, the end of the input, or a failed write.           *)

\* First critical section: the scan is cancelled, queued jobs are dropped
\* without an answer, the running one is superseded.
Shutdown ==
  /\ Accepting("shutdown") \/ ctl.pc = "failing"
  /\ shutdown' = TRUE
  /\ scan' = IF staging = None THEN scan
             ELSE [scan EXCEPT ![staging].cancel = TRUE]
  /\ job' = [q \in Query |->
       [job[q] EXCEPT !.pc = IF q \in Queued THEN "dropped" ELSE @,
                      !.superseded = @ \/ q \in Queued \/ q \in Current]]
  /\ gen' = [g \in Gen |-> [gen[g] EXCEPT !.refs =
                              @ - GivenBack(g, Queued)]]
  /\ arrival' = {}
  /\ ctl' = [At("join") EXCEPT !.gen = staging]
  /\ UNCHANGED <<disk, pointer, rootOf, active, previous, staging, queryThread,
                 broken, reply, notice>>

\* The worker of the scan that was staging and the query thread are joined,
\* for SHUTDOWN_TIMEOUT_SECONDS at most. Joining a thread that was never
\* started raises, and the process ends without cleaning up.
ShutdownJoin ==
  /\ ctl.pc = "join"
  /\ LET unstarted == ctl.gen # None /\ scan[ctl.gen].pc = "created" IN
     /\ \/ unstarted
        \/ "slow" \in Faults
        \/ /\ queryThread = "exited"
           /\ ctl.gen # None => scan[ctl.gen].pc = "done"
     /\ ctl' = IF unstarted THEN At("dead") ELSE At("close")
  /\ UNCHANGED <<disk, pointer, rootOf, gen, active, previous, staging, scan,
                 job, arrival, queryThread, shutdown, broken, reply, notice>>

\* Last critical section: both generations retire.
ShutdownClose ==
  /\ ctl.pc = "close"
  /\ gen' = [g \in Gen |-> [gen[g] EXCEPT !.retired = @ \/ g \in {active, previous}]]
  /\ active' = None
  /\ previous' = None
  /\ ctl' = [At("delete") EXCEPT !.gen = active, !.prev = previous]
  /\ UNCHANGED <<disk, pointer, rootOf, staging, scan, job, arrival,
                 queryThread, shutdown, broken, reply, notice>>

\* Unpublished databases that no query holds are deleted; shutdownComplete is
\* the last message of the control thread.
ShutdownDelete ==
  /\ ctl.pc = "delete"
  /\ LET gone(d, g) == IF g # None /\ Unreferenced(g) /\ ~ gen[g].persistent
                       THEN Without(d, g) ELSE d
     IN disk' = gone(gone(disk, ctl.gen), ctl.prev)
  /\ ctl' = At("stopped")
  /\ UNCHANGED <<pointer, rootOf, gen, active, previous, staging, scan, job,
                 arrival, queryThread, shutdown, broken, reply, notice>>

-----------------------------------------------------------------------------
(* The query thread.                                                       *)

\* The oldest queued job becomes the current one.
Take(q) ==
  /\ queryThread = "loop"
  /\ Current = {}
  /\ q \in Queued
  /\ \A p \in Query : <<p, q>> \notin arrival
  /\ job' = [job EXCEPT ![q].pc = "taken"]
  /\ arrival' = {pair \in arrival : pair[1] # q}
  /\ UNCHANGED <<disk, pointer, rootOf, gen, active, previous, staging, scan,
                 queryThread, ctl, shutdown, broken, reply, notice>>

\* The single answer of _run_query. When the write fails the exception ends
\* the query thread, after the job is settled.
Answer(q, outcome) ==
  /\ Say(q, outcome)
  /\ job' = [job EXCEPT ![q].pc = IF broken THEN "lost" ELSE "replied",
                         ![q].path = "none"]

\* The reader finds the database at the path it was given.
AtItsPath(q) ==
  LET file == gen[job[q].gen].file
  IN  file # None /\ disk[file] = job[q].path

\* A superseded job is answered without touching the database; otherwise the
\* path of the database is read from the generation, without the lock.
Look(q) ==
  /\ job[q].pc = "taken"
  /\ IF job[q].superseded THEN Answer(q, "superseded")
     ELSE \E g \in Gen :
            /\ g = job[q].gen
            /\ job' = [job EXCEPT ![q].pc = "looked", ![q].path = gen[g].place]
            /\ UNCHANGED reply
  /\ UNCHANGED <<disk, pointer, rootOf, gen, active, previous, staging, scan,
                 arrival, queryThread, ctl, shutdown, broken, notice>>

\* SQLiteSnapshotReader.open at that path.
Open(q) ==
  /\ job[q].pc = "looked"
  /\ job' = [job EXCEPT ![q].pc = IF AtItsPath(q) THEN "open" ELSE "missing"]
  /\ UNCHANGED <<disk, pointer, rootOf, gen, active, previous, staging, scan,
                 arrival, queryThread, ctl, shutdown, broken, reply, notice>>

\* The reader checks that the file it opened still is at that path, then the
\* query runs on the open connection; the progress handler stops it when it is
\* superseded or its deadline passes.
Execute(q) ==
  /\ job[q].pc = "open"
  /\ \/ job[q].superseded /\ Answer(q, "superseded")
     \/ ~ job[q].superseded /\ AtItsPath(q) /\ Answer(q, "queryResult")
     \/ /\ ~ job[q].superseded /\ AtItsPath(q) /\ "timeout" \in Faults
        /\ Answer(q, "queryTimeout")
     \/ /\ ~ AtItsPath(q)
        /\ job' = [job EXCEPT ![q].pc = "changed"]
        /\ UNCHANGED reply
  /\ UNCHANGED <<disk, pointer, rootOf, gen, active, previous, staging, scan,
                 arrival, queryThread, ctl, shutdown, broken, notice>>

\* The except clause. Only a query that had opened its database has a deadline.
Fail(q) ==
  /\ job[q].pc \in {"missing", "changed"}
  /\ \/ job[q].superseded /\ Answer(q, "superseded")
     \/ ~ job[q].superseded /\ Answer(q, "queryFailed")
     \/ /\ ~ job[q].superseded /\ job[q].pc = "changed"
        /\ "timeout" \in Faults /\ Answer(q, "queryTimeout")
  /\ UNCHANGED <<disk, pointer, rootOf, gen, active, previous, staging, scan,
                 arrival, queryThread, ctl, shutdown, broken, notice>>

\* The finally clause: the reference is given back, the last one on a doomed
\* generation deletes its database.
Finish(q) ==
  /\ job[q].pc \in {"replied", "lost"}
  /\ LET g == job[q].gen IN
     /\ gen' = [gen EXCEPT ![g].refs = @ - 1]
     /\ disk' = IF LastReference(g) THEN Without(disk, g) ELSE disk
  /\ job' = [job EXCEPT ![q].pc = "done"]
  /\ queryThread' = IF job[q].pc = "lost" THEN "exited" ELSE queryThread
  /\ UNCHANGED <<pointer, rootOf, active, previous, staging, scan, arrival,
                 ctl, shutdown, broken, reply, notice>>

QueryExit ==
  /\ queryThread = "loop"
  /\ QueryLoopEnds
  /\ queryThread' = "exited"
  /\ UNCHANGED <<disk, pointer, rootOf, gen, active, previous, staging, scan,
                 job, arrival, ctl, shutdown, broken, reply, notice>>

-----------------------------------------------------------------------------
(* The scan worker of generation g, and its timer.                         *)

ScanTimedOut(g) ==
  /\ "timeout" \in Faults
  /\ staging = g
  /\ scan[g].pc # "created" /\ ~ scan[g].timedOut
  /\ scan' = [scan EXCEPT ![g].timedOut = TRUE, ![g].cancel = TRUE]
  /\ UNCHANGED <<disk, pointer, rootOf, gen, active, previous, staging, job,
                 arrival, queryThread, ctl, shutdown, broken, reply, notice>>

\* Validation and mount exclusions passed and the scan is not cancelled: the
\* staging database is created.
ScanOpen(g) ==
  /\ scan[g].pc = "started" /\ ~ scan[g].cancel
  /\ scan' = [scan EXCEPT ![g].pc = "writing"]
  /\ disk' = [disk EXCEPT ![g] = "partial"]
  /\ UNCHANGED <<pointer, rootOf, gen, active, previous, staging, job, arrival,
                 queryThread, ctl, shutdown, broken, reply, notice>>

\* The walk is over and the writer validated and finalized the database. A
\* cancellation that comes during finalize is noticed in ScanActivate.
ScanFinalize(g) ==
  /\ scan[g].pc = "writing"
  /\ scan' = [scan EXCEPT ![g].pc = "finalized"]
  /\ disk' = [disk EXCEPT ![g] = "work"]
  /\ UNCHANGED <<pointer, rootOf, gen, active, previous, staging, job, arrival,
                 queryThread, ctl, shutdown, broken, reply, notice>>

\* cancellation.check, or the check in _activate, raises ScanCancelled.
ScanStops(g) ==
  /\ scan[g].pc \in {"started", "writing", "finalized"}
  /\ scan[g].cancel \/ (scan[g].pc = "finalized" /\ staging # g)
  /\ scan' = [scan EXCEPT ![g].pc = "cancelled"]
  /\ UNCHANGED <<disk, pointer, rootOf, gen, active, previous, staging, job,
                 arrival, queryThread, ctl, shutdown, broken, reply, notice>>

\* Anything else raises: an invalid root, a limit, an I/O or database error,
\* or a progress message that cannot be written.
ScanFails(g) ==
  /\ \/ "scan" \in Faults /\ scan[g].pc \in {"started", "writing", "finalized"}
     \/ broken /\ scan[g].pc = "writing"
  /\ scan' = [scan EXCEPT ![g].pc = "failed"]
  /\ UNCHANGED <<disk, pointer, rootOf, gen, active, previous, staging, job,
                 arrival, queryThread, ctl, shutdown, broken, reply, notice>>

\* _activate, critical section.
ScanActivate(g) ==
  /\ scan[g].pc = "finalized"
  /\ StillWanted(g)
  /\ disk[g] = "work"
  /\ previous' = active
  /\ active' = g
  /\ gen' = [gen EXCEPT ![g] = NewGeneration(g, FALSE)]
  /\ staging' = None
  /\ scan' = [scan EXCEPT ![g].pc = "announce"]
  /\ UNCHANGED <<disk, pointer, rootOf, job, arrival, queryThread, ctl,
                 shutdown, broken, reply, notice>>

\* snapshotActivated is written after the lock is released; when that fails
\* the worker treats its own active generation as a failed scan.
ScanAnnounce(g) ==
  /\ scan[g].pc = "announce"
  /\ Tell(g, "snapshotActivated")
  /\ scan' = [scan EXCEPT ![g].pc = IF broken THEN "failed" ELSE "done"]
  /\ UNCHANGED <<disk, pointer, rootOf, gen, active, previous, staging, job,
                 arrival, queryThread, ctl, shutdown, broken, reply>>

\* _finish_scan: whatever database is left at the working path is deleted,
\* then staging is cleared under the lock. Nothing is reported for a scan
\* that is no longer staging, or once the broker is shutting down.
FinishScan(g) ==
  /\ scan[g].pc \in {"cancelled", "failed"}
  /\ disk' = [disk EXCEPT ![g] = IF @ \in {"partial", "work"} THEN "absent" ELSE @]
  /\ LET silent == staging # g \/ shutdown IN
       scan' = [scan EXCEPT ![g].pc = IF silent THEN "done" ELSE OutcomeOf(g)]
  /\ staging' = StagingAfter(g)
  /\ UNCHANGED <<pointer, rootOf, gen, active, previous, job, arrival,
                 queryThread, ctl, shutdown, broken, reply, notice>>

ScanReport(g) ==
  /\ scan[g].pc \in {"scanFailed", "scanCancelled"}
  /\ Tell(g, scan[g].pc)
  /\ scan' = [scan EXCEPT ![g].pc = "done"]
  /\ UNCHANGED <<disk, pointer, rootOf, gen, active, previous, staging, job,
                 arrival, queryThread, ctl, shutdown, broken, reply>>

-----------------------------------------------------------------------------
(* The environment.                                                        *)

\* The reader of the output goes away.
BreakPipe ==
  /\ "pipe" \in Faults
  /\ ~ broken
  /\ broken' = TRUE
  /\ UNCHANGED <<disk, pointer, rootOf, gen, active, previous, staging, scan,
                 job, arrival, queryThread, ctl, shutdown, reply, notice>>

\* The process ends, in order or killed, and another one starts. Only the
\* cache directory survives; nothing cleans it up.
Restart ==
  /\ \/ "crash" \in Faults
     \/ "restart" \in Faults /\ ctl.pc \in {"stopped", "dead"}
  /\ gen' = NoGenerations
  /\ active' = None /\ previous' = None /\ staging' = None
  /\ scan' = NoScans
  /\ job' = NoJobs /\ arrival' = {} /\ queryThread' = "loop"
  /\ ctl' = At("idle") /\ shutdown' = FALSE /\ broken' = FALSE
  /\ reply' = NoReplies /\ notice' = NoNotices
  /\ UNCHANGED <<disk, pointer, rootOf>>
-----------------------------------------------------------------------------
(* The specification.                                                      *)

Request ==
  \/ \E g \in Gen : \/ \E r \in Root : ScanStart(r, g)
                    \/ ScanCancel(g) \/ CommitStart(g) \/ Abort(g)
                    \/ \E q \in Query : Enqueue(q, g)
  \/ \E r \in Root : SnapshotOpen(r)

\* The rest of a handler that released the lock.
Continue ==
  \/ ScanLaunch \/ SnapshotLoad \/ SnapshotAdoptFails \/ EnqueueDone
  \/ PublishRename \/ PublishPoint \/ PublishFails \/ CommitSettle
  \/ CommitDelete \/ AbortDelete \/ ShutdownJoin \/ ShutdownClose
  \/ ShutdownDelete
  \/ \E g \in Gen : SnapshotAdopt(g)

RunStep(q) == Look(q) \/ Open(q) \/ Execute(q) \/ Fail(q)
QueryStep == (\E q \in Query : Take(q) \/ RunStep(q) \/ Finish(q)) \/ QueryExit

ScanStep(g) ==
  \/ ScanOpen(g) \/ ScanFinalize(g) \/ ScanStops(g) \/ ScanFails(g)
  \/ ScanActivate(g) \/ ScanAnnounce(g) \/ FinishScan(g) \/ ScanReport(g)

Next ==
  \/ Request \/ Shutdown \/ Continue
  \/ QueryStep
  \/ \E g \in Gen : ScanStep(g) \/ ScanTimedOut(g)
  \/ BreakPipe
  \/ Restart

Spec == Init /\ [][Next]_vars

\* The operating system schedules every thread that can run; a client need
\* not send anything, a timer need not fire, nothing need go wrong. A failed
\* write makes serve shut down by itself.
Fairness ==
  /\ WF_vars(Continue)
  /\ WF_vars(ctl.pc = "failing" /\ Shutdown)
  /\ WF_vars(QueryStep)
  /\ \A g \in Gen : WF_vars(ScanStep(g))

FairSpec == Spec /\ Fairness

-----------------------------------------------------------------------------
(* Safety.                                                                 *)

\* A generation's reference count is the number of accepted, unsettled
\* queries on it, whatever superseding, finishing and shutdown interleave
\* (_enqueue_query, _run_query, shutdown): deletion relies on it.
ReferencesCounted ==
  \A g \in Gen : gen[g].refs = Cardinality(Holding(g))

\* While the output is intact, the database of the active and the previous
\* generation and of every generation a query still holds is on disk: no
\* commit, abort, retirement or shutdown deletes a file that is in use, even
\* when two generations were opened from one file.
RetainedFilesPresent ==
  ~ broken =>
    \A g \in Gen :
      (g \in {active, previous} \/ Holding(g) # {}) =>
        gen[g].file # None /\ disk[gen[g].file] \in {"work", "final"}

\* A pointer file names a complete, published database of its own target, at
\* every instant and so after a kill at any step (publish, _delete_retired).
PointersValid ==
  \A r \in Root : pointer[r] # None =>
    disk[pointer[r]] = "final" /\ rootOf[pointer[r]] = r

\* No request is answered twice: a query gets one message, a scan at most its
\* scanStarted and then one outcome.
AnsweredOnce ==
  /\ \A q \in Query : Len(reply[q]) <= 1
  /\ \A g \in Gen : Len(notice[g]) <= 2 /\
       \A i \in 1..Len(notice[g]) : notice[g][i] = "scanStarted" <=> i = 1

\* A search dropped from the queue is answered "superseded" before the next
\* request is read, unless the broker is going down.
SupersededAnswered ==
  \A q \in Query : job[q].pc = "dropped" /\ ~ shutdown /\ ~ broken =>
    \/ ctl.pc = "supersede" /\ q \in ctl.drop
    \/ reply[q] = <<"superseded">>

\* A retired generation that no query holds any more leaves no database of
\* its own behind once the control thread is at rest
\* (test_retired_database_waits_for_inflight_query). True of a broker that is
\* sent no search and publishes without failure; with searches the reference
\* that a dropped one gives back in _enqueue_query may be the last.
RetiredFilesReclaimed ==
  ctl.pc = "idle" =>
    \A g \in Gen : gen[g].retired /\ gen[g].doomed /\ gen[g].refs = 0 =>
      disk[gen[g].file] = "absent"

-----------------------------------------------------------------------------
(* What a step may never do.                                               *)

\* A scan whose cancellation was accepted, by request, timer or shutdown,
\* never becomes the active snapshot.
CancelledNeverActivates ==
  [][\A g \in Gen : staging = g /\ scan[g].cancel => active' # g]_vars

\* A query fails for want of its database only if it read the path of the
\* database before a commit published it, and then looked for it after the
\* rename: the database itself is still there, at its final path, and a query
\* that reads its path once the commit is over never fails.
FailsOnlyWhenMoved ==
  [][\A q \in Query : reply'[q] # reply[q] /\ reply'[q] = <<"queryFailed">> =>
       job[q].path = "work" /\ disk[gen[job[q].gen].file] = "final"]_vars

-----------------------------------------------------------------------------
(* What the broker promises of the stored snapshots.                       *)

\* What PersistentSnapshotStore.load finds for each target.
Latest == [r \in Root |->
  IF pointer[r] # None /\ disk[pointer[r]] = "final" THEN pointer[r] ELSE None]

Library == INSTANCE SnapshotLibrary
             WITH Snapshot <- Gen, latest <- Latest, target <- rootOf

\* A target's stored snapshot changes only by being replaced, in one step, by
\* a complete one of the same target: no scan, query, retirement, abort or
\* shutdown, and no kill between their steps, takes it away.
LibraryImplemented == Library!Spec

-----------------------------------------------------------------------------
(* Liveness.                                                               *)

\* Every accepted query is answered, unless the broker shuts down.
QueriesAnswered ==
  \A q \in Query : job[q].pc = "queued" ~> reply[q] # <<>> \/ shutdown

\* Every scan ends, its outcome is reported and staging is free again,
\* unless the broker shuts down.
ScansSettle ==
  \A g \in Gen :
    staging = g ~> (staging # g /\ Len(notice[g]) = 2) \/ shutdown

\* Shutdown completes.
ShutdownCompletes == shutdown ~> ctl.pc = "stopped"
-----------------------------------------------------------------------------
(* What the tests of the repository say and the code breaks; no run checks  *)
(* them, one cfg line refutes each (README, "Divergences without a run").  *)

\* shutdownComplete is the last message of a broker
\* (shutdown_without_post_shutdown_events). Only a scan that is still staging
\* is joined, not one whose outcome is about to be written.
SilentAfterShutdown == [][ctl.pc = "stopped" => UNCHANGED <<reply, notice>>]_vars

\* While a generation stays active, only settling that generation forgets its
\* predecessor, so aborting it can restore the predecessor
\* (test_activation_abort_restores_previous_generation). _activation_commit
\* clears _previous after releasing the lock, whatever was activated since.
PredecessorKept ==
  [][previous # None /\ previous' # previous /\ active' = active =>
       ctl.gen = active]_vars
=============================================================================
