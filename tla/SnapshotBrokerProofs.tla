------------------------ MODULE SnapshotBrokerProofs ------------------------
(***************************************************************************)
(* Proofs about SnapshotBroker for every set of targets, generations and   *)
(* queries, every limit, every archive and every choice of faults: types,  *)
(* references, cancellation, and the answers to queries. Then about the    *)
(* stored snapshots: every pointer names a complete database of its own    *)
(* target, at every instant, and the broker with all its threads, failures *)
(* and restarts implements SnapshotLibrary. And about its database files:  *)
(* which ones are never deleted, which ones a query may find missing, and  *)
(* which ones are gone.                                                    *)
(***************************************************************************)
EXTENDS SnapshotBroker, FiniteSetTheorems, TLAPS

-----------------------------------------------------------------------------
(* Type correctness.                                                       *)

\* The records every state component is made of.
LEMMA ControlRecords ==
  /\ \A pc \in CtlPc : At(pc) \in Control
  /\ \A file \in Gen \cup {None}, published \in BOOLEAN :
       NewGeneration(file, published) \in Generation
BY DEF At, Control, NewGeneration, Generation

\* The first process starts from well-formed state.
LEMMA TypeInit == Init => TypeOK
<1> SUFFICES ASSUME Init PROVE TypeOK
  OBVIOUS
<1>1. /\ disk \in [Gen -> FileState]
      /\ pointer \in [Root -> Gen \cup {None}]
      /\ rootOf \in [Gen -> Root \cup {None}]
  BY ArchiveAssumption DEF Init, FileState
<1>2. /\ gen \in [Gen -> Generation]
      /\ scan \in [Gen -> Scan]
      /\ job \in [Query -> Job]
  BY ControlRecords DEF Init, NoGenerations, NoScans, NoJobs, Scan, ScanPc,
     Job, JobPc
<1>3. /\ reply \in [Query -> Seq(Outcome)]
      /\ notice \in [Gen -> Seq(Notice)]
      /\ ctl \in Control
  BY ControlRecords DEF Init, NoReplies, NoNotices, CtlPc
<1>4. QED
  BY <1>1, <1>2, <1>3 DEF Init, TypeOK, LocalsOK, At

\* The control thread moves to another step of its handler.
LEMMA ControlUpdate ==
  ASSUME NEW c \in Control, NEW pc \in CtlPc, NEW f \in Gen \cup {None}
  PROVE  /\ [c EXCEPT !.pc = pc] \in Control
         /\ [c EXCEPT !.pc = pc, !.file = f] \in Control
BY DEF Control

\* Updating fields of one record keeps every record well formed.
LEMMA ScanUpdate ==
  ASSUME NEW f \in [Gen -> Scan], NEW g, NEW pc \in ScanPc
  PROVE  /\ [f EXCEPT ![g].pc = pc] \in [Gen -> Scan]
         /\ [f EXCEPT ![g].cancel = TRUE] \in [Gen -> Scan]
         /\ [f EXCEPT ![g].timedOut = TRUE, ![g].cancel = TRUE] \in [Gen -> Scan]
<1>1. \A s \in Scan : /\ [s EXCEPT !.pc = pc] \in Scan
                      /\ [s EXCEPT !.cancel = TRUE] \in Scan
                      /\ [s EXCEPT !.timedOut = TRUE] \in Scan
  BY DEF Scan
<1>2. \A h \in Gen : f[h] \in Scan
  OBVIOUS
<1> QED
  BY <1>1, <1>2

\* A query moves on.
LEMMA JobUpdate ==
  ASSUME NEW f \in [Query -> Job], NEW q, NEW pc \in JobPc,
         NEW path \in {"none", "work", "final"}
  PROVE  /\ [f EXCEPT ![q].pc = pc] \in [Query -> Job]
         /\ [f EXCEPT ![q].pc = pc, ![q].path = path] \in [Query -> Job]
<1>1. \A j \in Job : /\ [j EXCEPT !.pc = pc] \in Job
                     /\ [j EXCEPT !.pc = pc, !.path = path] \in Job
  BY DEF Job
<1> QED
  BY <1>1

\* A generation changes its count, its place or its retirement.
LEMMA GenUpdate ==
  ASSUME NEW f \in [Gen -> Generation], NEW g, NEW b \in BOOLEAN
  PROVE  /\ [f EXCEPT ![g].refs = @ - 1] \in [Gen -> Generation]
         /\ [f EXCEPT ![g].retired = TRUE] \in [Gen -> Generation]
         /\ [f EXCEPT ![g].retired = TRUE, ![g].doomed = b] \in [Gen -> Generation]
         /\ [f EXCEPT ![g].place = "final", ![g].persistent = TRUE]
              \in [Gen -> Generation]
<1>1. \A r \in Generation : /\ [r EXCEPT !.retired = TRUE] \in Generation
                            /\ [r EXCEPT !.doomed = b] \in Generation
                            /\ [r EXCEPT !.place = "final"] \in Generation
                            /\ [r EXCEPT !.persistent = TRUE] \in Generation
  BY DEF Generation
<1>2. \A r \in Generation : [r EXCEPT !.refs = r.refs - 1] \in Generation
  BY DEF Generation
<1> QED
  BY <1>1, <1>2

\* A scan is accepted.
LEMMA TypeStart ==
  ASSUME TypeOK, NEW r \in Root, NEW g \in Gen, ScanStart(r, g)
  PROVE  TypeOK'
<1>1. rootOf' \in [Gen -> Root \cup {None}]
  BY DEF TypeOK, ScanStart
<1>2. scan' \in [Gen -> Scan]
  <2>1. scan' = [scan EXCEPT ![g].pc = "created"] /\ scan \in [Gen -> Scan]
    BY DEF TypeOK, ScanStart
  <2> QED
    BY <2>1, ScanUpdate DEF ScanPc
<1>3. ctl' \in Control /\ LocalsOK'
  BY DEF ScanStart, At, Control, CtlPc, LocalsOK
<1> QED
  BY <1>1, <1>2, <1>3 DEF TypeOK, ScanStart

\* There are finitely many queries, so counts are natural numbers.
LEMMA JobsFinite ==
  /\ IsFiniteSet(Outstanding)
  /\ \A g, leaving : GivenBack(g, leaving) \in Nat
<1>1. \A S \in SUBSET Query : IsFiniteSet(S) /\ Cardinality(S) \in Nat
  BY QueryAssumption, FS_Subset, FS_CardinalityType
<1>2. /\ Outstanding \in SUBSET Query
      /\ \A g, leaving : Holding(g) \cap leaving \in SUBSET Query
  BY DEF Outstanding, Holding
<1> QED
  BY <1>1, <1>2 DEF GivenBack

\* A query is accepted or refused.
LEMMA TypeEnqueue ==
  ASSUME TypeOK, NEW q \in Query, NEW g \in Gen, Enqueue(q, g)
  PROVE  TypeOK'
<1>1. job' \in [Query -> Job]
  <2>1. job' = [p \in Query |-> job'[p]]
    BY DEF Enqueue
  <2>2. ASSUME NEW p \in Query PROVE job'[p] \in Job
    <3>1. CASE p = q
      BY <3>1 DEF Enqueue, Job, JobPc, Held
    <3>2. CASE p # q
      <4>1. job[p] \in Job
        BY DEF TypeOK
      <4> QED
        BY <3>2, <4>1 DEF Enqueue, Job, JobPc
    <3> QED
      BY <3>1, <3>2
  <2> QED
    BY <2>1, <2>2
<1>2. gen' \in [Gen -> Generation]
  <2>1. \A h \in Gen : GivenBack(h, Dropped(q)) \in Nat
    BY JobsFinite
  <2>2. \A h \in Gen : gen[h] \in Generation /\ gen[h].refs \in Int
    BY DEF TypeOK, Generation
  <2>3. \A h \in Gen :
          [gen[h] EXCEPT !.refs = @ - GivenBack(h, Dropped(q))
                    + (IF HasRoom(q) /\ h = g THEN 1 ELSE 0)] \in Generation
    BY <2>1, <2>2 DEF Generation
  <2> QED BY <2>3 DEF Enqueue
<1>3. Dropped(q) \in SUBSET Query
  BY DEF Dropped, Queued
<1>4. ctl' \in Control /\ LocalsOK' /\ reply' \in [Query -> Seq(Outcome)]
  <2>1. CASE HasRoom(q)
    <3>1. ctl' = [At("supersede") EXCEPT !.drop = Dropped(q)] /\ reply' = reply
      BY <2>1 DEF Enqueue
    <3> QED
      BY <1>3, <3>1 DEF TypeOK, At, Control, CtlPc, LocalsOK
  <2>2. CASE ~ HasRoom(q)
    <3>1. Say(q, "tooMany") /\ Return
      BY <2>2 DEF Enqueue
    <3> QED
      BY <3>1 DEF TypeOK, Say, Outcome, Return, At, Control, CtlPc, LocalsOK
  <2> QED BY <2>1, <2>2
<1>5. arrival' \in SUBSET (Query \X Query)
  BY DEF TypeOK, Enqueue, Queued
<1> QED
  BY <1>1, <1>2, <1>4, <1>5 DEF TypeOK, Enqueue


\* A message added to a scan's messages.
LEMMA TypeTell ==
  ASSUME TypeOK, NEW g, NEW message \in Notice, Tell(g, message)
  PROVE  notice' \in [Gen -> Seq(Notice)]
<1>1. \A s \in Seq(Notice) : Append(s, message) \in Seq(Notice)
  OBVIOUS
<1>2. CASE broken
  BY <1>2 DEF TypeOK, Tell
<1>3. CASE ~ broken
  BY <1>1, <1>3 DEF TypeOK, Tell
<1> QED
  BY <1>2, <1>3

\* A step of another thread leaves the handler's locals alone.
LEMMA TypeLocals == LocalsOK /\ UNCHANGED ctl => LocalsOK'
BY DEF LocalsOK

\* A handler moves to its next step with its locals unchanged.
LEMMA TypeStep ==
  ASSUME ctl \in Control, LocalsOK, NEW pc \in {"point", "settle", "deletePrevious"},
         ctl.pc \in {"publish", "point", "settle"},
         pc = "deletePrevious" => ctl.prev \in Gen,
         ctl' = [ctl EXCEPT !.pc = pc]
  PROVE  ctl' \in Control /\ LocalsOK'
<1>1. ctl' \in Control
  BY ControlUpdate DEF CtlPc
<1>2. /\ ctl'.pc = pc /\ ctl'.gen = ctl.gen /\ ctl'.prev = ctl.prev
      /\ ctl.gen \in Gen
  BY DEF Control, LocalsOK
<1> QED
  BY <1>1, <1>2 DEF LocalsOK

\* A handler that ends leaves no locals behind.
LEMMA TypeReturn == Return => ctl' \in Control /\ LocalsOK'
BY DEF Return, At, Control, CtlPc, LocalsOK

\* Deleting a database leaves the others as they are.
LEMMA TypeWithout ==
  ASSUME NEW d \in [Gen -> FileState], NEW g
  PROVE  Without(d, g) \in [Gen -> FileState]
BY DEF Without, FileState

\* A scan's worker is started.
LEMMA TypeLaunch ==
  ASSUME TypeOK, ScanLaunch
  PROVE  TypeOK'
<1>1. scan' \in [Gen -> Scan]
  <2>1. (IF broken THEN "created" ELSE "started") \in ScanPc
    BY DEF ScanPc
  <2> QED
    BY <2>1, ScanUpdate DEF TypeOK, ScanLaunch
<1>2. notice' \in [Gen -> Seq(Notice)]
  BY TypeTell DEF TypeOK, ScanLaunch, Notice
<1> QED
  BY <1>1, <1>2, TypeReturn DEF TypeOK, ScanLaunch

\* The steps of snapshotOpen.
LEMMA TypeOpen ==
  ASSUME TypeOK,
         \/ \E r \in Root : SnapshotOpen(r)
         \/ SnapshotLoad
         \/ \E g \in Gen : SnapshotAdopt(g)
         \/ SnapshotAdoptFails
  PROVE  TypeOK'
<1>1. ASSUME NEW r \in Root, SnapshotOpen(r) PROVE TypeOK'
  BY <1>1 DEF TypeOK, SnapshotOpen, At, Control, CtlPc, LocalsOK
<1>2. CASE SnapshotLoad
  <2>1. ctl.root \in Root => pointer[ctl.root] \in Gen \cup {None}
    BY DEF TypeOK
  <2>2. ctl' \in Control /\ LocalsOK'
    <3>1. CASE Return
      BY <3>1, TypeReturn
    <3>2. CASE ctl' = [ctl EXCEPT !.pc = "adopt", !.file = pointer[ctl.root]]
               /\ pointer[ctl.root] # None /\ disk[pointer[ctl.root]] = "final"
      <4>1. /\ ctl \in Control
            /\ "adopt" \in CtlPc
            /\ ctl.root \in Root
            /\ pointer[ctl.root] \in Gen
        BY <1>2, <2>1, <3>2 DEF TypeOK, LocalsOK, CtlPc, SnapshotLoad
      <4>2. ctl' \in Control
        BY <3>2, <4>1, ControlUpdate
      <4>3. ctl'.pc = "adopt" /\ ctl'.root = ctl.root /\ ctl'.file = pointer[ctl.root]
        BY <3>2, <4>1 DEF Control
      <4> QED
        BY <4>1, <4>2, <4>3 DEF LocalsOK
    <3> QED
      BY <1>2, <3>1, <3>2 DEF SnapshotLoad
  <2> QED
    BY <1>2, <2>2 DEF TypeOK, SnapshotLoad
<1>3. ASSUME NEW g \in Gen, SnapshotAdopt(g) PROVE TypeOK'
  <2>1. rootOf' \in [Gen -> Root \cup {None}]
    BY <1>3 DEF TypeOK, SnapshotAdopt, Control
  <2>2. gen' \in [Gen -> Generation]
    <3>1. NewGeneration(ctl.file, TRUE) \in Generation
      BY ControlRecords DEF TypeOK, Control
    <3> QED
      BY <1>3, <3>1 DEF TypeOK, SnapshotAdopt
  <2> QED
    BY <1>3, <2>1, <2>2, TypeReturn DEF TypeOK, SnapshotAdopt
<1>4. CASE SnapshotAdoptFails
  BY <1>4, TypeReturn DEF TypeOK, SnapshotAdoptFails
<1> QED
  BY <1>1, <1>2, <1>3, <1>4

\* The steps of activationCommit.
LEMMA TypeCommit ==
  ASSUME TypeOK,
         \/ \E g \in Gen : CommitStart(g)
         \/ PublishRename \/ PublishPoint \/ PublishFails
         \/ CommitSettle \/ CommitDelete
  PROVE  TypeOK'
<1>1. ASSUME NEW g \in Gen, CommitStart(g) PROVE TypeOK'
  <2>1. ctl' \in Control /\ LocalsOK'
    <3>1. CASE gen[g].persistent
      BY <1>1, <3>1 DEF TypeOK, CommitStart, At, Control, CtlPc, LocalsOK
    <3>2. CASE ~ gen[g].persistent
      BY <1>1, <3>2 DEF TypeOK, CommitStart, At, Control, CtlPc, LocalsOK
    <3> QED
      BY <3>1, <3>2
  <2> QED
    BY <1>1, <2>1 DEF TypeOK, CommitStart
<1>2. CASE PublishRename
  <2>1. disk' \in [Gen -> FileState]
    BY <1>2 DEF TypeOK, PublishRename, FileState
  <2>2. ctl' \in Control /\ LocalsOK'
    BY <1>2, TypeReturn, TypeStep DEF TypeOK, PublishRename
  <2> QED
    BY <1>2, <2>1, <2>2 DEF TypeOK, PublishRename
<1>3. CASE PublishPoint
  <2>1. gen' \in [Gen -> Generation] /\ ctl' \in Control /\ LocalsOK'
    BY <1>3, GenUpdate, TypeStep DEF TypeOK, PublishPoint
  <2>2. pointer' \in [Root -> Gen \cup {None}]
    <3>1. gen[ctl.gen] \in Generation
      BY <1>3 DEF TypeOK, LocalsOK, PublishPoint
    <3>2. gen[ctl.gen].file \in Gen \cup {None}
      BY <3>1 DEF Generation
    <3> QED
      BY <1>3, <3>2 DEF TypeOK, PublishPoint
  <2> QED
    BY <1>3, <2>1, <2>2 DEF TypeOK, PublishPoint
<1>4. CASE PublishFails
  BY <1>4, TypeReturn DEF TypeOK, PublishFails, FileState
<1>5. CASE CommitSettle
  <2>1. gen' \in [Gen -> Generation]
    <3>1. CASE ctl.prev = None
      BY <1>5, <3>1 DEF TypeOK, CommitSettle
    <3>2. CASE ctl.prev # None
      <4>1. gen[ctl.prev].persistent \in BOOLEAN
        BY <3>2 DEF TypeOK, Control, Generation
      <4>2. Superseded(ctl.prev, ctl.gen) \in BOOLEAN
        BY <4>1 DEF Superseded
      <4>3. gen' = [gen EXCEPT ![ctl.prev].retired = TRUE,
                               ![ctl.prev].doomed = Superseded(ctl.prev, ctl.gen)]
        BY <1>5, <3>2 DEF CommitSettle
      <4> QED
        BY <4>2, <4>3, GenUpdate DEF TypeOK
    <3> QED
      BY <3>1, <3>2
  <2>2. ctl' \in Control /\ LocalsOK'
    <3>1. CASE ctl.prev = None
      BY <1>5, <3>1, TypeReturn DEF CommitSettle
    <3>2. CASE ctl.prev # None
      BY <1>5, <3>2, TypeStep DEF TypeOK, CommitSettle, Control
    <3> QED
      BY <3>1, <3>2
  <2> QED
    BY <1>5, <2>1, <2>2 DEF TypeOK, CommitSettle
<1>6. CASE CommitDelete
  BY <1>6, TypeReturn, TypeWithout DEF TypeOK, CommitDelete
<1> QED
  BY <1>1, <1>2, <1>3, <1>4, <1>5, <1>6

\* The steps of activationAbort, and scanCancel.
LEMMA TypeAbort ==
  ASSUME TypeOK, AbortDelete \/ \E g \in Gen : Abort(g) \/ ScanCancel(g)
  PROVE  TypeOK'
<1>1. CASE AbortDelete
  BY <1>1, TypeReturn, TypeWithout DEF TypeOK, AbortDelete
<1>2. ASSUME NEW g \in Gen, Abort(g) PROVE TypeOK'
  <2>1. gen' \in [Gen -> Generation]
    BY <1>2, GenUpdate DEF TypeOK, Abort
  <2>2. ctl' \in Control /\ LocalsOK'
    BY <1>2 DEF Abort, At, Control, CtlPc, LocalsOK
  <2> QED
    BY <1>2, <2>1, <2>2 DEF TypeOK, Abort
<1>3. ASSUME NEW g \in Gen, ScanCancel(g) PROVE TypeOK'
  BY <1>3, TypeReturn, ScanUpdate DEF TypeOK, ScanCancel, ScanPc
<1> QED
  BY <1>1, <1>2, <1>3

\* The steps of shutdown, and the answers to dropped searches.
LEMMA TypeShutdown ==
  ASSUME TypeOK,
         Shutdown \/ ShutdownJoin \/ ShutdownClose \/ ShutdownDelete \/ EnqueueDone
  PROVE  TypeOK'
<1>1. CASE Shutdown
  <2>1. scan' \in [Gen -> Scan]
    BY <1>1 DEF TypeOK, Shutdown, Scan
  <2>2. job' \in [Query -> Job]
    <3>1. \A q \in Query : job[q] \in Job
      BY DEF TypeOK
    <3>2. \A q \in Query : \A pc \in JobPc, b \in BOOLEAN :
            [job[q] EXCEPT !.pc = pc, !.superseded = b] \in Job
      BY <3>1 DEF Job
    <3>3. \A q \in Query : (IF q \in Queued THEN "dropped" ELSE job[q].pc) \in JobPc
      BY <3>1 DEF Job, JobPc
    <3>4. \A q \in Query :
            (job[q].superseded \/ q \in Queued \/ q \in Current) \in BOOLEAN
      OBVIOUS
    <3> QED
      BY <1>1, <3>2, <3>3, <3>4 DEF Shutdown
  <2>3. gen' \in [Gen -> Generation]
    <3>1. \A g \in Gen : /\ gen[g] \in Generation /\ gen[g].refs \in Int
                         /\ GivenBack(g, Queued) \in Nat
      BY JobsFinite DEF TypeOK, Generation
    <3>2. \A g \in Gen :
            [gen[g] EXCEPT !.refs = @ - GivenBack(g, Queued)] \in Generation
      BY <3>1 DEF Generation
    <3> QED
      BY <1>1, <3>2 DEF Shutdown
  <2>4. ctl' \in Control /\ LocalsOK'
    BY <1>1 DEF TypeOK, Shutdown, At, Control, CtlPc, LocalsOK
  <2> QED
    BY <1>1, <2>1, <2>2, <2>3, <2>4 DEF TypeOK, Shutdown
<1>2. CASE ShutdownJoin
  BY <1>2 DEF TypeOK, ShutdownJoin, At, Control, CtlPc, LocalsOK
<1>3. CASE ShutdownClose
  <2>1. gen' \in [Gen -> Generation]
    <3>1. \A g \in Gen, b \in BOOLEAN :
            [gen[g] EXCEPT !.retired = b] \in Generation
      <4>1. \A g \in Gen : gen[g] \in Generation
        BY DEF TypeOK
      <4> QED
        BY <4>1 DEF Generation
    <3>2. \A g \in Gen : (gen[g].retired \/ g \in {active, previous}) \in BOOLEAN
      OBVIOUS
    <3> QED
      BY <1>3, <3>1, <3>2 DEF ShutdownClose
  <2>2. ctl' \in Control /\ LocalsOK'
    BY <1>3 DEF TypeOK, ShutdownClose, At, Control, CtlPc, LocalsOK
  <2> QED
    BY <1>3, <2>1, <2>2 DEF TypeOK, ShutdownClose
<1>4. CASE ShutdownDelete
  BY <1>4, TypeWithout DEF TypeOK, ShutdownDelete, At, Control, CtlPc, LocalsOK
<1>5. CASE EnqueueDone
  <2>1. ctl' \in Control /\ LocalsOK'
    BY <1>5 DEF EnqueueDone, At, Control, CtlPc, LocalsOK
  <2>2. reply' \in [Query -> Seq(Outcome)]
    BY <1>5 DEF TypeOK, EnqueueDone, Outcome
  <2> QED
    BY <1>5, <2>1, <2>2 DEF TypeOK, EnqueueDone
<1> QED
  BY <1>1, <1>2, <1>3, <1>4, <1>5

\* The query thread moves one job, and keeps its generation and its flag.
OnlyMoves(q) ==
  /\ job' \in [Query -> Job]
  /\ \A p \in Query : p # q => job'[p] = job[p]
  /\ job'[q].gen = job[q].gen /\ job'[q].superseded = job[q].superseded

LEMMA Moving ==
  ASSUME TypeOK, NEW q \in Query, NEW pc \in JobPc,
         NEW path \in {"none", "work", "final"},
         \/ job' = [job EXCEPT ![q].pc = pc]
         \/ job' = [job EXCEPT ![q].pc = pc, ![q].path = path]
  PROVE  OnlyMoves(q) /\ job'[q].pc = pc
<1>1. job \in [Query -> Job]
  BY DEF TypeOK
<1>2. job' \in [Query -> Job]
  <2>1. /\ [job EXCEPT ![q].pc = pc] \in [Query -> Job]
        /\ [job EXCEPT ![q].pc = pc, ![q].path = path] \in [Query -> Job]
    BY <1>1, JobUpdate
  <2> QED
    BY <2>1
<1>3. job[q] \in Job
  BY <1>1
<1> QED
  BY <1>1, <1>2, <1>3 DEF OnlyMoves, Job

\* A query gets its answer.
LEMMA TypeAnswer ==
  ASSUME TypeOK, NEW q \in Query, NEW outcome \in Outcome, Answer(q, outcome)
  PROVE  /\ OnlyMoves(q) /\ job'[q].pc \in {"replied", "lost"}
         /\ reply' \in [Query -> Seq(Outcome)]
<1>1. OnlyMoves(q) /\ job'[q].pc \in {"replied", "lost"}
  <2> DEFINE pc == IF broken THEN "lost" ELSE "replied"
  <2>1. pc \in JobPc /\ pc \in {"lost", "replied"}
    BY DEF JobPc, Held
  <2>2. job' = [job EXCEPT ![q].pc = pc, ![q].path = "none"]
    BY DEF Answer
  <2> HIDE DEF pc
  <2> QED
    BY <2>1, <2>2, Moving
<1>2. reply' \in [Query -> Seq(Outcome)]
  <2>1. \A s \in Seq(Outcome) : Append(s, outcome) \in Seq(Outcome)
    OBVIOUS
  <2>2. CASE broken
    BY <2>2 DEF TypeOK, Answer, Say
  <2>3. CASE ~ broken
    BY <2>1, <2>3 DEF TypeOK, Answer, Say
  <2> QED
    BY <2>2, <2>3
<1> QED
  BY <1>1, <1>2

\* The steps of _run_query: it goes on without an answer, or it answers.
LEMMA RunMoves ==
  ASSUME TypeOK, NEW q \in Query, RunStep(q)
  PROVE  /\ job[q].pc \in Running
         /\ \/ /\ OnlyMoves(q) /\ job'[q].pc \in Running
               /\ UNCHANGED reply
            \/ \E outcome \in Outcome : Answer(q, outcome)
         /\ UNCHANGED <<disk, pointer, rootOf, gen, active, previous, staging,
                        scan, arrival, queryThread, ctl, shutdown, broken, notice>>
<1>1. Running \subseteq JobPc
  BY DEF Running, JobPc, Held
<1>2. CASE Look(q)
  <2>1. CASE job[q].superseded
    BY <1>2, <2>1 DEF Look, Running, Outcome
  <2>2. CASE ~ job[q].superseded
    <3>1. PICK g \in Gen : /\ job' = [job EXCEPT ![q].pc = "looked",
                                               ![q].path = gen[g].place]
                          /\ UNCHANGED reply
      BY <1>2, <2>2 DEF Look
    <3> DEFINE path == gen[g].place
    <3>2. path \in {"none", "work", "final"}
      BY DEF TypeOK, Generation
    <3>3. job[q].pc = "taken" /\ "looked" \in JobPc
      BY <1>1, <1>2 DEF Look, Running
    <3>4. job' = [job EXCEPT ![q].pc = "looked", ![q].path = path]
      BY <3>1
    <3> HIDE DEF path
    <3>5. OnlyMoves(q) /\ job'[q].pc = "looked"
      BY <3>2, <3>3, <3>4, Moving
    <3> QED
      BY <1>2, <3>1, <3>3, <3>5 DEF Look, Running
  <2> QED
    BY <2>1, <2>2
<1>3. CASE Open(q)
  <2> DEFINE pc == IF AtItsPath(q) THEN "open" ELSE "missing"
  <2>1. job' = [job EXCEPT ![q].pc = pc]
    BY <1>3 DEF Open
  <2>2. pc \in Running
    BY DEF Running
  <2> HIDE DEF pc
  <2> QED
    BY <1>1, <1>3, <2>1, <2>2, Moving DEF Open, Running
<1>4. CASE Execute(q)
  <2>1. \/ job' = [job EXCEPT ![q].pc = "changed"] /\ UNCHANGED reply
        \/ \E outcome \in Outcome : Answer(q, outcome)
    BY <1>4 DEF Execute, Outcome
  <2> QED
    BY <1>1, <1>4, <2>1, Moving DEF Execute, Running
<1>5. CASE Fail(q)
  BY <1>5 DEF Fail, Running, Outcome
<1> QED
  BY <1>2, <1>3, <1>4, <1>5 DEF RunStep

\* The steps of the query thread.
LEMMA TypeQuery ==
  ASSUME TypeOK, QueryStep
  PROVE  TypeOK'
<1>1. ASSUME NEW q \in Query, Take(q) PROVE TypeOK'
  <2>1. job' \in [Query -> Job]
    <3>1. job' = [job EXCEPT ![q].pc = "taken"] /\ job \in [Query -> Job]
      BY <1>1 DEF Take, TypeOK
    <3> QED
      BY <3>1, JobUpdate DEF JobPc, Held, Running
  <2> QED
    BY <1>1, <2>1, TypeLocals DEF TypeOK, Take
<1>2. ASSUME NEW q \in Query, RunStep(q) PROVE TypeOK'
  <2>1. /\ job' \in [Query -> Job]
        /\ reply' \in [Query -> Seq(Outcome)]
    BY <1>2, RunMoves, TypeAnswer DEF OnlyMoves, TypeOK
  <2> QED
    BY <1>2, <2>1, RunMoves, TypeLocals DEF TypeOK
<1>3. ASSUME NEW q \in Query, Finish(q) PROVE TypeOK'
  <2>1. gen' \in [Gen -> Generation]
    BY <1>3, GenUpdate DEF TypeOK, Finish
  <2>2. disk' \in [Gen -> FileState]
    BY <1>3, TypeWithout DEF TypeOK, Finish
  <2>3. job' \in [Query -> Job]
    <3>1. job' = [job EXCEPT ![q].pc = "done"] /\ job \in [Query -> Job]
      BY <1>3 DEF Finish, TypeOK
    <3> QED
      BY <3>1, JobUpdate DEF JobPc
  <2> QED
    BY <1>3, <2>1, <2>2, <2>3, TypeLocals DEF TypeOK, Finish
<1>4. CASE QueryExit
  BY <1>4, TypeLocals DEF TypeOK, QueryExit
<1> QED
  BY <1>1, <1>2, <1>3, <1>4 DEF QueryStep

\* The steps of a scan's worker and its timer.
LEMMA TypeScan ==
  ASSUME TypeOK, NEW g \in Gen, ScanStep(g) \/ ScanTimedOut(g)
  PROVE  TypeOK'
<1>1. CASE ScanTimedOut(g)
  <2>1. scan' \in [Gen -> Scan]
    BY <1>1, ScanUpdate DEF TypeOK, ScanTimedOut, ScanPc
  <2> QED
    BY <1>1, <2>1, TypeLocals DEF TypeOK, ScanTimedOut
<1>2. CASE ScanOpen(g) \/ ScanFinalize(g) \/ ScanStops(g) \/ ScanFails(g)
  <2>1. disk' \in [Gen -> FileState]
    BY <1>2, TypeLocals DEF TypeOK, ScanOpen, ScanFinalize, ScanStops, ScanFails, FileState
  <2>2. scan' \in [Gen -> Scan]
    <3>1. PICK pc \in {"writing", "finalized", "cancelled", "failed"} :
            scan' = [scan EXCEPT ![g].pc = pc]
      BY <1>2 DEF ScanOpen, ScanFinalize, ScanStops, ScanFails
    <3> QED
      BY <3>1, ScanUpdate DEF TypeOK, ScanPc
  <2> QED
    BY <1>2, <2>1, <2>2, TypeLocals DEF TypeOK, ScanOpen, ScanFinalize, ScanStops, ScanFails
<1>3. CASE ScanActivate(g)
  <2>1. NewGeneration(g, FALSE) \in Generation
    BY ControlRecords
  <2>2. scan' \in [Gen -> Scan]
    BY <1>3, ScanUpdate DEF TypeOK, ScanActivate, ScanPc
  <2> QED
    BY <1>3, <2>1, <2>2, TypeLocals DEF TypeOK, ScanActivate
<1>4. CASE ScanAnnounce(g)
  <2>1. (IF broken THEN "failed" ELSE "done") \in ScanPc
    BY DEF ScanPc
  <2>2. scan' \in [Gen -> Scan]
    BY <1>4, <2>1, ScanUpdate DEF TypeOK, ScanAnnounce
  <2>3. notice' \in [Gen -> Seq(Notice)]
    BY <1>4, TypeTell DEF ScanAnnounce, Notice
  <2> QED
    BY <1>4, <2>2, <2>3, TypeLocals DEF TypeOK, ScanAnnounce
<1>5. CASE FinishScan(g)
  <2>1. disk' \in [Gen -> FileState]
    BY <1>5, TypeLocals DEF TypeOK, FinishScan, FileState
  <2>2. scan' \in [Gen -> Scan]
    <3>1. OutcomeOf(g) \in ScanPc /\ "done" \in ScanPc
      BY DEF OutcomeOf, ScanPc
    <3> QED
      BY <1>5, <3>1, ScanUpdate DEF TypeOK, FinishScan
  <2>3. staging' \in Gen \cup {None}
    BY <1>5, TypeLocals DEF TypeOK, FinishScan, StagingAfter
  <2> QED
    BY <1>5, <2>1, <2>2, <2>3, TypeLocals DEF TypeOK, FinishScan
<1>6. CASE ScanReport(g)
  <2>1. scan' \in [Gen -> Scan]
    BY <1>6, ScanUpdate DEF TypeOK, ScanReport, ScanPc
  <2>2. scan[g].pc \in Notice
    BY <1>6 DEF ScanReport, Notice
  <2>3. notice' \in [Gen -> Seq(Notice)]
    BY <1>6, <2>2, TypeTell DEF ScanReport
  <2> QED
    BY <1>6, <2>1, <2>3, TypeLocals DEF TypeOK, ScanReport
<1> QED
  BY <1>1, <1>2, <1>3, <1>4, <1>5, <1>6 DEF ScanStep

\* The environment's steps.
LEMMA TypeRest ==
  ASSUME TypeOK, BreakPipe \/ Restart
  PROVE  TypeOK'
<1>1. CASE BreakPipe
  BY <1>1, TypeLocals DEF TypeOK, BreakPipe
<1>2. CASE Restart
  <2>1. /\ gen' \in [Gen -> Generation]
        /\ scan' \in [Gen -> Scan]
        /\ job' \in [Query -> Job]
    BY <1>2, ControlRecords DEF Restart, NoGenerations, NoScans, NoJobs, Scan,
       ScanPc, Job, JobPc
  <2>2. /\ reply' \in [Query -> Seq(Outcome)]
        /\ notice' \in [Gen -> Seq(Notice)]
    BY <1>2 DEF Restart, NoReplies, NoNotices
  <2>3. ctl' \in Control /\ LocalsOK'
    BY <1>2 DEF Restart, At, Control, CtlPc, LocalsOK
  <2> QED
    BY <1>2, <2>1, <2>2, <2>3 DEF TypeOK, Restart
<1> QED
  BY <1>1, <1>2

\* Every step preserves types and locals.
LEMMA TypeNext == TypeOK /\ [Next]_vars => TypeOK'
<1> SUFFICES ASSUME TypeOK, [Next]_vars PROVE TypeOK'
  OBVIOUS
<1>1. CASE Request
  BY <1>1, TypeStart, TypeEnqueue, TypeOpen, TypeCommit, TypeAbort DEF Request
<1>2. CASE Shutdown \/ Continue
  BY <1>2, TypeLaunch, TypeOpen, TypeCommit, TypeAbort, TypeShutdown DEF Continue
<1>3. CASE QueryStep
  BY <1>3, TypeQuery
<1>4. ASSUME NEW g \in Gen, ScanStep(g) \/ ScanTimedOut(g) PROVE TypeOK'
  BY <1>4, TypeScan
<1>5. CASE BreakPipe \/ Restart
  BY <1>5, TypeRest
<1>6. CASE UNCHANGED vars
  BY <1>6, TypeLocals DEF TypeOK, vars, memory
<1> QED
  BY <1>1, <1>2, <1>3, <1>4, <1>5, <1>6 DEF Next

\* Every component of the broker's state keeps its type, and the rest of a
\* handler finds the locals its first part set, in every interleaving.
THEOREM TypeCorrect == Spec => []TypeOK
BY TypeInit, TypeNext, PTL DEF Spec

-----------------------------------------------------------------------------
(* Reference counts. A generation is queried only once it has a database;  *)
(* an id gets one when its scan is activated or a snapshot is adopted, and *)
(* at that moment nobody holds it, so counting from zero is right.         *)

Unactivated == {"created", "started", "writing", "finalized"}

QueriedHaveFiles ==
  \A q \in Outstanding : job[q].gen \in Gen /\ gen[job[q].gen].file # None

CurrentHaveFiles ==
  \A g \in {active, previous} : g # None => gen[g].file # None

UnissuedUnused ==
  \A g \in Gen : rootOf[g] = None => gen[g].file = None /\ scan[g].pc = "none"

ScannedHaveNoFiles ==
  \A g \in Gen : scan[g].pc \in Unactivated => gen[g].file = None

\* The worker of a scan starts in ScanLaunch and nowhere else.
LaunchedOnce == ctl.pc = "launch" => scan[ctl.gen].pc = "created"

Provenance ==
  /\ QueriedHaveFiles /\ CurrentHaveFiles
  /\ UnissuedUnused /\ ScannedHaveNoFiles /\ LaunchedOnce

CountInv == TypeOK /\ Provenance /\ ReferencesCounted

\* Nothing is held and nothing is counted at first.
LEMMA CountInit == Init => Provenance /\ ReferencesCounted
<1> SUFFICES ASSUME Init PROVE Provenance /\ ReferencesCounted
  OBVIOUS
<1>1. Outstanding = {} /\ \A g : Holding(g) = {}
  BY DEF Init, NoJobs, Outstanding, Holding, Held, Running
<1>2. \A g \in Gen : gen[g].file = None /\ gen[g].refs = 0 /\ scan[g].pc = "none"
  BY DEF Init, NoGenerations, NoScans, NewGeneration
<1>3. ReferencesCounted
  BY <1>1, <1>2, FS_EmptySet DEF ReferencesCounted
<1>4. Provenance
  BY <1>1, <1>2 DEF Init, At, Provenance, QueriedHaveFiles, CurrentHaveFiles,
     UnissuedUnused, ScannedHaveNoFiles, LaunchedOnce, Unactivated
<1> QED
  BY <1>3, <1>4

\* What most steps leave alone.
FilesKept ==
  \A g \in Gen : gen'[g].file = gen[g].file /\ gen'[g].refs = gen[g].refs

HoldersKept ==
  /\ Outstanding' = Outstanding
  /\ \A q \in Outstanding : job'[q].gen = job[q].gen

CurrentKept == \A g \in {active', previous'} : g \in {active, previous, None}

\* No scan begins; one that is past its activation stays there; one whose
\* worker waits to be started waits on, unless the handler has moved on.
ScansKept ==
  /\ \A g \in Gen :
       /\ scan[g].pc = "none" => scan'[g].pc = "none"
       /\ scan'[g].pc \in Unactivated => scan[g].pc \in Unactivated
  /\ ctl'.pc = "launch" =>
       ctl' = ctl /\ (scan[ctl.gen].pc = "created" => scan'[ctl.gen].pc = "created")

\* A step that changes none of it preserves the invariant.
LEMMA CountFrame ==
  ASSUME CountInv, FilesKept, HoldersKept, CurrentKept, ScansKept,
         UNCHANGED rootOf
  PROVE  Provenance' /\ ReferencesCounted'
<1>1. \A g : Holding(g)' = Holding(g)
  BY DEF Holding, HoldersKept
<1>2. ReferencesCounted'
  BY <1>1 DEF CountInv, ReferencesCounted, FilesKept
<1>3. QueriedHaveFiles'
  BY DEF CountInv, Provenance, QueriedHaveFiles, HoldersKept, FilesKept
<1>4. CurrentHaveFiles'
  BY DEF CountInv, Provenance, CurrentHaveFiles, CurrentKept, FilesKept, TypeOK
<1>5. UnissuedUnused' /\ ScannedHaveNoFiles' /\ LaunchedOnce'
  BY DEF CountInv, Provenance, UnissuedUnused, ScannedHaveNoFiles, LaunchedOnce,
     ScansKept, FilesKept
<1> QED
  BY <1>2, <1>3, <1>4, <1>5 DEF Provenance

\* Finite sets of queries, and generations that hold no database.
LEMMA HolderFacts ==
  ASSUME Provenance, NEW g \in Gen
  PROVE  /\ IsFiniteSet(Holding(g))
         /\ gen[g].file = None => Holding(g) = {}
<1>1. Holding(g) \in SUBSET Outstanding
  BY DEF Holding
<1>2. IsFiniteSet(Holding(g))
  BY <1>1, JobsFinite, FS_Subset
<1>3. gen[g].file = None => Holding(g) = {}
  BY DEF Provenance, QueriedHaveFiles, Holding
<1> QED
  BY <1>2, <1>3

\* Every step of a handler moves it past its launch.
LEMMA LaunchIsFirst ==
  ASSUME TypeOK,
         \/ ScanLaunch \/ SnapshotLoad \/ SnapshotAdoptFails \/ EnqueueDone
         \/ PublishRename \/ PublishPoint \/ PublishFails \/ CommitSettle
         \/ CommitDelete \/ AbortDelete \/ ShutdownJoin \/ ShutdownClose
         \/ ShutdownDelete
         \/ \E r \in Root : SnapshotOpen(r)
         \/ \E g \in Gen : ScanCancel(g) \/ CommitStart(g) \/ Abort(g)
  PROVE  ctl'.pc # "launch"
<1>0. \A pc : At(pc).pc = pc
  BY DEF At
<1>1. CASE ScanLaunch \/ SnapshotAdoptFails \/ CommitDelete \/ AbortDelete
           \/ PublishFails \/ \E g \in Gen : ScanCancel(g)
  BY <1>0, <1>1 DEF ScanLaunch, SnapshotAdoptFails, CommitDelete, AbortDelete,
     PublishFails, ScanCancel, Return
<1>2. CASE EnqueueDone \/ ShutdownJoin \/ ShutdownDelete
  BY <1>0, <1>2 DEF EnqueueDone, ShutdownJoin, ShutdownDelete
<1>3. CASE ShutdownClose \/ (\E r \in Root : SnapshotOpen(r))
           \/ \E g \in Gen : CommitStart(g) \/ Abort(g)
  BY <1>3 DEF ShutdownClose, SnapshotOpen, CommitStart, Abort, At
<1>4. CASE SnapshotLoad
  BY <1>0, <1>4 DEF SnapshotLoad, Return, TypeOK, Control
<1>5. CASE PublishRename \/ PublishPoint \/ CommitSettle
  BY <1>0, <1>5 DEF PublishRename, PublishPoint, CommitSettle, Return, TypeOK, Control
<1> QED
  BY <1>1, <1>2, <1>3, <1>4, <1>5

\* Steps of the control thread that touch neither counts nor jobs.
LEMMA CountControl ==
  ASSUME CountInv,
         \/ ScanLaunch \/ SnapshotLoad \/ SnapshotAdoptFails \/ EnqueueDone
         \/ PublishRename \/ PublishPoint \/ PublishFails \/ CommitSettle
         \/ CommitDelete \/ AbortDelete \/ ShutdownJoin \/ ShutdownClose
         \/ ShutdownDelete
         \/ \E r \in Root : SnapshotOpen(r)
         \/ \E g \in Gen : ScanCancel(g) \/ CommitStart(g) \/ Abort(g)
  PROVE  Provenance' /\ ReferencesCounted'
<1>1. ctl'.pc # "launch"
  BY LaunchIsFirst DEF CountInv
<1>2. UNCHANGED <<rootOf, job>>
  <2>1. CASE ScanLaunch \/ SnapshotLoad \/ SnapshotAdoptFails \/ EnqueueDone
             \/ \E r \in Root : SnapshotOpen(r)
    BY <2>1 DEF ScanLaunch, SnapshotLoad, SnapshotAdoptFails, EnqueueDone,
       SnapshotOpen
  <2>2. CASE PublishRename \/ PublishPoint \/ PublishFails \/ CommitSettle
             \/ CommitDelete \/ AbortDelete
    BY <2>2 DEF PublishRename, PublishPoint, PublishFails, CommitSettle,
       CommitDelete, AbortDelete
  <2>3. CASE ShutdownJoin \/ ShutdownClose \/ ShutdownDelete
    BY <2>3 DEF ShutdownJoin, ShutdownClose, ShutdownDelete
  <2>4. CASE \E g \in Gen : ScanCancel(g) \/ CommitStart(g) \/ Abort(g)
    BY <2>4 DEF ScanCancel, CommitStart, Abort
  <2> QED
    BY <2>1, <2>2, <2>3, <2>4
<1>3. FilesKept
  <2>1. CASE PublishPoint
    BY <2>1 DEF PublishPoint, FilesKept, CountInv, TypeOK, Generation
  <2>2. CASE CommitSettle
    <3>1. CASE ctl.prev = None
      BY <2>2, <3>1 DEF CommitSettle, FilesKept
    <3>2. CASE ctl.prev # None
      <4>1. gen' = [gen EXCEPT ![ctl.prev].retired = TRUE,
                               ![ctl.prev].doomed = Superseded(ctl.prev, ctl.gen)]
        BY <2>2, <3>2 DEF CommitSettle
      <4> QED
        BY <4>1 DEF FilesKept, CountInv, TypeOK, Generation
    <3> QED
      BY <3>1, <3>2
  <2>3. CASE ShutdownClose
    BY <2>3 DEF ShutdownClose, FilesKept, CountInv, TypeOK, Generation
  <2>4. CASE \E g \in Gen : Abort(g)
    BY <2>4 DEF Abort, FilesKept, CountInv, TypeOK, Generation
  <2>5. CASE UNCHANGED gen
    BY <2>5 DEF FilesKept
  <2> QED
    BY <2>1, <2>2, <2>3, <2>4, <2>5 DEF ScanLaunch, SnapshotLoad,
       SnapshotAdoptFails, EnqueueDone, PublishRename, PublishFails,
       CommitDelete, AbortDelete, ShutdownJoin, ShutdownDelete, SnapshotOpen,
       ScanCancel, CommitStart
<1>4. CurrentKept
  BY DEF CurrentKept, ScanLaunch, SnapshotLoad, SnapshotAdoptFails, EnqueueDone,
     PublishRename, PublishPoint, PublishFails, CommitSettle, CommitDelete,
     AbortDelete, ShutdownJoin, ShutdownClose, ShutdownDelete, SnapshotOpen,
     ScanCancel, CommitStart, Abort
<1>5. ScansKept
  <2>1. CASE ScanLaunch
    <3>1. scan[ctl.gen].pc = "created"
      BY <2>1 DEF ScanLaunch, CountInv, Provenance, LaunchedOnce
    <3> QED
      BY <1>1, <2>1, <3>1 DEF ScanLaunch, ScansKept, CountInv, TypeOK, Scan,
         Unactivated
  <2>2. CASE \E g \in Gen : ScanCancel(g)
    BY <1>1, <2>2 DEF ScanCancel, ScansKept, CountInv, TypeOK, Scan
  <2>3. CASE UNCHANGED scan
    BY <1>1, <2>3 DEF ScansKept
  <2> QED
    BY <2>1, <2>2, <2>3 DEF SnapshotLoad, SnapshotAdoptFails, EnqueueDone,
       PublishRename, PublishPoint, PublishFails, CommitSettle, CommitDelete,
       AbortDelete, ShutdownJoin, ShutdownClose, ShutdownDelete, SnapshotOpen,
       CommitStart, Abort
<1>6. HoldersKept
  BY <1>2 DEF HoldersKept, Outstanding
<1> QED
  BY <1>2, <1>3, <1>4, <1>5, <1>6, CountFrame

\* A scan's worker and timer, except for the activation.
LEMMA CountScan ==
  ASSUME CountInv, NEW g \in Gen,
         \/ ScanOpen(g) \/ ScanFinalize(g) \/ ScanStops(g) \/ ScanFails(g)
         \/ ScanAnnounce(g) \/ FinishScan(g) \/ ScanReport(g) \/ ScanTimedOut(g)
  PROVE  Provenance' /\ ReferencesCounted'
<1>1. UNCHANGED <<rootOf, gen, active, previous, job, ctl>>
  <2>1. CASE ScanOpen(g) \/ ScanFinalize(g) \/ ScanStops(g) \/ ScanFails(g)
    BY <2>1 DEF ScanOpen, ScanFinalize, ScanStops, ScanFails
  <2>2. CASE ScanAnnounce(g) \/ FinishScan(g) \/ ScanReport(g) \/ ScanTimedOut(g)
    BY <2>2 DEF ScanAnnounce, FinishScan, ScanReport, ScanTimedOut
  <2> QED
    BY <2>1, <2>2
<1>2. FilesKept /\ HoldersKept /\ CurrentKept
  BY <1>1 DEF FilesKept, HoldersKept, CurrentKept, Outstanding
<1>3. /\ scan[g].pc # "created"
      /\ \A h \in Gen : h # g => scan'[h] = scan[h]
      /\ scan[g].pc = "none" => scan'[g].pc = "none"
      /\ scan'[g].pc \in Unactivated => scan[g].pc \in Unactivated
  <2> USE DEF CountInv, TypeOK, Scan, Unactivated
  <2>1. CASE ScanOpen(g) \/ ScanFinalize(g) \/ ScanStops(g) \/ ScanFails(g)
    BY <2>1 DEF ScanOpen, ScanFinalize, ScanStops, ScanFails
  <2>2. CASE ScanAnnounce(g) \/ FinishScan(g) \/ ScanReport(g)
    BY <2>2 DEF ScanAnnounce, FinishScan, ScanReport, OutcomeOf
  <2>3. CASE ScanTimedOut(g)
    BY <2>3 DEF ScanTimedOut
  <2> QED
    BY <2>1, <2>2, <2>3
<1>4. ScansKept
  <2>1. ctl.pc = "launch" => ctl.gen \in Gen
    BY DEF CountInv, TypeOK, LocalsOK
  <2> QED
    BY <1>1, <1>3, <2>1 DEF ScansKept
<1> QED
  BY <1>1, <1>2, <1>4, CountFrame

\* A new scan: its id was never used.
LEMMA CountStart ==
  ASSUME CountInv, NEW r \in Root, NEW g \in Gen, ScanStart(r, g)
  PROVE  Provenance' /\ ReferencesCounted'
<1>1. gen[g].file = None /\ scan[g].pc = "none"
  BY DEF CountInv, Provenance, UnissuedUnused, ScanStart, Unissued
<1>2. UNCHANGED <<gen, active, previous, job>>
  BY DEF ScanStart
<1>3. ReferencesCounted' /\ QueriedHaveFiles' /\ CurrentHaveFiles'
  BY <1>2 DEF CountInv, Provenance, ReferencesCounted, QueriedHaveFiles,
     CurrentHaveFiles, Outstanding, Holding
<1>4. /\ rootOf' = [rootOf EXCEPT ![g] = r]
      /\ scan' = [scan EXCEPT ![g].pc = "created"]
      /\ ctl'.gen = g
      /\ r # None
  BY NoneAssumption DEF ScanStart, At
<1>5. UnissuedUnused' /\ ScannedHaveNoFiles' /\ LaunchedOnce'
  BY <1>1, <1>2, <1>4 DEF CountInv, TypeOK, Scan, Provenance, UnissuedUnused,
     ScannedHaveNoFiles, LaunchedOnce, Unactivated
<1> QED
  BY <1>3, <1>5 DEF Provenance

\* A generation gets its database: nobody holds it yet.
LEMMA CountNewGeneration ==
  ASSUME CountInv, NEW g \in Gen, ScanActivate(g) \/ SnapshotAdopt(g)
  PROVE  Provenance' /\ ReferencesCounted'
<1>1. PICK file \in Gen, published \in BOOLEAN :
        gen' = [gen EXCEPT ![g] = NewGeneration(file, published)]
  <2>1. CASE ScanActivate(g)
    BY <2>1 DEF ScanActivate
  <2>2. CASE SnapshotAdopt(g)
    BY <2>2 DEF SnapshotAdopt, CountInv, TypeOK, LocalsOK
  <2> QED
    BY <2>1, <2>2
<1>2. /\ gen'[g].file = file /\ file # None /\ gen'[g].refs = 0
      /\ \A h \in Gen : h # g => gen'[h] = gen[h]
  BY <1>1, NoneAssumption DEF NewGeneration, CountInv, TypeOK
<1>3. /\ gen[g].file = None
      /\ rootOf'[g] # None
      /\ \A h \in Gen : h # g => rootOf'[h] = rootOf[h] /\ scan'[h] = scan[h]
      /\ scan'[g].pc \notin Unactivated
  <2>1. CASE ScanActivate(g)
    BY <2>1 DEF ScanActivate, CountInv, TypeOK, Scan, Provenance, UnissuedUnused,
       ScannedHaveNoFiles, Unactivated
  <2>2. CASE SnapshotAdopt(g)
    <3>1. ctl.root \in Root /\ ctl.root # None
      BY <2>2, NoneAssumption DEF SnapshotAdopt, CountInv, TypeOK, LocalsOK
    <3> QED
      BY <2>2, <3>1 DEF SnapshotAdopt, CountInv, TypeOK, Provenance,
         UnissuedUnused, Unissued, Unactivated
  <2> QED
    BY <2>1, <2>2
<1>4. active' = g /\ previous' = active /\ UNCHANGED job
  BY DEF ScanActivate, SnapshotAdopt
<1>5. ReferencesCounted'
  <2>1. Holding(g) = {} /\ Cardinality(Holding(g)) = 0
    BY <1>3, HolderFacts, FS_EmptySet DEF CountInv
  <2>2. \A h : Holding(h)' = Holding(h)
    BY <1>4 DEF Holding, Outstanding
  <2> QED
    BY <1>2, <2>1, <2>2 DEF CountInv, ReferencesCounted
<1>6. QueriedHaveFiles' /\ CurrentHaveFiles'
  BY <1>2, <1>4 DEF CountInv, TypeOK, Provenance, QueriedHaveFiles,
     CurrentHaveFiles, Outstanding
<1>7. UnissuedUnused' /\ ScannedHaveNoFiles'
  BY <1>2, <1>3 DEF CountInv, Provenance, UnissuedUnused, ScannedHaveNoFiles
<1>8. LaunchedOnce'
  <2>1. CASE ScanActivate(g)
    BY <1>3, <2>1 DEF ScanActivate, CountInv, TypeOK, LocalsOK, Provenance,
       LaunchedOnce
  <2>2. CASE SnapshotAdopt(g)
    BY <2>2 DEF SnapshotAdopt, Return, At, LaunchedOnce
  <2> QED
    BY <2>1, <2>2
<1> QED
  BY <1>5, <1>6, <1>7, <1>8 DEF Provenance

\* The query thread: a job stays held until Finish gives its reference back.
LEMMA CountQuery ==
  ASSUME CountInv, QueryStep
  PROVE  Provenance' /\ ReferencesCounted'
<1>1. UNCHANGED <<rootOf, active, previous, scan, ctl>>
  BY DEF QueryStep, Take, RunStep, Look, Open, Execute, Fail, Finish, QueryExit
<1>2. CurrentKept /\ ScansKept
  BY <1>1 DEF CurrentKept, ScansKept
<1>3. ASSUME NEW q \in Query, Take(q) \/ RunStep(q)
      PROVE  Provenance' /\ ReferencesCounted'
  <2>1. job[q].pc \in Held
    BY <1>3, RunMoves DEF Take, Queued, Held, CountInv
  <2>2. UNCHANGED gen /\ OnlyMoves(q) /\ job'[q].pc \in Held
    <3>1. CASE Take(q)
      <4>1. "taken" \in JobPc /\ "taken" \in Held
        BY DEF JobPc, Held, Running
      <4> QED
        BY <3>1, <4>1, Moving DEF Take, CountInv
    <3>2. CASE RunStep(q)
      <4>1. Running \subseteq Held /\ {"replied", "lost"} \subseteq Held
        BY DEF Held
      <4> QED
        BY <3>2, <4>1, RunMoves, TypeAnswer DEF CountInv
    <3> QED
      BY <1>3, <3>1, <3>2
  <2>3. HoldersKept
    BY <2>1, <2>2 DEF OnlyMoves, HoldersKept, Outstanding
  <2> QED
    BY <1>1, <1>2, <2>2, <2>3, CountFrame DEF FilesKept
<1>4. ASSUME NEW q \in Query, Finish(q) PROVE Provenance' /\ ReferencesCounted'
  <2>0. PICK G \in Gen : G = job[q].gen
    BY <1>4 DEF Finish, Outstanding, Held, CountInv, Provenance, QueriedHaveFiles
  <2>1. q \in Outstanding /\ q \in Holding(G)
    BY <1>4, <2>0 DEF Finish, Outstanding, Holding, Held
  <2>2. /\ gen' = [gen EXCEPT ![G].refs = @ - 1]
        /\ job' = [job EXCEPT ![q].pc = "done"]
    BY <1>4, <2>0 DEF Finish
  <2>3. /\ \A h \in Gen : gen'[h].file = gen[h].file
        /\ gen'[G].refs = gen[G].refs - 1
        /\ \A h \in Gen : h # G => gen'[h].refs = gen[h].refs
    BY <2>1, <2>2 DEF CountInv, TypeOK, Generation
  <2>4. /\ Outstanding' = Outstanding \ {q}
        /\ \A p \in Outstanding' : job'[p].gen = job[p].gen
    BY <2>2 DEF CountInv, TypeOK, Job, Outstanding, Held, Running
  <2>5. ReferencesCounted'
    <3>1. \A h \in Gen : Holding(h)' = Holding(h) \ {q}
      BY <2>4 DEF Holding
    <3>2. Cardinality(Holding(G)') = Cardinality(Holding(G)) - 1
      BY <2>1, <3>1, HolderFacts, FS_RemoveElement DEF CountInv
    <3>3. \A h \in Gen : h # G => Holding(h)' = Holding(h)
      <4>1. \A h \in Gen : h # G => q \notin Holding(h)
        BY <2>0 DEF Holding
      <4> QED
        BY <3>1, <4>1
    <3> QED
      BY <2>3, <3>2, <3>3 DEF CountInv, ReferencesCounted
  <2>6. QueriedHaveFiles'
    BY <2>3, <2>4 DEF CountInv, Provenance, QueriedHaveFiles
  <2>7. CurrentHaveFiles' /\ UnissuedUnused' /\ ScannedHaveNoFiles' /\ LaunchedOnce'
    BY <1>1, <2>3 DEF CountInv, TypeOK, Provenance, CurrentHaveFiles,
       UnissuedUnused, ScannedHaveNoFiles, LaunchedOnce
  <2> QED
    BY <2>5, <2>6, <2>7 DEF Provenance
<1>5. CASE QueryExit
  <2>1. UNCHANGED <<gen, job>>
    BY <1>5 DEF QueryExit
  <2> QED
    BY <1>1, <1>2, <2>1, CountFrame DEF FilesKept, HoldersKept, Outstanding
<1> QED
  BY <1>3, <1>4, <1>5 DEF QueryStep

\* Queued jobs leave without being run: every generation gets back as many
\* references as jobs that held it left.
LEMMA CountLeaving ==
  ASSUME CountInv, NEW leaving \in SUBSET Outstanding, NEW g \in Gen
  PROVE  gen[g].refs - GivenBack(g, leaving) = Cardinality(Holding(g) \ leaving)
<1>1. /\ IsFiniteSet(Holding(g))
      /\ gen[g].refs = Cardinality(Holding(g))
  BY HolderFacts DEF CountInv, ReferencesCounted
<1> QED
  BY <1>1, FS_Difference DEF GivenBack

\* Shutdown drops every queued job.
LEMMA CountShutdown ==
  ASSUME CountInv, Shutdown
  PROVE  Provenance' /\ ReferencesCounted'
<1>1. UNCHANGED <<rootOf, active, previous>> /\ ctl'.pc = "join"
  BY DEF Shutdown, At
<1>2. \A g \in Gen : scan'[g].pc = scan[g].pc
  BY DEF Shutdown, CountInv, TypeOK, Scan
<1>3. \A g \in Gen : /\ gen'[g].file = gen[g].file
                     /\ gen'[g].refs = gen[g].refs - GivenBack(g, Queued)
  BY DEF Shutdown, CountInv, TypeOK, Generation
<1>4. /\ Outstanding' = Outstanding \ Queued
      /\ \A q \in Outstanding' : job'[q].gen = job[q].gen
  <2>1. job \in [Query -> Job]
    BY DEF CountInv, TypeOK
  <2>2. \A q \in Query :
          /\ job'[q].pc = IF q \in Queued THEN "dropped" ELSE job[q].pc
          /\ job'[q].gen = job[q].gen
    BY <2>1 DEF Shutdown, Job
  <2> QED
    BY <2>2 DEF Outstanding, Held, Running
<1>5. ReferencesCounted'
  <2>1. Queued \in SUBSET Outstanding
    BY DEF Queued, Outstanding, Held
  <2>2. \A g \in Gen : Holding(g)' = Holding(g) \ Queued
    BY <1>4 DEF Holding
  <2>3. \A g \in Gen : gen'[g].refs = Cardinality(Holding(g)')
    BY <1>3, <2>1, <2>2, CountLeaving
  <2> QED
    BY <2>3 DEF ReferencesCounted
<1>6. QueriedHaveFiles'
  BY <1>3, <1>4 DEF CountInv, Provenance, QueriedHaveFiles
<1>7. CurrentHaveFiles' /\ UnissuedUnused' /\ ScannedHaveNoFiles' /\ LaunchedOnce'
  BY <1>1, <1>2, <1>3 DEF CountInv, TypeOK, Provenance, CurrentHaveFiles,
     UnissuedUnused, ScannedHaveNoFiles, LaunchedOnce
<1> QED
  BY <1>5, <1>6, <1>7 DEF Provenance

\* A query is accepted or refused; a search first drops the queued searches.
LEMMA CountEnqueue ==
  ASSUME CountInv, NEW q \in Query, NEW g \in Gen, Enqueue(q, g)
  PROVE  Provenance' /\ ReferencesCounted'
<1> DEFINE D == Dropped(q)
           new == IF HasRoom(q) THEN {q} ELSE {}
<1>1. UNCHANGED <<rootOf, active, previous, scan>> /\ ctl'.pc # "launch"
  <2>1. CASE HasRoom(q)
    BY <2>1 DEF Enqueue, At
  <2>2. CASE ~ HasRoom(q)
    <3>1. Return /\ UNCHANGED <<rootOf, active, previous, scan>>
      BY <2>2 DEF Enqueue
    <3> QED
      BY <3>1 DEF Return, At
  <2> QED
    BY <2>1, <2>2
<1>2. D \in SUBSET Outstanding /\ q \notin Outstanding
  BY DEF Enqueue, Dropped, Queued, Outstanding, Held, Running
<1>3. gen[g].file # None
  BY DEF Enqueue, CountInv, Provenance, CurrentHaveFiles
<1>4. /\ \A h \in Gen : gen'[h].file = gen[h].file
      /\ \A h \in Gen : gen'[h].refs =
           gen[h].refs - GivenBack(h, D) + (IF HasRoom(q) /\ h = g THEN 1 ELSE 0)
  BY DEF Enqueue, CountInv, TypeOK, Generation
<1>5. /\ Outstanding' = (Outstanding \ D) \cup new
      /\ \A p \in Outstanding \ D : job'[p].gen = job[p].gen
      /\ job'[q].gen = g
  <2>1. /\ job'[q] = [pc |-> IF HasRoom(q) THEN "queued" ELSE "refused",
                      gen |-> g, superseded |-> FALSE, path |-> "none"]
        /\ \A p \in Query \ {q} :
             /\ job'[p].gen = job[p].gen
             /\ job'[p].pc = IF p \in D THEN "dropped" ELSE job[p].pc
    BY DEF Enqueue, CountInv, TypeOK, Job
  <2>2. \A p \in Query \ {q} : p \in Outstanding' <=> p \in Outstanding \ D
    BY <2>1 DEF Outstanding, Held, Running
  <2>3. q \in Outstanding' <=> HasRoom(q)
    BY <2>1 DEF Outstanding, Held, Running
  <2>4. Outstanding \in SUBSET Query /\ Outstanding' \in SUBSET Query
    BY DEF Outstanding
  <2> QED
    BY <1>2, <2>1, <2>2, <2>3, <2>4
<1>6. ReferencesCounted'
  <2>1. ASSUME NEW h \in Gen PROVE gen'[h].refs = Cardinality(Holding(h)')
    <3>1. /\ IsFiniteSet(Holding(h) \ D)
          /\ gen[h].refs - GivenBack(h, D) = Cardinality(Holding(h) \ D)
      BY <1>2, HolderFacts, CountLeaving, FS_Difference DEF CountInv
    <3>2. CASE HasRoom(q) /\ h = g
      <4>1. Holding(h)' = (Holding(h) \ D) \cup {q} /\ q \notin Holding(h)
        BY <1>2, <1>5, <3>2 DEF Holding
      <4>2. Cardinality(Holding(h)') = Cardinality(Holding(h) \ D) + 1
        BY <3>1, <4>1, FS_AddElement
      <4> QED
        BY <1>4, <3>1, <3>2, <4>2
    <3>3. CASE ~ (HasRoom(q) /\ h = g)
      <4>1. Holding(h)' = Holding(h) \ D
        BY <1>2, <1>5, <3>3 DEF Holding
      <4>2. Cardinality(Holding(h) \ D) \in Nat
        BY <3>1, FS_CardinalityType
      <4> QED
        BY <1>4, <3>1, <3>3, <4>1, <4>2
    <3> QED
      BY <3>2, <3>3
  <2> QED
    BY <2>1 DEF ReferencesCounted
<1>7. QueriedHaveFiles'
  BY <1>3, <1>4, <1>5 DEF CountInv, Provenance, QueriedHaveFiles
<1>8. CurrentHaveFiles' /\ UnissuedUnused' /\ ScannedHaveNoFiles' /\ LaunchedOnce'
  BY <1>1, <1>4 DEF CountInv, TypeOK, Provenance, CurrentHaveFiles,
     UnissuedUnused, ScannedHaveNoFiles, LaunchedOnce
<1> QED
  BY <1>6, <1>7, <1>8 DEF Provenance

\* The pipe breaks, or a new process starts with nothing.
LEMMA CountRest ==
  ASSUME CountInv, BreakPipe \/ Restart
  PROVE  Provenance' /\ ReferencesCounted'
<1>1. CASE BreakPipe
  BY <1>1, CountFrame DEF BreakPipe, FilesKept, HoldersKept, CurrentKept,
     ScansKept, Outstanding
<1>2. CASE Restart
  <2>1. Outstanding' = {} /\ \A g : Holding(g)' = {}
    BY <1>2 DEF Restart, NoJobs, Outstanding, Holding, Held, Running
  <2>2. \A g \in Gen : gen'[g].file = None /\ gen'[g].refs = 0 /\ scan'[g].pc = "none"
    BY <1>2 DEF Restart, NoGenerations, NoScans, NewGeneration
  <2>3. ReferencesCounted'
    BY <2>1, <2>2, FS_EmptySet DEF ReferencesCounted
  <2>4. Provenance'
    BY <1>2, <2>1, <2>2 DEF Restart, At, Provenance, QueriedHaveFiles,
       CurrentHaveFiles, UnissuedUnused, ScannedHaveNoFiles, LaunchedOnce,
       Unactivated
  <2> QED
    BY <2>3, <2>4
<1> QED
  BY <1>1, <1>2

\* Every step preserves the count and what it rests on.
LEMMA CountNext == CountInv /\ [Next]_vars => Provenance' /\ ReferencesCounted'
<1> SUFFICES ASSUME CountInv, [Next]_vars PROVE Provenance' /\ ReferencesCounted'
  OBVIOUS
<1>1. CASE Request
  BY <1>1, CountStart, CountControl, CountEnqueue DEF Request
<1>2. CASE Shutdown \/ Continue
  BY <1>2, CountShutdown, CountControl, CountNewGeneration DEF Continue
<1>3. CASE QueryStep
  BY <1>3, CountQuery
<1>4. ASSUME NEW g \in Gen, ScanStep(g) \/ ScanTimedOut(g)
      PROVE  Provenance' /\ ReferencesCounted'
  BY <1>4, CountScan, CountNewGeneration DEF ScanStep
<1>5. CASE BreakPipe \/ Restart
  BY <1>5, CountRest
<1>6. CASE UNCHANGED vars
  BY <1>6, CountFrame DEF vars, memory, FilesKept, HoldersKept, CurrentKept,
     ScansKept, Outstanding
<1> QED
  BY <1>1, <1>2, <1>3, <1>4, <1>5, <1>6 DEF Next

\* The reference count of a generation is the number of accepted queries on
\* it that are not settled, in every interleaving of accepting, superseding,
\* finishing and shutdown.
THEOREM ReferencesCorrect == Spec => []ReferencesCounted
<1>1. Init => CountInv
  BY TypeInit, CountInit DEF CountInv
<1>2. CountInv /\ [Next]_vars => CountInv'
  BY TypeNext, CountNext DEF CountInv
<1>3. CountInv => ReferencesCounted
  BY DEF CountInv
<1> QED
  BY <1>1, <1>2, <1>3, PTL DEF Spec

-----------------------------------------------------------------------------
(* Cancellation. A scan's id has no database before its activation, and the *)
(* active and the previous generation have one, so a staging scan can only *)
(* become active in its own activation, which checks that it is wanted.    *)

StagingIsFresh ==
  staging # None => rootOf[staging] # None /\ gen[staging].file = None

\* A database is given to an id by its own activation or adoption only.
FilesGrow(g) ==
  ScanActivate(g) \/ SnapshotAdopt(g) \/ gen'[g].file \in {gen[g].file, None}

\* staging is set by scanStart only; issued ids stay issued.
StagingFrom ==
  /\ staging' \in {staging, None} \/ \E r \in Root : ScanStart(r, staging')
  /\ \A g \in Gen : rootOf[g] # None => rootOf'[g] # None

\* active is set by an activation or adoption, or goes back to previous.
ActiveFrom ==
  active' \in {active, previous, None}
    \/ \E g \in Gen : active' = g /\ (ScanActivate(g) \/ SnapshotAdopt(g))

Origins == StagingFrom /\ ActiveFrom /\ \A g \in Gen : FilesGrow(g)

\* Steps that leave the three alone have nothing to show.
LEMMA OriginsFrame ==
  UNCHANGED <<rootOf, gen, active, staging>> => Origins
BY DEF Origins, StagingFrom, ActiveFrom, FilesGrow

\* Where each step may take staging, active and the databases from.
LEMMA OriginsHold ==
  ASSUME CountInv, [Next]_vars
  PROVE  Origins
<1> USE DEF Origins, StagingFrom, ActiveFrom, FilesGrow
<1>1. CASE Request
  <2>1. ASSUME NEW r \in Root, NEW g \in Gen, ScanStart(r, g) PROVE Origins
    <3>1. /\ r # None /\ staging' = g /\ UNCHANGED <<gen, active>>
          /\ \A h \in Gen : rootOf'[h] \in {rootOf[h], r}
      BY <2>1, NoneAssumption DEF ScanStart, CountInv, TypeOK
    <3> QED
      BY <2>1, <3>1
  <2>2. ASSUME NEW g \in Gen, ScanCancel(g) \/ CommitStart(g) PROVE Origins
    BY <2>2, OriginsFrame DEF ScanCancel, CommitStart
  <2>3. ASSUME NEW g \in Gen, Abort(g) PROVE Origins
    <3>1. /\ UNCHANGED <<rootOf, staging>> /\ active' = previous
          /\ \A h \in Gen : gen'[h].file = gen[h].file
      BY <2>3 DEF Abort, CountInv, TypeOK, Generation
    <3> QED
      BY <3>1
  <2>4. ASSUME NEW g \in Gen, NEW q \in Query, Enqueue(q, g) PROVE Origins
    <3>1. /\ UNCHANGED <<rootOf, staging, active>>
          /\ \A h \in Gen : gen'[h].file = gen[h].file
      BY <2>4 DEF Enqueue, CountInv, TypeOK, Generation
    <3> QED
      BY <3>1
  <2>5. ASSUME NEW r \in Root, SnapshotOpen(r) PROVE Origins
    BY <2>5, OriginsFrame DEF SnapshotOpen
  <2> QED
    BY <1>1, <2>1, <2>2, <2>3, <2>4, <2>5 DEF Request
<1>2. CASE Shutdown
  <2>1. /\ UNCHANGED <<rootOf, staging, active>>
        /\ \A h \in Gen : gen'[h].file = gen[h].file
    BY <1>2 DEF Shutdown, CountInv, TypeOK, Generation
  <2> QED
    BY <2>1
<1>3. CASE Continue
  <2>1. CASE ScanLaunch \/ SnapshotLoad \/ SnapshotAdoptFails \/ EnqueueDone
    BY <2>1, OriginsFrame DEF ScanLaunch, SnapshotLoad, SnapshotAdoptFails,
       EnqueueDone
  <2>2. CASE PublishRename \/ PublishFails \/ CommitDelete \/ AbortDelete
             \/ ShutdownJoin \/ ShutdownDelete
    BY <2>2, OriginsFrame DEF PublishRename, PublishFails, CommitDelete,
       AbortDelete, ShutdownJoin, ShutdownDelete
  <2>3. CASE PublishPoint
    BY <2>3 DEF PublishPoint, CountInv, TypeOK, Generation
  <2>4. CASE CommitSettle
    <3>1. CASE ctl.prev = None
      BY <2>4, <3>1 DEF CommitSettle
    <3>2. CASE ctl.prev # None
      <4>1. /\ gen' = [gen EXCEPT ![ctl.prev].retired = TRUE,
                                  ![ctl.prev].doomed = Superseded(ctl.prev, ctl.gen)]
            /\ UNCHANGED <<rootOf, staging, active>>
        BY <2>4, <3>2 DEF CommitSettle
      <4> QED
        BY <4>1 DEF CountInv, TypeOK, Generation
    <3> QED
      BY <3>1, <3>2
  <2>5. CASE ShutdownClose
    BY <2>5 DEF ShutdownClose, CountInv, TypeOK, Generation
  <2>6. ASSUME NEW g \in Gen, SnapshotAdopt(g) PROVE Origins
    <3>1. ctl.root \in Root /\ ctl.root # None
      BY <2>6, NoneAssumption DEF SnapshotAdopt, CountInv, TypeOK, LocalsOK
    <3>2. /\ UNCHANGED staging /\ active' = g
          /\ \A h \in Gen : rootOf'[h] \in {rootOf[h], ctl.root}
          /\ \A h \in Gen : h # g => gen'[h] = gen[h]
      BY <2>6 DEF SnapshotAdopt, CountInv, TypeOK
    <3> QED
      BY <2>6, <3>1, <3>2
  <2> QED
    BY <1>3, <2>1, <2>2, <2>3, <2>4, <2>5, <2>6 DEF Continue
<1>4. CASE QueryStep
  <2>1. UNCHANGED <<rootOf, staging, active>>
    BY <1>4 DEF QueryStep, Take, RunStep, Look, Open, Execute, Fail, Finish, QueryExit
  <2>2. \A h \in Gen : gen'[h].file = gen[h].file
    <3>1. ASSUME NEW q \in Query, Take(q) \/ RunStep(q) PROVE UNCHANGED gen
      BY <3>1 DEF Take, RunStep, Look, Open, Execute, Fail
    <3>2. ASSUME NEW q \in Query, NEW h \in Gen, Finish(q)
          PROVE  gen'[h].file = gen[h].file
      BY <3>2 DEF Finish, CountInv, TypeOK, Generation
    <3>3. QueryExit => UNCHANGED gen
      BY DEF QueryExit
    <3> QED
      BY <1>4, <3>1, <3>2, <3>3 DEF QueryStep
  <2> QED
    BY <2>1, <2>2
<1>5. ASSUME NEW g \in Gen, ScanStep(g) \/ ScanTimedOut(g) PROVE Origins
  <2>1. CASE ScanActivate(g)
    <3>1. /\ staging' = None /\ active' = g /\ UNCHANGED rootOf
          /\ \A h \in Gen : h # g => gen'[h] = gen[h]
      BY <2>1 DEF ScanActivate, CountInv, TypeOK
    <3> QED
      BY <2>1, <3>1
  <2>2. CASE FinishScan(g)
    BY <2>2 DEF FinishScan, StagingAfter
  <2>3. CASE ScanOpen(g) \/ ScanFinalize(g) \/ ScanStops(g) \/ ScanFails(g)
             \/ ScanAnnounce(g) \/ ScanReport(g) \/ ScanTimedOut(g)
    BY <2>3, OriginsFrame DEF ScanOpen, ScanFinalize, ScanStops, ScanFails,
       ScanAnnounce, ScanReport, ScanTimedOut
  <2> QED
    BY <1>5, <2>1, <2>2, <2>3 DEF ScanStep
<1>6. CASE BreakPipe \/ UNCHANGED vars
  BY <1>6, OriginsFrame DEF BreakPipe, vars, memory
<1>7. CASE Restart
  BY <1>7 DEF Restart, NoGenerations, NewGeneration
<1> QED
  BY <1>1, <1>2, <1>3, <1>4, <1>5, <1>6, <1>7 DEF Next

\* A staging scan's id stays issued and without a database.
LEMMA StagingNext ==
  ASSUME CountInv, StagingIsFresh, [Next]_vars
  PROVE  StagingIsFresh'
<1>1. Origins
  BY OriginsHold
<1>2. CASE staging' \in {staging, None}
  <2>1. ASSUME staging \in Gen, staging' = staging
        PROVE  rootOf'[staging] # None /\ gen'[staging].file = None
    <3>1. rootOf[staging] # None /\ gen[staging].file = None
      BY <2>1, NoneAssumption DEF StagingIsFresh
    <3>2. ~ ScanActivate(staging)
      BY <2>1, NoneAssumption DEF ScanActivate
    <3>3. ~ SnapshotAdopt(staging)
      BY <3>1 DEF SnapshotAdopt, Unissued
    <3> QED
      BY <1>1, <2>1, <3>1, <3>2, <3>3 DEF Origins, StagingFrom, FilesGrow
  <2> QED
    BY <1>2, <2>1 DEF CountInv, TypeOK, StagingIsFresh
<1>3. ASSUME NEW r \in Root, ScanStart(r, staging') PROVE StagingIsFresh'
  <2>1. staging' \in Gen /\ gen[staging'].file = None
    BY <1>3 DEF ScanStart, Unissued, CountInv, Provenance, UnissuedUnused
  <2>2. UNCHANGED gen /\ rootOf' = [rootOf EXCEPT ![staging'] = r] /\ r # None
    BY <1>3, NoneAssumption DEF ScanStart
  <2> QED
    BY <2>1, <2>2 DEF CountInv, TypeOK, StagingIsFresh
<1> QED
  BY <1>1, <1>2, <1>3 DEF Origins, StagingFrom

\* A scan that is staging and cancelled is not active after the next step.
LEMMA CancelledStep ==
  ASSUME CountInv, StagingIsFresh, [Next]_vars,
         NEW g \in Gen, staging = g, scan[g].cancel
  PROVE  active' # g
<1>1. Origins
  BY OriginsHold
<1>2. rootOf[g] # None /\ gen[g].file = None /\ g # None
  BY NoneAssumption DEF StagingIsFresh
<1>3. g \notin {active, previous, None}
  BY <1>2 DEF CountInv, Provenance, CurrentHaveFiles
<1>4. ~ ScanActivate(g) /\ ~ SnapshotAdopt(g)
  BY <1>2 DEF ScanActivate, StillWanted, SnapshotAdopt, Unissued
<1> QED
  BY <1>1, <1>3, <1>4 DEF Origins, ActiveFrom

\* A scan whose cancellation was accepted, by request, timer or shutdown,
\* never becomes the active snapshot, whichever step comes next.
THEOREM CancellationCorrect == Spec => CancelledNeverActivates
<1>1. Init => CountInv /\ StagingIsFresh
  BY TypeInit, CountInit DEF CountInv, Init, StagingIsFresh
<1>2. CountInv /\ StagingIsFresh /\ [Next]_vars => (CountInv /\ StagingIsFresh)'
  BY TypeNext, CountNext, StagingNext DEF CountInv
<1>3. CountInv /\ StagingIsFresh /\ [Next]_vars
        => [\A g \in Gen : staging = g /\ scan[g].cancel => active' # g]_vars
  BY CancelledStep
<1> QED
  BY <1>1, <1>2, <1>3, PTL DEF Spec, CancelledNeverActivates

-----------------------------------------------------------------------------
(* Answers. The inductive invariant: what has been said follows from where *)
(* a query or a scan stands.                                               *)

\* Nothing is said of a query that waits, runs, or is about to be told that
\* it was dropped.
Replies ==
  /\ \A q \in Query : Len(reply[q]) <= 1
  /\ \A q \in Query : job[q].pc \in {"new", "queued"} \cup Running =>
       reply[q] = <<>>
  /\ ctl.pc = "supersede" =>
       \A q \in ctl.drop : job[q].pc = "dropped" /\ reply[q] = <<>>

Notices ==
  \A g \in Gen :
    /\ scan[g].pc \in {"none", "created"} => notice[g] = <<>>
    /\ scan[g].pc \notin {"none", "created"} =>
         /\ Len(notice[g]) \in {1, 2} /\ notice[g][1] = "scanStarted"
         /\ Len(notice[g]) = 2 =>
              scan[g].pc = "done" /\ notice[g][2] # "scanStarted"

\* MAX_OUTSTANDING_REQUESTS. A request that finds no room has pushed out no
\* search: otherwise that one would never be answered.
Bounded == Cardinality(Outstanding) <= MaxOutstanding

AnswerParts == Replies /\ Notices /\ Bounded /\ SupersededAnswered

AnswerInv == CountInv /\ AnswerParts

-----------------------------------------------------------------------------
(* Queries.                                                                *)

\* Sets of queries have sizes that only grow with the set.
LEMMA QuerySetSizes ==
  ASSUME NEW S \in SUBSET Query, NEW T \in SUBSET S
  PROVE  /\ IsFiniteSet(S) /\ Cardinality(S) \in Nat
         /\ IsFiniteSet(T) /\ Cardinality(T) \in Nat
         /\ Cardinality(T) <= Cardinality(S)
         /\ Cardinality(T) = Cardinality(S) => T = S
BY QueryAssumption, FS_Subset, FS_CardinalityType

\* The steps that no query takes part in.
QueriesQuiet ==
  /\ UNCHANGED <<job, reply>>
  /\ ctl.pc = "supersede" \/ ctl'.pc = "supersede" => ctl' = ctl
  /\ ~ shutdown' /\ ~ broken' => ~ shutdown /\ ~ broken

\* They change no answer and drop no search.
LEMMA QueriesFrame ==
  ASSUME AnswerInv, QueriesQuiet
  PROVE  Replies' /\ Bounded' /\ SupersededAnswered'
<1> USE DEF AnswerInv, AnswerParts, QueriesQuiet
<1>1. Replies'
  BY DEF Replies
<1>2. Bounded'
  BY DEF Bounded, Outstanding
<1>3. SupersededAnswered'
  BY DEF SupersededAnswered
<1> QED
  BY <1>1, <1>2, <1>3

\* A query that moves on, with an answer if its state calls for one.
LEMMA QueryMoves ==
  ASSUME AnswerInv, NEW q \in Query, NEW pc \in JobPc,
         job[q].pc \in Held,
         pc \notin {"new", "dropped"},
         OnlyMoves(q), job'[q].pc = pc,
         \/ /\ UNCHANGED reply
            /\ pc \in {"queued"} \cup Running => job[q].pc \in {"queued"} \cup Running
         \/ /\ job[q].pc \in Running
            /\ pc \notin {"queued"} \cup Running
            /\ \E outcome \in Outcome : reply' = [reply EXCEPT ![q] = Append(@, outcome)],
         UNCHANGED <<ctl, shutdown, broken>>
  PROVE  Replies' /\ Bounded' /\ SupersededAnswered'
<1> USE DEF AnswerInv, AnswerParts
<1>1. /\ \A p \in Query : p # q => job'[p] = job[p]
      /\ job'[q].pc = pc
      /\ \A p \in Query : p # q => reply'[p] = reply[p]
  BY DEF OnlyMoves, CountInv, TypeOK
<1>2. \/ reply'[q] = reply[q]
      \/ /\ job[q].pc \in Running /\ pc \notin {"queued"} \cup Running
         /\ Len(reply'[q]) = 1
  <2>1. CASE UNCHANGED reply
    BY <2>1
  <2>2. ASSUME NEW outcome \in Outcome, job[q].pc \in Running,
               reply' = [reply EXCEPT ![q] = Append(@, outcome)]
        PROVE  Len(reply'[q]) = 1
    <3>1. reply[q] = <<>>
      BY <2>2 DEF Replies
    <3> QED
      BY <2>2, <3>1 DEF CountInv, TypeOK
  <2> QED
    BY <2>1, <2>2
<1>3. Replies'
  <2>1. ASSUME NEW p \in Query PROVE Len(reply'[p]) <= 1
    <3>1. Len(reply[p]) <= 1
      BY DEF Replies
    <3>2. Len(reply'[q]) <= 1
      <4>1. CASE reply'[q] = reply[q]
        <5>1. Len(reply[q]) <= 1
          BY DEF Replies
        <5> QED
          BY <4>1, <5>1
      <4>2. CASE Len(reply'[q]) = 1
        BY <4>2
      <4> QED
        BY <1>2, <4>1, <4>2
    <3> QED
      BY <1>1, <3>1, <3>2
  <2>2. ASSUME NEW p \in Query, job'[p].pc \in {"new", "queued"} \cup Running
        PROVE  reply'[p] = <<>>
    BY <1>1, <1>2, <2>2 DEF Replies
  <2>3. ASSUME ctl.pc = "supersede", NEW p \in ctl.drop
        PROVE  job'[p].pc = "dropped" /\ reply'[p] = <<>>
    <3>1. p \in Query /\ job[p].pc = "dropped" /\ reply[p] = <<>>
      BY <2>3 DEF Replies, CountInv, TypeOK, Control
    <3>2. p # q
      BY <3>1 DEF Held, Running
    <3> QED
      BY <1>1, <3>1, <3>2
  <2> QED
    BY <2>1, <2>2, <2>3 DEF Replies
<1>4. Bounded'
  <2>1. Outstanding' \subseteq Outstanding
    BY <1>1 DEF Outstanding, Held
  <2>2. Outstanding \in SUBSET Query
    BY DEF Outstanding
  <2>3. /\ Cardinality(Outstanding') <= Cardinality(Outstanding)
        /\ Cardinality(Outstanding') \in Nat /\ Cardinality(Outstanding) \in Nat
    BY <2>1, <2>2, QuerySetSizes
  <2> QED
    BY <2>3, LimitAssumption DEF Bounded
<1>5. SupersededAnswered'
  BY <1>1 DEF SupersededAnswered
<1> QED
  BY <1>3, <1>4, <1>5

\* The query thread.
LEMMA AnswerQuery ==
  ASSUME AnswerInv, QueryStep
  PROVE  Replies' /\ Bounded' /\ SupersededAnswered'
<1> USE DEF AnswerInv, AnswerParts
<1>1. UNCHANGED <<ctl, shutdown, broken>>
  BY DEF QueryStep, Take, RunStep, Look, Open, Execute, Fail, Finish, QueryExit
<1>2. ASSUME NEW q \in Query, NEW outcome \in Outcome, Answer(q, outcome),
             job[q].pc \in Running
      PROVE  Replies' /\ Bounded' /\ SupersededAnswered'
  <2>1. /\ OnlyMoves(q) /\ job'[q].pc \in {"replied", "lost"}
        /\ job[q].pc \in Held /\ job'[q].pc \in JobPc
    BY <1>2, TypeAnswer DEF CountInv, JobPc, Held
  <2>2. \/ UNCHANGED reply
        \/ reply' = [reply EXCEPT ![q] = Append(@, outcome)]
    BY <1>2 DEF Answer, Say
  <2> QED
    BY <1>1, <1>2, <2>1, <2>2, QueryMoves DEF Running
<1>3. ASSUME NEW q \in Query, Take(q)
      PROVE  Replies' /\ Bounded' /\ SupersededAnswered'
  <2>1. /\ job[q].pc = "queued" /\ job' = [job EXCEPT ![q].pc = "taken"]
        /\ UNCHANGED reply
    BY <1>3 DEF Take, Queued
  <2>2. "taken" \in JobPc /\ job[q].pc \in Held
    BY <2>1 DEF JobPc, Held, Running
  <2>3. OnlyMoves(q) /\ job'[q].pc = "taken"
    BY <2>1, <2>2, Moving DEF CountInv
  <2> QED
    BY <1>1, <2>1, <2>2, <2>3, QueryMoves
<1>4. ASSUME NEW q \in Query, RunStep(q)
      PROVE  Replies' /\ Bounded' /\ SupersededAnswered'
  <2>1. job[q].pc \in Running /\ job[q].pc \in Held
    BY <1>4, RunMoves DEF CountInv, Held
  <2>2. CASE OnlyMoves(q) /\ job'[q].pc \in Running /\ UNCHANGED reply
    <3>1. job'[q].pc \in JobPc /\ job'[q].pc \notin {"new", "dropped"}
      BY <2>2 DEF Running, JobPc, Held
    <3> QED
      BY <1>1, <2>1, <2>2, <3>1, QueryMoves
  <2>3. CASE \E outcome \in Outcome : Answer(q, outcome)
    BY <1>2, <2>1, <2>3
  <2> QED
    BY <1>4, <2>2, <2>3, RunMoves DEF CountInv
<1>5. ASSUME NEW q \in Query, Finish(q)
      PROVE  Replies' /\ Bounded' /\ SupersededAnswered'
  <2>1. /\ job[q].pc \in {"replied", "lost"}
        /\ job' = [job EXCEPT ![q].pc = "done"] /\ UNCHANGED reply
    BY <1>5 DEF Finish
  <2>2. /\ "done" \in JobPc /\ job[q].pc \in Held
        /\ "done" \notin {"queued"} \cup Running
    BY <2>1 DEF JobPc, Held, Running
  <2>3. OnlyMoves(q) /\ job'[q].pc = "done"
    BY <2>1, <2>2, Moving DEF CountInv
  <2> QED
    BY <1>1, <2>1, <2>2, <2>3, QueryMoves
<1>6. CASE QueryExit
  BY <1>1, <1>6, QueriesFrame DEF QueryExit, QueriesQuiet
<1> QED
  BY <1>3, <1>4, <1>5, <1>6 DEF QueryStep

\* The steps of the control thread that no query takes part in.
LEMMA QuietControl ==
  ASSUME TypeOK,
         \/ ScanLaunch \/ SnapshotLoad \/ SnapshotAdoptFails
         \/ PublishRename \/ PublishPoint \/ PublishFails \/ CommitSettle
         \/ CommitDelete \/ AbortDelete \/ ShutdownJoin \/ ShutdownClose
         \/ ShutdownDelete
         \/ \E r \in Root : SnapshotOpen(r)
         \/ \E g \in Gen : \/ ScanCancel(g) \/ CommitStart(g) \/ Abort(g)
                           \/ SnapshotAdopt(g)
         \/ \E r \in Root, g \in Gen : ScanStart(r, g)
  PROVE  QueriesQuiet
<1>0. /\ \A pc : At(pc).pc = pc
      /\ Return => ctl'.pc \in {"failing", "idle"}
  BY DEF At, Return
<1>1. CASE ScanLaunch \/ SnapshotAdoptFails \/ CommitDelete \/ AbortDelete
           \/ PublishFails \/ \E g \in Gen : ScanCancel(g) \/ SnapshotAdopt(g)
  <2>1. UNCHANGED <<job, reply, shutdown, broken>> /\ ctl.pc # "supersede" /\ Return
    BY <1>1 DEF ScanLaunch, SnapshotAdoptFails, CommitDelete, AbortDelete,
       PublishFails, ScanCancel, SnapshotAdopt, Accepting
  <2> QED
    BY <1>0, <2>1 DEF QueriesQuiet
<1>2. CASE ShutdownJoin \/ ShutdownDelete
  BY <1>0, <1>2 DEF ShutdownJoin, ShutdownDelete, QueriesQuiet
<1>3. CASE ShutdownClose \/ (\E r \in Root : SnapshotOpen(r))
           \/ (\E g \in Gen : Abort(g)) \/ \E r \in Root, g \in Gen : ScanStart(r, g)
  <2>1. UNCHANGED <<job, reply, shutdown, broken>> /\ ctl.pc # "supersede"
    BY <1>3 DEF ShutdownClose, SnapshotOpen, Abort, ScanStart, Accepting
  <2>2. ctl'.pc \in {"delete", "load", "deleteAborted", "launch"}
    BY <1>3 DEF ShutdownClose, SnapshotOpen, Abort, ScanStart, At
  <2> QED
    BY <2>1, <2>2 DEF QueriesQuiet
<1>4. CASE \E g \in Gen : CommitStart(g)
  <2>1. UNCHANGED <<job, reply, shutdown, broken>> /\ ctl.pc = "idle"
        /\ ctl'.pc \in {"settle", "publish"}
    BY <1>4 DEF CommitStart, Accepting, At
  <2> QED
    BY <2>1 DEF QueriesQuiet
<1>5. CASE SnapshotLoad \/ PublishRename \/ PublishPoint \/ CommitSettle
  <2>1. UNCHANGED <<job, reply, shutdown, broken>> /\ ctl.pc # "supersede"
    BY <1>5 DEF SnapshotLoad, PublishRename, PublishPoint, CommitSettle
  <2>2. ctl'.pc # "supersede"
    <3>1. CASE SnapshotLoad
      BY <1>0, <3>1 DEF SnapshotLoad, TypeOK, Control
    <3>2. CASE PublishRename \/ PublishPoint \/ CommitSettle
      BY <1>0, <3>2 DEF PublishRename, PublishPoint, CommitSettle, TypeOK, Control
    <3> QED
      BY <1>5, <3>1, <3>2
  <2> QED
    BY <2>1, <2>2 DEF QueriesQuiet
<1> QED
  BY <1>1, <1>2, <1>3, <1>4, <1>5

\* The scan workers, their timers and the pipe take part in no query.
LEMMA QuietScans ==
  ASSUME BreakPipe \/ \E g \in Gen : ScanStep(g) \/ ScanTimedOut(g)
  PROVE  QueriesQuiet
<1>1. UNCHANGED <<job, reply, ctl, shutdown>> /\ (broken' = broken \/ BreakPipe)
  BY DEF BreakPipe, ScanStep, ScanTimedOut, ScanOpen, ScanFinalize, ScanStops,
     ScanFails, ScanActivate, ScanAnnounce, FinishScan, ScanReport
<1> QED
  BY <1>1 DEF BreakPipe, QueriesQuiet

\* Shutdown drops every queued query without an answer.
LEMMA AnswerShutdown ==
  ASSUME AnswerInv, Shutdown
  PROVE  Replies' /\ Bounded' /\ SupersededAnswered'
<1> USE DEF AnswerInv, AnswerParts
<1>1. \A q \in Query : job'[q].pc = IF q \in Queued THEN "dropped" ELSE job[q].pc
  BY DEF Shutdown, CountInv, TypeOK, Job
<1>2. reply' = reply /\ shutdown' /\ ctl'.pc = "join"
  BY DEF Shutdown, At
<1>3. Replies'
  BY <1>1, <1>2 DEF Replies, Running
<1>4. Bounded'
  <2>1. Outstanding' \subseteq Outstanding
    BY <1>1 DEF Outstanding, Held, Running
  <2>2. Outstanding \in SUBSET Query
    BY DEF Outstanding
  <2>3. /\ Cardinality(Outstanding') <= Cardinality(Outstanding)
        /\ Cardinality(Outstanding') \in Nat /\ Cardinality(Outstanding) \in Nat
    BY <2>1, <2>2, QuerySetSizes
  <2> QED
    BY <2>3, LimitAssumption DEF Bounded
<1>5. SupersededAnswered'
  BY <1>2 DEF SupersededAnswered
<1> QED
  BY <1>3, <1>4, <1>5

\* The dropped searches are told so.
LEMMA AnswerSuperseded ==
  ASSUME AnswerInv, EnqueueDone
  PROVE  Replies' /\ Bounded' /\ SupersededAnswered'
<1> USE DEF AnswerInv, AnswerParts
<1>1. /\ UNCHANGED <<job, shutdown, broken>>
      /\ ctl.pc = "supersede" /\ ctl'.pc \in {"failing", "idle"}
  BY DEF EnqueueDone, At
<1>2. Bounded'
  BY <1>1 DEF Bounded, Outstanding
<1>3. CASE broken
  <2>1. reply' = reply
    BY <1>3 DEF EnqueueDone
  <2> QED
    BY <1>1, <1>2, <1>3, <2>1 DEF Replies, SupersededAnswered
<1>4. CASE ~ broken
  <2>1. \A q \in Query :
          reply'[q] = IF q \in ctl.drop THEN Append(reply[q], "superseded") ELSE reply[q]
    BY <1>4 DEF EnqueueDone, DroppedSearches
  <2>2. \A q \in ctl.drop : q \in Query /\ job[q].pc = "dropped" /\ reply[q] = <<>>
    BY <1>1 DEF Replies, CountInv, TypeOK, Control
  <2>3. Append(<<>>, "superseded") = <<"superseded">> /\ Len(<<"superseded">>) = 1
    OBVIOUS
  <2>4. \A q \in ctl.drop : reply'[q] = <<"superseded">>
    BY <2>1, <2>2, <2>3
  <2>5. Replies'
    <3>1. ASSUME NEW q \in Query PROVE Len(reply'[q]) <= 1
      <4>1. CASE q \in ctl.drop
        <5>1. Len(reply'[q]) = 1
          BY <2>3, <2>4, <4>1
        <5> QED
          BY <5>1
      <4>2. CASE q \notin ctl.drop
        BY <2>1, <4>2 DEF Replies
      <4> QED
        BY <4>1, <4>2
    <3>2. \A q \in Query : job'[q].pc \in {"new", "queued"} \cup Running =>
            reply'[q] = <<>>
      BY <1>1, <2>1, <2>2 DEF Replies, Running
    <3> QED
      BY <1>1, <3>1, <3>2 DEF Replies
  <2>6. SupersededAnswered'
    BY <1>1, <1>4, <2>1, <2>4 DEF SupersededAnswered
  <2> QED
    BY <1>2, <2>5, <2>6
<1> QED
  BY <1>3, <1>4

\* A request over the limit has dropped no search: with one dropped there is
\* room for it.
LEMMA RefusedDropsNothing ==
  ASSUME AnswerInv, NEW q \in Query, ~ HasRoom(q)
  PROVE  Dropped(q) = {}
<1>1. SUFFICES ASSUME NEW p \in Dropped(q) PROVE FALSE
  OBVIOUS
<1> DEFINE S == Outstanding  T == Outstanding \ Dropped(q)
<1>2. p \in S /\ p \notin T /\ S \in SUBSET Query /\ T \in SUBSET S
  BY <1>1 DEF Dropped, Queued, Outstanding, Held
<1>3. /\ Cardinality(S) \in Nat /\ Cardinality(T) \in Nat
      /\ Cardinality(T) <= Cardinality(S)
      /\ Cardinality(T) = Cardinality(S) => T = S
  <2> HIDE DEF S, T
  <2> QED
    BY <1>2, QuerySetSizes
<1>4. Cardinality(S) <= MaxOutstanding /\ ~ (Cardinality(T) < MaxOutstanding)
  BY DEF AnswerInv, AnswerParts, Bounded, HasRoom
<1>5. Cardinality(T) = Cardinality(S)
  <2> HIDE DEF S, T
  <2> QED
    BY <1>3, <1>4, LimitAssumption
<1> QED
  BY <1>2, <1>3, <1>5

\* What a request to query leaves behind: it waits or is refused, and the
\* searches it pushed out are dropped.
LEMMA EnqueueFacts ==
  ASSUME TypeOK, NEW q \in Query, NEW g \in Gen, Enqueue(q, g)
  PROVE  /\ job'[q].pc = IF HasRoom(q) THEN "queued" ELSE "refused"
         /\ \A p \in Query : p # q =>
              job'[p].pc = IF p \in Dropped(q) THEN "dropped" ELSE job[p].pc
         /\ q \notin Dropped(q) /\ q \notin Outstanding
         /\ Dropped(q) \subseteq Queued
         /\ UNCHANGED <<shutdown, broken>>
         /\ ctl.pc = "idle"
BY DEF Enqueue, TypeOK, Job, Dropped, Queued, Outstanding, Held, Running, Accepting

\* A query is accepted or refused.
LEMMA AnswerEnqueue ==
  ASSUME AnswerInv, NEW q \in Query, NEW g \in Gen, Enqueue(q, g)
  PROVE  Replies' /\ Bounded' /\ SupersededAnswered'
<1> USE DEF AnswerInv, AnswerParts
<1> DEFINE D == Dropped(q)
<1>1. /\ \A p \in Query : p # q =>
           job'[p].pc = IF p \in D THEN "dropped" ELSE job[p].pc
      /\ q \notin D /\ q \notin Outstanding /\ D \subseteq Queued
      /\ job[q].pc = "new" /\ ctl.pc = "idle"
      /\ UNCHANGED <<shutdown, broken>>
  <2>1. TypeOK
    BY DEF CountInv
  <2>2. job[q].pc = "new"
    BY DEF Enqueue
  <2> QED
    BY <2>1, <2>2, EnqueueFacts
<1>2. \A p \in D : p \in Query /\ job'[p].pc = "dropped" /\ reply[p] = <<>>
  BY <1>1 DEF Queued, Replies
<1>3. CASE HasRoom(q)
  <2>1. /\ job'[q].pc = "queued" /\ reply' = reply
        /\ ctl'.pc = "supersede" /\ ctl'.drop = D
    BY <1>3, EnqueueFacts DEF CountInv, Enqueue, At
  <2>2. Replies'
    <3>1. \A p \in Query : job'[p].pc \in {"new", "queued"} \cup Running =>
            reply'[p] = <<>>
      BY <1>1, <2>1 DEF Replies, Running
    <3>2. \A p \in ctl'.drop : job'[p].pc = "dropped" /\ reply'[p] = <<>>
      BY <1>2, <2>1
    <3> QED
      BY <2>1, <3>1, <3>2 DEF Replies
  <2>3. Bounded'
    <3> DEFINE S == Outstanding \ D
    <3>1. Outstanding' = S \cup {q}
      <4>1. \A p \in Query : p # q => (p \in Outstanding' <=> p \in S)
        BY <1>1 DEF Outstanding, Held, Running
      <4>2. q \in Outstanding'
        BY <2>1 DEF Outstanding, Held, Running
      <4>3. Outstanding \in SUBSET Query /\ Outstanding' \in SUBSET Query
        BY DEF Outstanding
      <4> QED
        BY <4>1, <4>2, <4>3
    <3>2. q \notin S /\ S \in SUBSET Query
      BY <1>1 DEF Outstanding
    <3>3. IsFiniteSet(S) /\ Cardinality(S) \in Nat
      <4> HIDE DEF S
      <4> QED
        BY <3>2, QuerySetSizes
    <3>4. Cardinality(S \cup {q}) = Cardinality(S) + 1
      <4> HIDE DEF S
      <4> QED
        BY <3>2, <3>3, FS_AddElement
    <3>5. Cardinality(S) < MaxOutstanding
      BY <1>3 DEF HasRoom
    <3> QED
      <4>1. Cardinality(S) + 1 <= MaxOutstanding
        <5> HIDE DEF S
        <5> QED
          BY <3>3, <3>5, LimitAssumption
      <4> QED
        BY <3>1, <3>4, <4>1 DEF Bounded
  <2>4. SupersededAnswered'
    <3>1. ASSUME NEW p \in Query, job'[p].pc = "dropped", ~ shutdown', ~ broken'
          PROVE  \/ ctl'.pc = "supersede" /\ p \in ctl'.drop
                 \/ reply'[p] = <<"superseded">>
      <4>1. p # q
        BY <2>1, <3>1
      <4>2. CASE p \in D
        BY <2>1, <4>2
      <4>3. CASE p \notin D
        <5>1. job[p].pc = "dropped" /\ ~ shutdown /\ ~ broken
          BY <1>1, <3>1, <4>1, <4>3
        <5> QED
          BY <1>1, <2>1, <5>1 DEF SupersededAnswered
      <4> QED
        BY <4>2, <4>3
    <3> QED
      BY <3>1 DEF SupersededAnswered
  <2> QED
    BY <2>2, <2>3, <2>4
<1>4. CASE ~ HasRoom(q)
  <2>1. D = {}
    BY <1>4, RefusedDropsNothing
  <2>2. /\ job'[q].pc = "refused"
        /\ ctl'.pc # "supersede" /\ Say(q, "tooMany")
    <3>1. Return /\ Say(q, "tooMany")
      BY <1>4 DEF Enqueue
    <3> QED
      BY <1>4, <3>1, EnqueueFacts DEF CountInv, Return, At
  <2>3. \A p \in Query : p # q => job'[p].pc = job[p].pc /\ reply'[p] = reply[p]
    <3>1. \A p \in Query : p # q => reply'[p] = reply[p]
      BY <2>2 DEF Say, CountInv, TypeOK
    <3> QED
      BY <1>1, <2>1, <3>1
  <2>4. Len(reply'[q]) <= 1
    <3>1. reply[q] = <<>>
      BY <1>1 DEF Replies
    <3>2. CASE broken
      <4>1. reply'[q] = reply[q]
        BY <2>2, <3>2 DEF Say
      <4> QED
        BY <3>1, <4>1
    <3>3. CASE ~ broken
      <4>1. reply'[q] = Append(<<>>, "tooMany")
        BY <2>2, <3>1, <3>3 DEF Say, CountInv, TypeOK
      <4> QED
        BY <4>1
    <3> QED
      BY <3>2, <3>3
  <2>5. Replies'
    <3>1. \A p \in Query : Len(reply'[p]) <= 1
      BY <2>3, <2>4 DEF Replies
    <3>2. \A p \in Query : job'[p].pc \in {"new", "queued"} \cup Running =>
            reply'[p] = <<>>
      BY <2>2, <2>3 DEF Replies, Running
    <3> QED
      BY <2>2, <3>1, <3>2 DEF Replies
  <2>6. Bounded'
    <3>1. Outstanding' = Outstanding
      <4>1. \A p \in Query : p # q => (p \in Outstanding' <=> p \in Outstanding)
        BY <2>3 DEF Outstanding, Held, Running
      <4>2. q \notin Outstanding' /\ q \notin Outstanding
        BY <1>1, <2>2 DEF Outstanding, Held, Running
      <4>3. Outstanding \in SUBSET Query /\ Outstanding' \in SUBSET Query
        BY DEF Outstanding
      <4> QED
        BY <4>1, <4>2, <4>3
    <3> QED
      BY <3>1 DEF Bounded
  <2>7. SupersededAnswered'
    BY <1>1, <2>2, <2>3 DEF SupersededAnswered
  <2> QED
    BY <2>5, <2>6, <2>7
<1> QED
  BY <1>3, <1>4

-----------------------------------------------------------------------------
(* Scans.                                                                  *)

\* A scan that is told something.
LEMMA NoticeTold ==
  ASSUME TypeOK, Notices, NEW g \in Gen, NEW message \in Notice, Tell(g, message)
  PROVE  /\ \A h \in Gen : h # g => notice'[h] = notice[h]
         /\ broken => notice' = notice
         /\ ~ broken => notice'[g] = Append(notice[g], message)
BY DEF Tell, TypeOK

\* A scan's outcome is told once, by its last step.
LEMMA NoticesScan ==
  ASSUME TypeOK, Notices, NEW g \in Gen, ScanAnnounce(g) \/ ScanReport(g)
  PROVE  Notices'
<1>1. PICK message \in Notice \ {"scanStarted"} : Tell(g, message)
  BY DEF ScanAnnounce, ScanReport, Notice
<1>2. /\ \A h \in Gen : h # g => scan'[h] = scan[h]
      /\ scan'[g].pc \in {"failed", "done"} /\ (~ broken => scan'[g].pc = "done")
      /\ scan[g].pc \in {"announce", "scanFailed", "scanCancelled"}
  <2>1. scan[g] \in Scan
    BY DEF TypeOK
  <2> QED
    BY <2>1 DEF ScanAnnounce, ScanReport, TypeOK, Scan
<1>3. /\ \A h \in Gen : h # g => notice'[h] = notice[h]
      /\ broken => notice' = notice
      /\ ~ broken => notice'[g] = Append(notice[g], message)
  BY <1>1, NoticeTold
<1>4. /\ notice[g] \in Seq(Notice) /\ Len(notice[g]) = 1
      /\ notice[g][1] = "scanStarted"
  BY <1>2 DEF Notices, TypeOK
<1>5. /\ Len(Append(notice[g], message)) = 2
      /\ Append(notice[g], message)[1] = "scanStarted"
      /\ Append(notice[g], message)[2] = message
  BY <1>4
<1>6. /\ Len(notice'[g]) \in {1, 2} /\ notice'[g][1] = "scanStarted"
      /\ Len(notice'[g]) = 2 =>
           scan'[g].pc = "done" /\ notice'[g][2] # "scanStarted"
  <2>1. CASE broken
    BY <1>3, <1>4, <2>1
  <2>2. CASE ~ broken
    <3>1. message # "scanStarted"
      BY <1>1
    <3> QED
      BY <1>2, <1>3, <1>5, <2>2, <3>1
  <2> QED
    BY <2>1, <2>2
<1> QED
  BY <1>2, <1>3, <1>6 DEF Notices

\* Nothing is told by a step that starts no worker and ends no scan.
NoticesQuiet ==
  /\ UNCHANGED notice
  /\ \A g \in Gen :
       /\ scan'[g].pc \in {"none", "created"} <=> scan[g].pc \in {"none", "created"}
       /\ scan[g].pc = "done" => scan'[g].pc = "done"

\* Such a step keeps what has been told in order.
LEMMA NoticesFrame == Notices /\ NoticesQuiet => Notices'
BY DEF Notices, NoticesQuiet

\* A scan is accepted, and its worker is started.
LEMMA NoticesStart ==
  ASSUME CountInv, Notices,
         ScanLaunch \/ \E r \in Root, g \in Gen : ScanStart(r, g)
  PROVE  Notices'
<1>1. ASSUME NEW r \in Root, NEW g \in Gen, ScanStart(r, g) PROVE Notices'
  <2>1. /\ \A h \in Gen : h # g => scan'[h] = scan[h]
        /\ scan'[g].pc = "created"
    BY <1>1 DEF ScanStart, CountInv, TypeOK, Scan
  <2>2. scan[g].pc = "none" /\ notice' = notice
    BY <1>1 DEF ScanStart, Unissued, CountInv, Provenance, UnissuedUnused
  <2> QED
    BY <2>1, <2>2 DEF Notices
<1>2. CASE ScanLaunch
  <2> DEFINE g == ctl.gen
  <2>1. g \in Gen /\ scan[g].pc = "created" /\ scan[g] \in Scan
    BY <1>2 DEF ScanLaunch, CountInv, TypeOK, LocalsOK, Provenance, LaunchedOnce
  <2>2. notice[g] = <<>> /\ Tell(g, "scanStarted") /\ "scanStarted" \in Notice
    BY <1>2, <2>1 DEF ScanLaunch, Notices, Notice
  <2>3. scan' = [scan EXCEPT ![g].pc = IF broken THEN "created" ELSE "started"]
    BY <1>2 DEF ScanLaunch
  <2> HIDE DEF g
  <2>4. /\ \A h \in Gen : h # g => notice'[h] = notice[h]
        /\ broken => notice' = notice
        /\ ~ broken => notice'[g] = Append(notice[g], "scanStarted")
    BY <2>1, <2>2, NoticeTold DEF CountInv
  <2>5. /\ \A h \in Gen : h # g => scan'[h] = scan[h]
        /\ scan'[g].pc = IF broken THEN "created" ELSE "started"
    BY <2>1, <2>3 DEF CountInv, TypeOK, Scan
  <2>6. Len(Append(<<>>, "scanStarted")) = 1 /\ Append(<<>>, "scanStarted")[1] = "scanStarted"
    OBVIOUS
  <2>7. ASSUME NEW h \in Gen, h # g
        PROVE  notice'[h] = notice[h] /\ scan'[h] = scan[h]
    BY <2>4, <2>5, <2>7
  <2>8. CASE broken
    BY <2>1, <2>2, <2>4, <2>5, <2>7, <2>8 DEF Notices
  <2>9. CASE ~ broken
    <3>1. scan'[g].pc = "started" /\ Len(notice'[g]) = 1 /\ notice'[g][1] = "scanStarted"
      BY <2>1, <2>2, <2>4, <2>5, <2>6, <2>9
    <3> QED
      BY <2>7, <3>1 DEF Notices
  <2> QED
    BY <2>8, <2>9
<1> QED
  BY <1>1, <1>2

\* The other steps of a worker, its timer, a cancellation and shutdown.
LEMMA NoticesWorker ==
  ASSUME TypeOK, Notices,
         \/ Shutdown
         \/ \E g \in Gen :
              \/ ScanOpen(g) \/ ScanFinalize(g) \/ ScanStops(g) \/ ScanFails(g)
              \/ ScanActivate(g) \/ FinishScan(g) \/ ScanTimedOut(g) \/ ScanCancel(g)
  PROVE  Notices'
<1>1. CASE Shutdown
  <2>1. UNCHANGED notice /\ \A g \in Gen : scan'[g].pc = scan[g].pc
    BY <1>1 DEF Shutdown, TypeOK, Scan
  <2> QED
    BY <2>1, NoticesFrame DEF NoticesQuiet
<1>2. ASSUME NEW g \in Gen, ScanTimedOut(g) \/ ScanCancel(g) PROVE Notices'
  <2>1. UNCHANGED notice /\ \A h \in Gen : scan'[h].pc = scan[h].pc
    <3>1. CASE ScanTimedOut(g)
      BY <3>1 DEF ScanTimedOut, TypeOK, Scan
    <3>2. CASE ScanCancel(g)
      BY <3>2 DEF ScanCancel, TypeOK, Scan
    <3> QED
      BY <1>2, <3>1, <3>2
  <2> QED
    BY <2>1, NoticesFrame DEF NoticesQuiet
<1>3. ASSUME NEW g \in Gen,
             \/ ScanOpen(g) \/ ScanFinalize(g) \/ ScanStops(g) \/ ScanFails(g)
             \/ ScanActivate(g) \/ FinishScan(g)
      PROVE  Notices'
  <2>1. /\ UNCHANGED notice
        /\ scan[g].pc \notin {"none", "created", "done"}
        /\ \E pc \in ScanPc \ {"none", "created"} : scan' = [scan EXCEPT ![g].pc = pc]
    <3>1. CASE ScanOpen(g) \/ ScanFinalize(g) \/ ScanStops(g) \/ ScanFails(g)
      BY <3>1 DEF ScanOpen, ScanFinalize, ScanStops, ScanFails, ScanPc
    <3>2. CASE ScanActivate(g)
      BY <3>2 DEF ScanActivate, ScanPc
    <3>3. CASE FinishScan(g)
      BY <3>3 DEF FinishScan, OutcomeOf, ScanPc
    <3> QED
      BY <1>3, <3>1, <3>2, <3>3
  <2>2. \A h \in Gen : /\ h # g => scan'[h].pc = scan[h].pc
                       /\ scan'[g].pc \notin {"none", "created"}
    BY <2>1 DEF TypeOK, Scan
  <2> QED
    BY <2>1, <2>2, NoticesFrame DEF NoticesQuiet
<1> QED
  BY <1>1, <1>2, <1>3

\* The steps in which no scan moves.
LEMMA NoticesRest ==
  ASSUME Notices,
         \/ SnapshotLoad \/ SnapshotAdoptFails \/ EnqueueDone
         \/ PublishRename \/ PublishPoint \/ PublishFails \/ CommitSettle
         \/ CommitDelete \/ AbortDelete \/ ShutdownJoin \/ ShutdownClose
         \/ ShutdownDelete \/ QueryStep \/ BreakPipe
         \/ \E r \in Root : SnapshotOpen(r)
         \/ \E g \in Gen : CommitStart(g) \/ Abort(g) \/ SnapshotAdopt(g)
         \/ \E q \in Query, g \in Gen : Enqueue(q, g)
  PROVE  Notices'
<1>1. UNCHANGED <<scan, notice>>
  <2>1. CASE SnapshotLoad \/ SnapshotAdoptFails \/ EnqueueDone \/ BreakPipe
             \/ (\E r \in Root : SnapshotOpen(r)) \/ \E g \in Gen : SnapshotAdopt(g)
    BY <2>1 DEF SnapshotLoad, SnapshotAdoptFails, EnqueueDone, BreakPipe,
       SnapshotOpen, SnapshotAdopt
  <2>2. CASE PublishRename \/ PublishPoint \/ PublishFails \/ CommitSettle
             \/ CommitDelete \/ \E g \in Gen : CommitStart(g)
    BY <2>2 DEF PublishRename, PublishPoint, PublishFails, CommitSettle,
       CommitDelete, CommitStart
  <2>3. CASE AbortDelete \/ ShutdownJoin \/ ShutdownClose \/ ShutdownDelete
             \/ \E g \in Gen : Abort(g)
    BY <2>3 DEF AbortDelete, ShutdownJoin, ShutdownClose, ShutdownDelete, Abort
  <2>4. CASE QueryStep
    BY <2>4 DEF QueryStep, Take, RunStep, Look, Open, Execute, Fail, Finish, QueryExit
  <2>5. CASE \E q \in Query, g \in Gen : Enqueue(q, g)
    BY <2>5 DEF Enqueue
  <2> QED
    BY <2>1, <2>2, <2>3, <2>4, <2>5
<1> QED
  BY <1>1, NoticesFrame DEF NoticesQuiet

-----------------------------------------------------------------------------
(* The theorems.                                                           *)

\* A process that just started has said nothing.
LEMMA AnswerInit ==
  ASSUME ctl = At("idle"), job = NoJobs, reply = NoReplies,
         scan = NoScans, notice = NoNotices
  PROVE  AnswerParts
<1>1. Outstanding = {}
  BY DEF Outstanding, NoJobs, Held, Running
<1>2. Bounded
  BY <1>1, FS_EmptySet, LimitAssumption DEF Bounded
<1>3. Replies
  BY DEF Replies, NoReplies, At
<1>4. Notices
  BY DEF Notices, NoNotices, NoScans
<1>5. SupersededAnswered
  BY DEF SupersededAnswered, NoJobs
<1> QED
  BY <1>2, <1>3, <1>4, <1>5 DEF AnswerParts

\* Every step preserves what has been said so far.
LEMMA AnswerNext == AnswerInv /\ [Next]_vars => AnswerParts'
<1> SUFFICES ASSUME AnswerInv, [Next]_vars PROVE AnswerParts'
  OBVIOUS
<1>0. TypeOK /\ CountInv /\ Notices
  BY DEF AnswerInv, AnswerParts, CountInv
<1>1. CASE Request
  <2>1. CASE \E q \in Query, g \in Gen : Enqueue(q, g)
    BY <1>0, <2>1, AnswerEnqueue, NoticesRest DEF AnswerParts
  <2>2. CASE \/ \E r \in Root, g \in Gen : ScanStart(r, g)
             \/ \E r \in Root : SnapshotOpen(r)
             \/ \E g \in Gen : ScanCancel(g) \/ CommitStart(g) \/ Abort(g)
    <3>1. Notices'
      BY <1>0, <2>2, NoticesStart, NoticesWorker, NoticesRest
    <3>2. QueriesQuiet
      BY <1>0, <2>2, QuietControl
    <3> QED
      BY <3>1, <3>2, QueriesFrame DEF AnswerParts
  <2> QED
    BY <1>1, <2>1, <2>2 DEF Request
<1>2. CASE Shutdown
  BY <1>0, <1>2, AnswerShutdown, NoticesWorker DEF AnswerParts
<1>3. CASE Continue
  <2>1. CASE EnqueueDone
    BY <1>0, <2>1, AnswerSuperseded, NoticesRest DEF AnswerParts
  <2>2. CASE Continue /\ ~ EnqueueDone
    <3>1. QueriesQuiet
      BY <1>0, <2>2, QuietControl DEF Continue
    <3>2. Notices'
      BY <1>0, <2>2, NoticesStart, NoticesRest DEF Continue
    <3> QED
      BY <3>1, <3>2, QueriesFrame DEF AnswerParts
  <2> QED
    BY <1>3, <2>1, <2>2
<1>4. CASE QueryStep
  BY <1>0, <1>4, AnswerQuery, NoticesRest DEF AnswerParts
<1>5. ASSUME NEW g \in Gen, ScanStep(g) \/ ScanTimedOut(g) PROVE AnswerParts'
  <2>1. Notices'
    BY <1>0, <1>5, NoticesScan, NoticesWorker DEF ScanStep
  <2> QED
    BY <1>5, <2>1, QuietScans, QueriesFrame DEF AnswerParts
<1>6. CASE BreakPipe
  BY <1>0, <1>6, QuietScans, QueriesFrame, NoticesRest DEF AnswerParts
<1>7. CASE Restart
  <2>1. /\ ctl' = At("idle") /\ job' = NoJobs /\ reply' = NoReplies
        /\ scan' = NoScans /\ notice' = NoNotices
    BY <1>7 DEF Restart
  <2>2. Outstanding' = {}
    BY <2>1 DEF Outstanding, NoJobs, Held, Running
  <2>3. Bounded'
    BY <2>2, FS_EmptySet, LimitAssumption DEF Bounded
  <2>4. Replies' /\ SupersededAnswered'
    BY <2>1 DEF Replies, NoReplies, SupersededAnswered, NoJobs, At
  <2>5. Notices'
    BY <2>1 DEF Notices, NoNotices, NoScans
  <2> QED
    BY <2>3, <2>4, <2>5 DEF AnswerParts
<1>8. CASE UNCHANGED vars
  BY <1>0, <1>8, QueriesFrame, NoticesFrame
     DEF vars, memory, QueriesQuiet, NoticesQuiet, AnswerParts
<1> QED
  BY <1>1, <1>2, <1>3, <1>4, <1>5, <1>6, <1>7, <1>8 DEF Next

\* The answers are inductive together with the counts.
LEMMA AnswerInductive == Spec => []AnswerInv
<1>1. Init => AnswerInv
  <2> SUFFICES ASSUME Init PROVE AnswerInv
    OBVIOUS
  <2>1. CountInv
    BY TypeInit, CountInit DEF CountInv
  <2>2. AnswerParts
    BY AnswerInit DEF Init
  <2> QED
    BY <2>1, <2>2 DEF AnswerInv
<1>2. AnswerInv /\ [Next]_vars => AnswerInv'
  BY TypeNext, CountNext, AnswerNext DEF AnswerInv, CountInv
<1> QED
  BY <1>1, <1>2, PTL DEF Spec

\* No request is answered twice: a query gets one message, a scan at most its
\* scanStarted and then one outcome, in whatever order the query thread, the
\* control thread and the workers write them.
THEOREM AnswersCorrect == Spec => []AnsweredOnce
<1>1. AnswerInv => AnsweredOnce
  <2> SUFFICES ASSUME AnswerInv PROVE AnsweredOnce
    OBVIOUS
  <2>1. ASSUME NEW g \in Gen
        PROVE  Len(notice[g]) <= 2 /\
                 \A i \in 1..Len(notice[g]) : notice[g][i] = "scanStarted" <=> i = 1
    <3>1. CASE notice[g] = <<>>
      BY <3>1
    <3>2. CASE notice[g] # <<>>
      <4>1. /\ Len(notice[g]) \in {1, 2} /\ notice[g][1] = "scanStarted"
            /\ Len(notice[g]) = 2 => notice[g][2] # "scanStarted"
        BY <3>2 DEF AnswerInv, AnswerParts, Notices
      <4>2. CASE Len(notice[g]) = 1
        <5>1. \A i \in 1..1 : i = 1
          OBVIOUS
        <5> QED
          BY <4>1, <4>2, <5>1
      <4>3. CASE Len(notice[g]) = 2
        <5>1. \A i \in 1..2 : i = 1 \/ i = 2
          OBVIOUS
        <5> QED
          BY <4>1, <4>3, <5>1
      <4> QED
        BY <4>1, <4>2, <4>3
    <3> QED
      BY <3>1, <3>2
  <2> QED
    BY <2>1 DEF AnswerInv, AnswerParts, Replies, AnsweredOnce
<1> QED
  BY <1>1, AnswerInductive, PTL

\* A search that a newer one pushed out of the queue is answered "superseded"
\* before the next request is read, unless the broker is going down: a search
\* is dropped only by a request that then finds room.
THEOREM SupersededCorrect == Spec => []SupersededAnswered
<1>1. AnswerInv => SupersededAnswered
  BY DEF AnswerInv, AnswerParts
<1> QED
  BY <1>1, AnswerInductive, PTL

-----------------------------------------------------------------------------
(* The inductive invariant. A pointer is written once a database is at its *)
(* final path, and a database is removed only when no pointer names it any *)
(* more. The first rests on PublishedOnce: a database that is being        *)
(* written, or that no commit has published, is named by nothing. The      *)
(* second rests on what the two current generations and the locals of the  *)
(* commit in progress say about the pointer of their target.               *)

\* No commit has published the database of this id.
Unpublished(g) ==
  \/ rootOf[g] = None
  \/ scan[g].pc \in Unactivated
  \/ gen[g].file # None /\ ~ gen[g].persistent

\* A pointer, or a generation opened from one, names the file.
Published(f) ==
  \/ \E r \in Root : pointer[r] = f
  \/ \E h \in Gen : gen[h].persistent /\ gen[h].file = f

OwnFiles ==
  \A g \in Gen : gen[g].file # None /\ ~ gen[g].persistent =>
    gen[g].file = g /\ gen[g].place = "work"

PublishedOnce == \A g \in Gen : Unpublished(g) => ~ Published(g)

FilesOfTarget ==
  \A g \in Gen : gen[g].file # None => rootOf[gen[g].file] = rootOf[g]

\* What is doomed is retired, what is retired is not current, and a doomed
\* database that was published has been replaced.
Retirement ==
  /\ \A g \in Gen : gen[g].doomed => gen[g].retired
  /\ \A g \in {active, previous} : g # None => ~ gen[g].retired
  /\ \A g \in Gen : gen[g].persistent /\ gen[g].doomed =>
       gen[g].file # None /\ \A r \in Root : pointer[r] # gen[g].file

\* No scan runs while an activation is unsettled.
OneUnsettled ==
  /\ staging # None => previous = None
  /\ previous # None => active # None /\ active # previous

\* A current generation that is published is the latest of its target, except
\* for the previous one between the new pointer and the settlement.
CurrentStored ==
  \A g \in {active} \cup (IF ctl.pc = "settle" THEN {} ELSE {previous}) :
    g # None /\ gen[g].persistent => pointer[rootOf[g]] = gen[g].file

TwoTargets ==
  ctl.pc # "settle" /\ active # None /\ previous # None
    /\ gen[active].persistent /\ gen[previous].persistent
      => rootOf[active] # rootOf[previous]

\* What the locals of snapshotOpen say about the shared state.
Opening ==
  ctl.pc \in {"load", "adopt"} =>
    /\ staging = None
    /\ active # None /\ gen[active].persistent => rootOf[active] # ctl.root
    /\ ctl.pc = "adopt" => pointer[ctl.root] = ctl.file

\* What the locals of activationCommit say about it: a worker may activate its
\* scan meanwhile, but only if there was no previous generation.
Committing ==
  ctl.pc \in {"publish", "point", "settle"} =>
    /\ active = ctl.gen \/ (/\ ctl.prev = None /\ previous = ctl.gen
                            /\ active # None /\ ~ gen[active].persistent)
    /\ ctl.prev # None => active = ctl.gen /\ previous = ctl.prev
    /\ gen[ctl.gen].persistent <=> ctl.pc = "settle"
    /\ ctl.pc = "point" => disk[ctl.gen] = "final"
    /\ /\ ctl.pc = "settle" /\ ctl.prev # None
       /\ gen[ctl.prev].persistent
       => gen[ctl.prev].file # gen[ctl.gen].file

StoreParts ==
  /\ PointersValid /\ OwnFiles /\ PublishedOnce /\ FilesOfTarget /\ Retirement
  /\ OneUnsettled /\ CurrentStored /\ TwoTargets /\ Opening /\ Committing

StoreInv == CountInv /\ StoreParts
-----------------------------------------------------------------------------
(* Steps that leave the generations and the pointers alone.                *)

GenerationsKept ==
  \A g \in Gen : /\ gen'[g].file = gen[g].file
                 /\ gen'[g].place = gen[g].place
                 /\ gen'[g].persistent = gen[g].persistent
                 /\ gen'[g].retired = gen[g].retired
                 /\ gen'[g].doomed = gen[g].doomed

\* A published database, or one about to be, stays complete.
FinalKept ==
  \A f \in Gen : /\ disk[f] = "final"
                 /\ \/ \E r \in Root : pointer[r] = f
                    \/ ctl'.pc = "point" /\ ctl'.gen = f
                 => disk'[f] = "final"

NoScanBegins ==
  /\ staging' \in {staging, None}
  /\ \A g \in Gen : scan'[g].pc \in Unactivated => scan[g].pc \in Unactivated

\* The handlers of snapshotOpen and activationCommit stay or end.
HandlersKept ==
  ctl' = ctl \/ /\ ctl.pc # "settle"
                /\ ctl'.pc \notin {"load", "adopt", "publish", "point", "settle"}

StoreKept ==
  /\ GenerationsKept /\ FinalKept /\ NoScanBegins /\ HandlersKept
  /\ UNCHANGED <<pointer, rootOf, active, previous>>

\* A step that keeps all this keeps the invariant of the stored snapshots.
LEMMA StoreFrame ==
  ASSUME StoreInv, StoreKept
  PROVE  StoreParts'
<1> USE DEF StoreInv, StoreParts, StoreKept
<1>1. PointersValid'
  BY DEF PointersValid, FinalKept, CountInv, TypeOK
<1>2. OwnFiles' /\ FilesOfTarget'
  BY DEF OwnFiles, FilesOfTarget, GenerationsKept
<1>3. PublishedOnce'
  BY DEF PublishedOnce, Unpublished, Published, GenerationsKept, NoScanBegins
<1>4. Retirement'
  <2>1. active \in Gen \cup {None} /\ previous \in Gen \cup {None}
        /\ pointer \in [Root -> Gen \cup {None}]
    BY DEF CountInv, TypeOK
  <2> QED
    BY <2>1 DEF Retirement, GenerationsKept
<1>5. OneUnsettled'
  BY DEF OneUnsettled, NoScanBegins
<1>6. CurrentStored' /\ TwoTargets'
  BY DEF CurrentStored, TwoTargets, GenerationsKept, HandlersKept, CountInv, TypeOK
<1>7. Opening'
  BY DEF Opening, HandlersKept, NoScanBegins, GenerationsKept, CountInv, TypeOK
<1>8. Committing'
  BY DEF Committing, HandlersKept, GenerationsKept, FinalKept, CountInv, TypeOK,
     LocalsOK, Control
<1> QED
  BY <1>1, <1>2, <1>3, <1>4, <1>5, <1>6, <1>7, <1>8

\* Deleting a database that no commit has published, or a doomed one, removes
\* none that a pointer names or is about to.
LEMMA DeletionKeepsFinal ==
  ASSUME StoreInv, NEW p \in Gen, gen[p].persistent => gen[p].doomed,
         NEW d \in [Gen -> FileState], NEW f \in Gen, d[f] = "final",
         \/ \E r \in Root : pointer[r] = f
         \/ ctl.pc = "point" /\ ctl.gen = f
  PROVE  Without(d, p)[f] = "final"
<1> USE DEF StoreInv, StoreParts
<1>1. CASE gen[p].file = None \/ d[gen[p].file] # gen[p].place
  BY <1>1 DEF Without
<1>2. CASE gen[p].file # None /\ ~ gen[p].persistent
  BY <1>2 DEF Without, OwnFiles
<1>3. CASE gen[p].file # None /\ gen[p].persistent
  <2>1. gen[p].file # f
    <3>1. CASE \E r \in Root : pointer[r] = f
      BY <1>3, <3>1 DEF Retirement
    <3>2. CASE ctl.pc = "point" /\ ctl.gen = f
      <4>1. gen[f].file # None /\ ~ gen[f].persistent
        <5>1. f \in {active, previous} /\ f # None
          BY <3>2, NoneAssumption DEF Committing
        <5> QED
          BY <3>2, <5>1 DEF Committing, CountInv, Provenance, CurrentHaveFiles
      <4> QED
        BY <1>3, <4>1 DEF PublishedOnce, Unpublished, Published
    <3> QED
      BY <3>1, <3>2
  <2> QED
    BY <2>1 DEF Without
<1> QED
  BY <1>1, <1>2, <1>3

\* The control thread's steps among them.
LEMMA StoreControl ==
  ASSUME StoreInv,
         \/ ScanLaunch \/ SnapshotAdoptFails \/ EnqueueDone \/ PublishFails
         \/ CommitDelete \/ AbortDelete \/ Shutdown \/ ShutdownJoin
         \/ ShutdownDelete
         \/ \E g \in Gen : ScanCancel(g)
         \/ \E q \in Query, g \in Gen : Enqueue(q, g)
  PROVE  StoreParts'
<1> USE DEF StoreInv
<1>1. UNCHANGED <<pointer, rootOf, active, previous, staging>>
  BY DEF ScanLaunch, SnapshotAdoptFails, EnqueueDone, PublishFails,
     CommitDelete, AbortDelete, Shutdown, ShutdownJoin, ShutdownDelete,
     ScanCancel, Enqueue
<1>2. GenerationsKept
  <2>1. CASE Shutdown
    <3>1. \A g \in Gen : gen[g] \in Generation
      BY DEF CountInv, TypeOK
    <3> QED
      BY <2>1, <3>1 DEF Shutdown, GenerationsKept, Generation
  <2>3. ASSUME NEW q \in Query, NEW g \in Gen, Enqueue(q, g)
        PROVE  GenerationsKept
    <3> SUFFICES ASSUME NEW h \in Gen
                 PROVE  /\ gen'[h].file = gen[h].file
                        /\ gen'[h].place = gen[h].place
                        /\ gen'[h].persistent = gen[h].persistent
                        /\ gen'[h].retired = gen[h].retired
                        /\ gen'[h].doomed = gen[h].doomed
      BY DEF GenerationsKept
    <3>1. PICK n : gen'[h] = [gen[h] EXCEPT !.refs = n]
      BY <2>3 DEF Enqueue
    <3>2. gen[h] \in Generation
      BY DEF CountInv, TypeOK
    <3> QED
      BY <3>1, <3>2 DEF Generation
  <2>2. CASE UNCHANGED gen
    BY <2>2 DEF GenerationsKept
  <2> QED
    BY <2>1, <2>2, <2>3 DEF ScanLaunch, SnapshotAdoptFails, EnqueueDone,
       PublishFails, CommitDelete, AbortDelete, ShutdownJoin, ShutdownDelete,
       ScanCancel
<1>3. NoScanBegins
  <2>1. \A g \in Gen : scan'[g].pc \in Unactivated => scan[g].pc \in Unactivated
    <3>1. CASE ScanLaunch
      <4>1. scan[ctl.gen].pc \in Unactivated
        BY <3>1 DEF ScanLaunch, CountInv, Provenance, LaunchedOnce, Unactivated
      <4> QED
        BY <3>1, <4>1 DEF ScanLaunch, CountInv, TypeOK, Scan
    <3>2. CASE Shutdown
      BY <3>2 DEF Shutdown, CountInv, TypeOK, Scan
    <3>3. CASE \E g \in Gen : ScanCancel(g)
      BY <3>3 DEF ScanCancel, CountInv, TypeOK, Scan
    <3>4. CASE UNCHANGED scan
      BY <3>4
    <3> QED
      BY <3>1, <3>2, <3>3, <3>4 DEF SnapshotAdoptFails, EnqueueDone, PublishFails,
         CommitDelete, AbortDelete, ShutdownJoin, ShutdownDelete, Enqueue
  <2> QED
    BY <1>1, <2>1 DEF NoScanBegins
<1>4. /\ ctl.pc # "settle"
      /\ ctl'.pc \notin {"load", "adopt", "publish", "point", "settle"}
  <2>0. \A pc : At(pc).pc = pc
    BY DEF At
  <2>1. CASE ScanLaunch \/ SnapshotAdoptFails \/ PublishFails \/ CommitDelete
             \/ AbortDelete \/ \E g \in Gen : ScanCancel(g)
    BY <2>0, <2>1 DEF ScanLaunch, SnapshotAdoptFails, PublishFails,
       CommitDelete, AbortDelete, ScanCancel, Return, Accepting
  <2>2. CASE ShutdownJoin \/ ShutdownDelete \/ EnqueueDone
    BY <2>0, <2>2 DEF ShutdownJoin, ShutdownDelete, EnqueueDone
  <2>4. CASE Shutdown
    BY <2>4 DEF Shutdown, Accepting, At
  <2>3. ASSUME NEW q \in Query, NEW g \in Gen, Enqueue(q, g)
        PROVE  /\ ctl.pc = "idle"
               /\ ctl'.pc \notin {"load", "adopt", "publish", "point", "settle"}
    <3>0. ctl.pc = "idle"
      BY <2>3 DEF Enqueue, Accepting
    <3>1. CASE HasRoom(q)
      <4>1. ctl' = [At("supersede") EXCEPT !.drop = Dropped(q)]
        BY <2>3, <3>1 DEF Enqueue
      <4> QED
        BY <3>0, <4>1 DEF At
    <3>2. CASE ~ HasRoom(q)
      <4>1. ctl.pc = "idle" /\ Return
        BY <2>3, <3>2 DEF Enqueue, Accepting
      <4> QED
        BY <2>0, <4>1 DEF Return
    <3> QED
      BY <3>1, <3>2
  <2> QED
    BY <2>1, <2>2, <2>3, <2>4
<1>5. FinalKept
  <2>1. CASE UNCHANGED disk
    BY <2>1 DEF FinalKept
  <2>2. CASE PublishFails
    <3>1. /\ ctl.pc = "point" /\ ctl.gen \in Gen
          /\ gen[ctl.gen].file = ctl.gen /\ ~ gen[ctl.gen].persistent
      <4>1. ctl.pc = "point" /\ ctl.gen \in Gen
        BY <2>2 DEF PublishFails, CountInv, TypeOK, LocalsOK
      <4>2. ctl.gen \in {active, previous} /\ ~ gen[ctl.gen].persistent
        BY <4>1 DEF StoreParts, Committing
      <4> QED
        BY <4>1, <4>2, NoneAssumption DEF StoreParts, OwnFiles, CountInv,
           Provenance, CurrentHaveFiles
    <3>2. \A r \in Root : pointer[r] # ctl.gen
      BY <3>1, NoneAssumption DEF StoreParts, PublishedOnce, Unpublished, Published
    <3> QED
      BY <1>4, <2>2, <3>1, <3>2 DEF PublishFails, FinalKept, CountInv, TypeOK
  <2>3. ASSUME NEW p \in Gen, gen[p].persistent => gen[p].doomed,
               disk' = Without(disk, p)
        PROVE  FinalKept
    BY <1>4, <2>3, DeletionKeepsFinal DEF FinalKept, CountInv, TypeOK
  <2>4. CASE CommitDelete \/ AbortDelete
    BY <2>1, <2>3, <2>4 DEF CommitDelete, AbortDelete, CountInv, TypeOK, LocalsOK
  <2>5. CASE ShutdownDelete
    <3> DEFINE gone(d, g) == IF g # None /\ Unreferenced(g) /\ ~ gen[g].persistent
                             THEN Without(d, g) ELSE d
    <3>1. ASSUME NEW d \in [Gen -> FileState], NEW g \in Gen \cup {None}
          PROVE  /\ gone(d, g) \in [Gen -> FileState]
                 /\ \A f \in Gen : d[f] = "final" /\ (\E r \in Root : pointer[r] = f)
                      => gone(d, g)[f] = "final"
      BY TypeWithout, DeletionKeepsFinal
    <3>2. /\ disk' = gone(gone(disk, ctl.gen), ctl.prev)
          /\ ctl.gen \in Gen \cup {None} /\ ctl.prev \in Gen \cup {None}
          /\ disk \in [Gen -> FileState]
      BY <2>5 DEF ShutdownDelete, CountInv, TypeOK, Control
    <3> HIDE DEF gone
    <3> QED
      BY <1>4, <3>1, <3>2 DEF FinalKept
  <2> QED
    BY <2>1, <2>2, <2>4, <2>5 DEF ScanLaunch, SnapshotAdoptFails, EnqueueDone,
       Shutdown, ShutdownJoin, ScanCancel, Enqueue
<1> QED
  BY <1>1, <1>2, <1>3, <1>4, <1>5, StoreFrame DEF StoreKept, HandlersKept

\* A query that is settled deletes a database only if it is doomed.
LEMMA StoreQuery ==
  ASSUME StoreInv, QueryStep
  PROVE  StoreParts'
<1> USE DEF StoreInv
<1>1. UNCHANGED <<pointer, rootOf, active, previous, staging, scan, ctl>>
  BY DEF QueryStep, Take, RunStep, Look, Open, Execute, Fail, Finish, QueryExit
<1>2. NoScanBegins /\ HandlersKept
  BY <1>1 DEF NoScanBegins, HandlersKept
<1>3. ASSUME NEW q \in Query, Finish(q) PROVE GenerationsKept /\ FinalKept
  <2>1. job[q].gen \in Gen
    BY <1>3 DEF Finish, Outstanding, Held, CountInv, Provenance, QueriedHaveFiles
  <2>2. GenerationsKept
    BY <1>3, <2>1 DEF Finish, GenerationsKept, CountInv, TypeOK, Generation
  <2>3. FinalKept
    <3>1. CASE LastReference(job[q].gen)
      <4>1. disk' = Without(disk, job[q].gen) /\ gen[job[q].gen].doomed
        BY <1>3, <3>1 DEF Finish, LastReference
      <4> QED
        BY <1>1, <2>1, <4>1, DeletionKeepsFinal DEF FinalKept, CountInv, TypeOK
    <3>2. CASE ~ LastReference(job[q].gen)
      BY <1>3, <3>2 DEF Finish, FinalKept
    <3> QED
      BY <3>1, <3>2
  <2> QED
    BY <2>2, <2>3
<1>4. (QueryExit \/ \E q \in Query : Take(q) \/ RunStep(q))
        => GenerationsKept /\ FinalKept
  BY DEF QueryExit, Take, RunStep, Look, Open, Execute, Fail, GenerationsKept, FinalKept
<1> QED
  BY <1>1, <1>2, <1>3, <1>4, StoreFrame DEF StoreKept, QueryStep

\* A scan writes and clears its own file only, which no pointer names yet.
LEMMA StoreScan ==
  ASSUME StoreInv, NEW g \in Gen,
         \/ ScanOpen(g) \/ ScanFinalize(g) \/ ScanStops(g) \/ ScanFails(g)
         \/ ScanAnnounce(g) \/ FinishScan(g) \/ ScanReport(g) \/ ScanTimedOut(g)
  PROVE  StoreParts'
<1> USE DEF StoreInv
<1>1. /\ UNCHANGED <<pointer, rootOf, gen, active, previous, ctl>>
      /\ staging' \in {staging, None}
  <2>1. CASE ScanOpen(g) \/ ScanFinalize(g) \/ ScanStops(g) \/ ScanFails(g)
    BY <2>1 DEF ScanOpen, ScanFinalize, ScanStops, ScanFails
  <2>2. CASE ScanAnnounce(g) \/ FinishScan(g) \/ ScanReport(g) \/ ScanTimedOut(g)
    BY <2>2 DEF ScanAnnounce, FinishScan, ScanReport, ScanTimedOut, StagingAfter
  <2> QED
    BY <2>1, <2>2
<1>2. GenerationsKept /\ HandlersKept
  BY <1>1 DEF GenerationsKept, HandlersKept
<1>3. NoScanBegins
  <2> USE DEF CountInv, TypeOK, Scan, Unactivated
  <2>1. CASE ScanOpen(g) \/ ScanFinalize(g) \/ ScanStops(g) \/ ScanFails(g)
    BY <1>1, <2>1 DEF ScanOpen, ScanFinalize, ScanStops, ScanFails, NoScanBegins
  <2>2. CASE ScanAnnounce(g) \/ FinishScan(g) \/ ScanReport(g)
    <3>1. \E pc \in {"done", "failed", "scanFailed", "scanCancelled"} :
            scan' = [scan EXCEPT ![g].pc = pc]
      BY <2>2 DEF ScanAnnounce, FinishScan, ScanReport, OutcomeOf
    <3> QED
      BY <1>1, <3>1 DEF NoScanBegins
  <2>3. CASE ScanTimedOut(g)
    BY <1>1, <2>3 DEF ScanTimedOut, NoScanBegins
  <2> QED
    BY <2>1, <2>2, <2>3
<1>4. FinalKept
  <2>1. CASE ScanOpen(g) \/ ScanFinalize(g)
    <3>1. /\ scan[g].pc \in Unactivated
          /\ \A f \in Gen : f # g => disk'[f] = disk[f]
      BY <2>1 DEF ScanOpen, ScanFinalize, Unactivated, CountInv, TypeOK
    <3>2. gen[g].file = None /\ ~ Published(g)
      BY <3>1 DEF StoreParts, PublishedOnce, Unpublished, CountInv, Provenance,
         ScannedHaveNoFiles
    <3>3. ctl.pc = "point" => ctl.gen # g
      <4>1. ctl.pc = "point" => ctl.gen \in {active, previous}
        BY DEF StoreParts, Committing
      <4> QED
        BY <3>2, <4>1, NoneAssumption DEF CountInv, Provenance, CurrentHaveFiles
    <3> QED
      BY <1>1, <3>1, <3>2, <3>3 DEF FinalKept, Published
  <2>2. CASE FinishScan(g)
    BY <2>2 DEF FinishScan, FinalKept, CountInv, TypeOK
  <2>3. CASE UNCHANGED disk
    BY <2>3 DEF FinalKept
  <2> QED
    BY <2>1, <2>2, <2>3 DEF ScanStops, ScanFails, ScanAnnounce, ScanReport,
       ScanTimedOut
<1> QED
  BY <1>1, <1>2, <1>3, <1>4, StoreFrame DEF StoreKept

\* The pipe breaks, or nothing happens.
LEMMA StoreQuiet ==
  ASSUME StoreInv, BreakPipe \/ UNCHANGED vars
  PROVE  StoreParts'
<1>1. UNCHANGED <<disk, pointer, rootOf, gen, active, previous, staging, scan, ctl>>
  BY DEF BreakPipe, vars, memory
<1> QED
  BY <1>1, StoreFrame DEF StoreKept, GenerationsKept, FinalKept, NoScanBegins,
     HandlersKept

-----------------------------------------------------------------------------
(* The steps that change the generations, the pointers or the locals.      *)

\* A new scan: its id was never used.
LEMMA StoreStart ==
  ASSUME StoreInv, NEW r \in Root, NEW g \in Gen, ScanStart(r, g)
  PROVE  StoreParts'
<1> USE DEF StoreInv, StoreParts
<1>1. /\ gen[g].file = None /\ rootOf[g] = None /\ r # None
      /\ rootOf' = [rootOf EXCEPT ![g] = r] /\ rootOf \in [Gen -> Root \cup {None}]
      /\ \A h \in Gen : gen[h].file # None => rootOf[h] # None
      /\ pointer \in [Root -> Gen \cup {None}]
  BY NoneAssumption DEF ScanStart, Unissued, CountInv, TypeOK, Provenance,
     UnissuedUnused
<1>2. /\ UNCHANGED <<disk, pointer, gen, active, previous>>
      /\ previous = None
      /\ ctl.pc = "idle" /\ ctl'.pc = "launch"
  BY DEF ScanStart, Accepting, At
<1>3. PointersValid'
  BY <1>1, <1>2, NoneAssumption DEF PointersValid
<1>4. OwnFiles' /\ Retirement' /\ OneUnsettled' /\ TwoTargets'
  BY <1>2 DEF OwnFiles, Retirement, OneUnsettled, TwoTargets
<1>5. PublishedOnce'
  <2>1. \A h \in Gen : Unpublished(h)' => Unpublished(h)
    BY <1>1, <1>2 DEF ScanStart, Unpublished, CountInv, TypeOK, Scan
  <2> QED
    BY <1>2, <2>1 DEF PublishedOnce, Published
<1>6. FilesOfTarget'
  <2>1. \A h \in Gen : gen[h].file # None => gen[h].file # g /\ h # g
    BY <1>1 DEF FilesOfTarget
  <2> QED
    BY <1>1, <1>2, <2>1 DEF FilesOfTarget, CountInv, TypeOK, Generation
<1>7. CurrentStored'
  BY <1>1, <1>2 DEF CurrentStored, CountInv, Provenance, CurrentHaveFiles, TypeOK
<1>8. Opening' /\ Committing'
  BY <1>2 DEF Opening, Committing
<1> QED
  BY <1>3, <1>4, <1>5, <1>6, <1>7, <1>8

\* snapshotOpen and activationCommit read the shared state into locals.
LEMMA StoreLocals ==
  ASSUME StoreInv,
         SnapshotLoad \/ (\E r \in Root : SnapshotOpen(r))
           \/ \E g \in Gen : CommitStart(g)
  PROVE  StoreParts'
<1> USE DEF StoreInv, StoreParts
<1>1. /\ UNCHANGED <<disk, pointer, rootOf, gen, active, previous, staging, scan>>
      /\ ctl.pc # "settle"
  BY DEF SnapshotOpen, SnapshotLoad, CommitStart, Accepting
<1>2. /\ PointersValid' /\ OwnFiles' /\ PublishedOnce' /\ FilesOfTarget'
      /\ Retirement' /\ OneUnsettled' /\ CurrentStored' /\ TwoTargets'
  BY <1>1 DEF PointersValid, OwnFiles, PublishedOnce, Unpublished, Published,
     FilesOfTarget, Retirement, OneUnsettled, CurrentStored, TwoTargets
<1>3. ASSUME NEW r \in Root, SnapshotOpen(r) PROVE Opening' /\ Committing'
  <2>1. ctl'.pc = "load" /\ ctl'.root = r
    BY <1>3 DEF SnapshotOpen, At
  <2> QED
    BY <1>1, <1>3, <2>1 DEF SnapshotOpen, Opening, Committing
<1>4. ASSUME SnapshotLoad PROVE Opening' /\ Committing'
  <2>1. \/ ctl'.pc = "adopt" /\ ctl'.root = ctl.root
           /\ ctl'.file = pointer[ctl.root]
        \/ ctl'.pc \in {"idle", "failing"}
    <3>1. CASE Return
      BY <3>1 DEF Return, At
    <3>2. CASE ~ Return
      BY <1>4, <3>2 DEF SnapshotLoad, CountInv, TypeOK, Control
    <3> QED
      BY <3>1, <3>2
  <2>2. ctl.pc = "load"
    BY <1>4 DEF SnapshotLoad
  <2> QED
    BY <1>1, <2>1, <2>2 DEF Opening, Committing
<1>5. ASSUME NEW g \in Gen, CommitStart(g) PROVE Opening' /\ Committing'
  <2>1. /\ ctl'.pc = IF gen[g].persistent THEN "settle" ELSE "publish"
        /\ ctl'.gen = g /\ ctl'.prev = previous /\ active = g
    BY <1>5 DEF CommitStart, At
  <2>2. previous # None /\ gen[g].persistent /\ gen[previous].persistent
          => gen[previous].file # gen[g].file
    <3>1. /\ gen[g].file # None
          /\ previous # None => previous \in Gen /\ gen[previous].file # None
      BY <2>1, NoneAssumption DEF CountInv, TypeOK, Provenance, CurrentHaveFiles
    <3> QED
      BY <1>1, <2>1, <3>1, NoneAssumption DEF TwoTargets, FilesOfTarget
  <2> QED
    BY <1>1, <2>1, <2>2 DEF Opening, Committing
<1> QED
  BY <1>2, <1>3, <1>4, <1>5

\* A published snapshot is adopted under a new id; the one that was active,
\* if it is published too, is of another target.
LEMMA StoreAdopt ==
  ASSUME StoreInv, NEW g \in Gen, SnapshotAdopt(g)
  PROVE  StoreParts'
<1> USE DEF StoreInv, StoreParts
<1>1. PICK r \in Root, f \in Gen :
        /\ ctl.root = r /\ ctl.file = f /\ pointer[r] = f
        /\ rootOf[f] = r /\ r # None
  BY NoneAssumption DEF SnapshotAdopt, CountInv, TypeOK, LocalsOK, Opening,
     PointersValid
<1>2. /\ gen[g].file = None /\ rootOf[g] = None /\ scan[g].pc = "none"
      /\ \A h \in Gen : gen[h].file # None => rootOf[h] # None
      /\ g \notin {active, previous, None}
  BY NoneAssumption DEF SnapshotAdopt, Unissued, CountInv, Provenance,
     UnissuedUnused, CurrentHaveFiles
<1>3. /\ UNCHANGED <<disk, pointer, staging, scan>> /\ staging = None
      /\ active' = g /\ previous' = active
      /\ rootOf'[g] = r /\ \A h \in Gen : h # g => rootOf'[h] = rootOf[h]
      /\ gen'[g] = NewGeneration(f, TRUE)
      /\ \A h \in Gen : h # g => gen'[h] = gen[h]
      /\ ctl'.pc \in {"idle", "failing"} /\ ctl.pc = "adopt"
  BY <1>1 DEF SnapshotAdopt, Return, At, Opening, CountInv, TypeOK
<1>4. /\ gen'[g].file = f /\ gen'[g].persistent
      /\ ~ gen'[g].retired /\ ~ gen'[g].doomed
  BY <1>3 DEF NewGeneration
<1>5. PointersValid'
  BY <1>2, <1>3, NoneAssumption DEF PointersValid, CountInv, TypeOK
<1>6. OwnFiles' /\ Retirement' /\ OneUnsettled'
  <2>1. OwnFiles'
    <3>1. ASSUME NEW h \in Gen, gen'[h].file # None, ~ gen'[h].persistent
          PROVE  gen'[h].file = h /\ gen'[h].place = "work"
      <4>1. h # g
        BY <1>4, <3>1
      <4>2. gen'[h] = gen[h]
        BY <1>3, <4>1
      <4> QED
        BY <3>1, <4>2 DEF OwnFiles
    <3> QED
      BY <3>1 DEF OwnFiles
  <2>3. OneUnsettled'
    BY <1>2, <1>3 DEF OneUnsettled
  <2>2. Retirement'
    <3>1. \A h \in Gen : h # g => gen'[h] = gen[h]
      BY <1>3
    <3>2. \A h \in {active', previous'} : h # None => ~ gen'[h].retired
      <4>1. active # None => active \in Gen /\ active # g /\ ~ gen[active].retired
        BY <1>2 DEF Retirement, CountInv, TypeOK
      <4> QED
        BY <1>3, <1>4, <4>1
    <3>3. \A h \in Gen : gen'[h].doomed =>
            /\ gen[h].doomed
            /\ gen'[h].retired = gen[h].retired
            /\ gen'[h].persistent = gen[h].persistent
            /\ gen'[h].file = gen[h].file
      BY <1>4, <3>1
    <3>4. UNCHANGED pointer
      BY <1>3
    <3> QED
      BY <3>2, <3>3, <3>4 DEF Retirement
  <2> QED
    BY <2>1, <2>2, <2>3
<1>7. PublishedOnce'
  <2>1. \A h \in Gen : Unpublished(h)' => Unpublished(h)
    BY <1>1, <1>2, <1>3, <1>4 DEF Unpublished, Unactivated
  <2>2. \A h \in Gen : Published(h)' => Published(h)
    <3>1. ASSUME NEW h \in Gen, Published(h)' PROVE Published(h)
      <4>1. UNCHANGED pointer
        BY <1>3
      <4>2. ASSUME NEW k \in Gen, gen'[k].persistent, gen'[k].file = h
            PROVE  Published(h)
        <5>1. CASE k = g
          BY <1>1, <1>4, <4>2, <5>1 DEF Published
        <5>2. CASE k # g
          <6>1. gen'[k] = gen[k]
            BY <1>3, <5>2
          <6> QED
            BY <4>2, <6>1 DEF Published
        <5> QED
          BY <5>1, <5>2
      <4> QED
        BY <3>1, <4>1, <4>2 DEF Published
    <3> QED
      BY <3>1
  <2> QED
    BY <2>1, <2>2 DEF PublishedOnce
<1>8. FilesOfTarget'
  <2>1. \A h \in Gen : gen[h].file # None => gen[h].file \in Gen \ {g}
    BY <1>2, NoneAssumption DEF FilesOfTarget, CountInv, TypeOK, Generation
  <2> QED
    <3>1. rootOf'[gen'[g].file] = rootOf'[g]
      BY <1>1, <1>2, <1>3, <1>4
    <3>2. \A h \in Gen \ {g} : gen'[h].file # None => rootOf'[gen'[h].file] = rootOf'[h]
      BY <1>3, <2>1 DEF FilesOfTarget
    <3> QED
      BY <3>1, <3>2 DEF FilesOfTarget
<1>9. CurrentStored' /\ TwoTargets'
  <2>1. active # None => active \in Gen \ {g}
    BY <1>2 DEF CountInv, TypeOK
  <2>2. active # None /\ gen[active].persistent
          => rootOf[active] # r /\ pointer[rootOf[active]] = gen[active].file
    BY <1>1, <1>3 DEF CurrentStored, Opening
  <2>3. active # None =>
          gen'[active] = gen[active] /\ rootOf'[active] = rootOf[active]
    BY <1>3, <2>1
  <2>4. pointer'[rootOf'[g]] = gen'[g].file /\ active' = g /\ previous' = active
    BY <1>1, <1>3, <1>4
  <2>5. CurrentStored'
    <3>1. UNCHANGED pointer /\ ctl'.pc # "settle"
      BY <1>3
    <3>2. active' = g /\ previous' = active
      BY <1>3
    <3> QED
      BY <2>2, <2>3, <2>4, <3>1, <3>2 DEF CurrentStored
  <2>6. TwoTargets'
    BY <1>3, <2>2, <2>3, <2>4 DEF TwoTargets
  <2> QED
    BY <2>5, <2>6
<1>10. Opening' /\ Committing'
  BY <1>3 DEF Opening, Committing
<1> QED
  BY <1>5, <1>6, <1>7, <1>8, <1>9, <1>10

\* The generation that a commit publishes still has the file of its own scan.
LEMMA CommittedFile ==
  ASSUME StoreInv, ctl.pc \in {"publish", "point"}
  PROVE  /\ ctl.gen \in Gen /\ ctl.gen \in {active, previous}
         /\ gen[ctl.gen].file = ctl.gen
         /\ ~ gen[ctl.gen].persistent /\ gen[ctl.gen].place = "work"
         /\ rootOf[ctl.gen] \in Root
         /\ ~ Published(ctl.gen)
         /\ scan[ctl.gen].pc \notin Unactivated
<1> USE DEF StoreInv, StoreParts
<1>1. ctl.gen \in Gen /\ ctl.gen # None
  BY NoneAssumption DEF CountInv, TypeOK, LocalsOK
<1>2. ctl.gen \in {active, previous} /\ ~ gen[ctl.gen].persistent
  BY DEF Committing
<1>3. gen[ctl.gen].file # None
  BY <1>1, <1>2 DEF CountInv, Provenance, CurrentHaveFiles
<1>4. gen[ctl.gen].file = ctl.gen /\ gen[ctl.gen].place = "work"
  BY <1>1, <1>2, <1>3 DEF OwnFiles
<1>5. rootOf[ctl.gen] \in Root
  BY <1>1, <1>3 DEF CountInv, TypeOK, Provenance, UnissuedUnused
<1>6. ~ Published(ctl.gen)
  BY <1>1, <1>2, <1>3 DEF PublishedOnce, Unpublished
<1>7. scan[ctl.gen].pc \notin Unactivated
  BY <1>1, <1>3 DEF CountInv, Provenance, ScannedHaveNoFiles
<1> QED
  BY <1>1, <1>2, <1>4, <1>5, <1>6, <1>7

\* The database is renamed to its final path.
LEMMA StoreRename ==
  ASSUME StoreInv, PublishRename
  PROVE  StoreParts'
<1> USE DEF StoreInv, StoreParts
<1>1. /\ UNCHANGED <<pointer, rootOf, gen, active, previous, staging, scan>>
      /\ ctl.pc = "publish"
      /\ ctl.gen \in Gen /\ gen[ctl.gen].file = ctl.gen
  BY CommittedFile DEF PublishRename
<1>2. CASE Readable(ctl.gen)
  <2>1. /\ disk' = [disk EXCEPT ![ctl.gen] = "final"]
        /\ ctl' = [ctl EXCEPT !.pc = "point"]
    BY <1>1, <1>2 DEF PublishRename
  <2>2. /\ ctl'.pc = "point" /\ ctl'.gen = ctl.gen /\ ctl'.prev = ctl.prev
        /\ disk'[ctl.gen] = "final"
        /\ \A f \in Gen : disk[f] = "final" => disk'[f] = "final"
    BY <1>1, <2>1 DEF CountInv, TypeOK, Control
  <2>3. PointersValid'
    BY <1>1, <2>2 DEF PointersValid, CountInv, TypeOK
  <2>4. /\ OwnFiles' /\ PublishedOnce' /\ FilesOfTarget' /\ Retirement'
        /\ OneUnsettled'
    BY <1>1 DEF OwnFiles, PublishedOnce, Unpublished, Published, FilesOfTarget,
       Retirement, OneUnsettled
  <2>5. CurrentStored' /\ TwoTargets' /\ Opening'
    BY <1>1, <2>2 DEF CurrentStored, TwoTargets, Opening
  <2>6. Committing'
    BY <1>1, <2>2 DEF Committing
  <2> QED
    BY <2>3, <2>4, <2>5, <2>6
<1>3. CASE ~ Readable(ctl.gen)
  <2>1. UNCHANGED disk /\ ctl'.pc \in {"idle", "failing"}
    BY <1>3 DEF PublishRename, Return, At
  <2>2. GenerationsKept /\ FinalKept /\ NoScanBegins /\ HandlersKept
    BY <1>1, <2>1 DEF GenerationsKept, FinalKept, NoScanBegins, HandlersKept
  <2> QED
    BY <1>1, <2>2, StoreFrame DEF StoreKept
<1> QED
  BY <1>2, <1>3

\* The pointer is replaced: the file it names now was named by nothing before.
LEMMA StorePoint ==
  ASSUME StoreInv, PublishPoint
  PROVE  StoreParts'
<1> DEFINE g == ctl.gen
<1> USE DEF StoreInv, StoreParts
<1>1. /\ g \in Gen /\ g \in {active, previous} /\ gen[g].file = g
      /\ ~ gen[g].persistent /\ rootOf[g] \in Root /\ ~ Published(g)
      /\ scan[g].pc \notin Unactivated
      /\ disk[g] = "final" /\ ctl.pc = "point"
  BY CommittedFile DEF PublishPoint, Committing
<1>2. /\ UNCHANGED <<disk, rootOf, active, previous, staging, scan>>
      /\ ctl'.pc = "settle" /\ ctl'.gen = g /\ ctl'.prev = ctl.prev
  BY DEF PublishPoint, CountInv, TypeOK, Control
<1>3. /\ pointer'[rootOf[g]] = g
      /\ \A r \in Root : r # rootOf[g] => pointer'[r] = pointer[r]
  BY <1>1 DEF PublishPoint, CountInv, TypeOK
<1>4. /\ gen'[g].persistent
      /\ \A h \in Gen : h # g => gen'[h] = gen[h]
      /\ \A h \in Gen : /\ gen'[h].file = gen[h].file
                        /\ gen'[h].retired = gen[h].retired
                        /\ gen'[h].doomed = gen[h].doomed
  BY <1>1 DEF PublishPoint, CountInv, TypeOK, Generation
<1>5. PointersValid'
  BY <1>1, <1>2, <1>3 DEF PointersValid
<1>6. OwnFiles' /\ FilesOfTarget' /\ OneUnsettled'
  BY <1>2, <1>4 DEF OwnFiles, FilesOfTarget, OneUnsettled
<1>7. PublishedOnce'
  <2>2. ASSUME NEW h \in Gen, Unpublished(h)' PROVE ~ Published(h)'
    <3>1. h # g
      BY <1>1, <1>2, <1>4, <2>2, NoneAssumption DEF Unpublished
    <3>2. Published(h)' => Published(h)
      BY <1>1, <1>3, <1>4, <3>1 DEF Published
    <3>3. Unpublished(h)
      BY <1>2, <1>4, <2>2, <3>1 DEF Unpublished
    <3> QED
      BY <3>2, <3>3 DEF PublishedOnce
  <2> QED
    BY <2>2 DEF PublishedOnce
<1>8. Retirement'
  <2>1. ~ gen[g].doomed
    BY <1>1, NoneAssumption DEF Retirement
  <2>2. ASSUME NEW h \in Gen, gen'[h].persistent, gen'[h].doomed
        PROVE  gen'[h].file # None /\ \A r \in Root : pointer'[r] # gen'[h].file
    <3>1. h # g /\ gen[h].persistent /\ gen[h].doomed
      BY <1>4, <2>1, <2>2
    <3>2. gen[h].file # g
      BY <1>1, <3>1 DEF Published
    <3> QED
      BY <1>3, <1>4, <3>1, <3>2 DEF Retirement
  <2>3. \A h \in Gen : gen'[h].doomed = gen[h].doomed /\ gen'[h].retired = gen[h].retired
    BY <1>4
  <2>4. active \in Gen \cup {None} /\ previous \in Gen \cup {None}
    BY DEF CountInv, TypeOK
  <2> QED
    BY <1>2, <2>2, <2>3, <2>4 DEF Retirement
<1>9. CurrentStored' /\ TwoTargets' /\ Opening'
  <2>1. active # g /\ active # None => active \in Gen /\ ~ gen'[active].persistent
    BY <1>1, <1>4 DEF Committing, CountInv, TypeOK
  <2>2. gen'[g].file = g
    BY <1>1, <1>4
  <2>3. CurrentStored'
    BY <1>2, <1>3, <2>1, <2>2 DEF CurrentStored
  <2> QED
    BY <1>2, <2>3 DEF TwoTargets, Opening
<1>10. Committing'
  <2>1. active = g \/ (/\ ctl.prev = None /\ previous = g
                       /\ active # None /\ ~ gen'[active].persistent)
    BY <1>1, <1>4 DEF Committing, OneUnsettled, CountInv, TypeOK
  <2>2. ctl.prev # None => /\ active = g /\ previous = ctl.prev
                           /\ ctl.prev \in Gen \ {g}
    BY <1>1 DEF Committing, OneUnsettled, CountInv, TypeOK
  <2>3. ctl.prev # None /\ gen'[ctl.prev].persistent
          => gen'[ctl.prev].file # gen'[g].file
    BY <1>1, <1>4, <2>2 DEF Published
  <2> QED
    BY <1>2, <1>4, <2>1, <2>2, <2>3 DEF Committing
<1> QED
  BY <1>5, <1>6, <1>7, <1>8, <1>9, <1>10

\* The previous generation retires: if it was published and is doomed, the
\* committed one has taken its place in the pointer of their target.
LEMMA StoreSettle ==
  ASSUME StoreInv, CommitSettle
  PROVE  StoreParts'
<1> DEFINE p == ctl.prev
<1> USE DEF StoreInv, StoreParts
<1>1. /\ UNCHANGED <<disk, pointer, rootOf, active, staging, scan>>
      /\ previous' = None /\ ctl.pc = "settle"
      /\ p \in Gen \cup {None}
  BY DEF CommitSettle, CountInv, TypeOK, Control
<1>2. ctl'.pc \in {"idle", "failing", "deletePrevious"}
  <2>1. CASE p = None
    BY <2>1 DEF CommitSettle, Return, At
  <2>2. CASE p # None
    BY <2>2 DEF CommitSettle, CountInv, TypeOK, Control
  <2> QED
    BY <2>1, <2>2
<1>3. p # None => /\ active = ctl.gen /\ previous = p
                  /\ p # active /\ active \in Gen /\ gen[active].persistent
  BY <1>1 DEF Committing, OneUnsettled, CountInv, TypeOK
<1>4. /\ \A h \in Gen : /\ gen'[h].file = gen[h].file
                        /\ gen'[h].place = gen[h].place
                        /\ gen'[h].persistent = gen[h].persistent
      /\ \A h \in Gen : h # p => gen'[h] = gen[h]
      /\ p # None => gen'[p].retired /\ gen'[p].doomed = Superseded(p, ctl.gen)
  <2>1. CASE p = None
    BY <1>1, <2>1 DEF CommitSettle
  <2>2. CASE p # None
    <3>1. gen' = [gen EXCEPT ![p].retired = TRUE,
                             ![p].doomed = Superseded(p, ctl.gen)]
      BY <2>2 DEF CommitSettle
    <3> QED
      BY <1>1, <2>2, <3>1 DEF CountInv, TypeOK, Generation
  <2> QED
    BY <2>1, <2>2
<1>5. /\ PointersValid' /\ OwnFiles' /\ FilesOfTarget' /\ OneUnsettled'
      /\ TwoTargets' /\ Opening' /\ Committing'
  BY <1>1, <1>2, <1>4 DEF PointersValid, OwnFiles, FilesOfTarget, OneUnsettled,
     TwoTargets, Opening, Committing
<1>6. PublishedOnce'
  BY <1>1, <1>4 DEF PublishedOnce, Unpublished, Published
<1>7. Retirement'
  <2>1. active # None => ~ gen'[active].retired
    BY <1>3, <1>4 DEF Retirement, CountInv, TypeOK
  <2>2. ASSUME p # None, gen[p].persistent, gen'[p].doomed
        PROVE  gen[p].file # None /\ \A r \in Root : pointer[r] # gen[p].file
    <3>1. rootOf[p] = rootOf[active]
      BY <1>3, <1>4, <2>2 DEF Superseded
    <3>2. gen[p].file # None
      BY <1>3, <2>2 DEF CountInv, Provenance, CurrentHaveFiles
    <3>3. /\ pointer[rootOf[active]] = gen[active].file
          /\ gen[p].file # gen[active].file
      BY <1>1, <1>3, <2>2, NoneAssumption DEF CurrentStored, Committing
    <3>4. rootOf[gen[p].file] = rootOf[p]
      BY <1>1, <2>2, <3>2 DEF FilesOfTarget
    <3> QED
      BY <3>1, <3>2, <3>3, <3>4 DEF PointersValid
  <2>3. \A h \in Gen : h # p /\ gen'[h].doomed => gen'[h].retired
    BY <1>4 DEF Retirement
  <2>4. ASSUME NEW h \in Gen, gen'[h].persistent, gen'[h].doomed
        PROVE  gen'[h].file # None /\ \A r \in Root : pointer[r] # gen'[h].file
    <3>1. CASE h = p
      BY <1>4, <2>2, <2>4, <3>1, NoneAssumption
    <3>2. CASE h # p
      BY <1>4, <2>4, <3>2 DEF Retirement
    <3> QED
      BY <3>1, <3>2
  <2> QED
    BY <1>1, <1>4, <2>1, <2>3, <2>4, NoneAssumption DEF Retirement
<1>8. CurrentStored'
  BY <1>1, <1>3, <1>4 DEF CurrentStored, CountInv, TypeOK
<1> QED
  BY <1>5, <1>6, <1>7, <1>8

\* Back to the previous generation, or to none when the broker shuts down.
LEMMA StoreRetire ==
  ASSUME StoreInv, ShutdownClose \/ \E g \in Gen : Abort(g)
  PROVE  StoreParts'
<1> USE DEF StoreInv, StoreParts
<1>1. /\ UNCHANGED <<disk, pointer, rootOf, staging, scan>>
      /\ active' \in {previous, None} /\ previous' = None
      /\ ctl.pc \in {"idle", "close"}
      /\ ctl'.pc \in {"delete", "deleteAborted"}
  BY DEF ShutdownClose, Abort, Accepting, At
<1>2. \A h \in Gen : /\ gen'[h].file = gen[h].file
                     /\ gen'[h].place = gen[h].place
                     /\ gen'[h].persistent = gen[h].persistent
                     /\ gen'[h].doomed = gen[h].doomed
                     /\ gen[h].retired => gen'[h].retired
  <2>1. CASE ShutdownClose
    BY <2>1 DEF ShutdownClose, CountInv, TypeOK, Generation
  <2>2. ASSUME NEW g \in Gen, Abort(g)
        PROVE  \A h \in Gen : /\ gen'[h].file = gen[h].file
                              /\ gen'[h].place = gen[h].place
                              /\ gen'[h].persistent = gen[h].persistent
                              /\ gen'[h].doomed = gen[h].doomed
                              /\ gen[h].retired => gen'[h].retired
    BY <2>2 DEF Abort, CountInv, TypeOK, Generation
  <2> QED
    BY <2>1, <2>2
<1>3. active' # None => ~ gen'[active'].retired
  <2>1. CASE ShutdownClose
    BY <2>1 DEF ShutdownClose
  <2>2. ASSUME NEW g \in Gen, Abort(g), previous # None
        PROVE  ~ gen'[previous].retired
    <3>1. previous # g /\ previous \in Gen /\ ~ gen[previous].retired
      BY <2>2 DEF Abort, OneUnsettled, Retirement, CountInv, TypeOK
    <3> QED
      BY <2>2, <3>1 DEF Abort, CountInv, TypeOK
  <2> QED
    BY <2>1, <2>2 DEF Abort
<1>4. /\ PointersValid' /\ OwnFiles' /\ FilesOfTarget' /\ OneUnsettled'
      /\ TwoTargets' /\ Opening' /\ Committing'
  BY <1>1, <1>2 DEF PointersValid, OwnFiles, FilesOfTarget, OneUnsettled,
     TwoTargets, Opening, Committing
<1>5. PublishedOnce'
  BY <1>1, <1>2 DEF PublishedOnce, Unpublished, Published
<1>6. Retirement'
  BY <1>1, <1>2, <1>3 DEF Retirement
<1>7. CurrentStored'
  <2>1. active \in Gen \cup {None} /\ previous \in Gen \cup {None}
    BY DEF CountInv, TypeOK
  <2> QED
    BY <1>1, <1>2, <2>1 DEF CurrentStored
<1> QED
  BY <1>4, <1>5, <1>6, <1>7

\* A scan's database becomes active: a commit in progress has it as its
\* predecessor's successor, and nothing else may be unsettled.
LEMMA StoreActivate ==
  ASSUME StoreInv, NEW g \in Gen, ScanActivate(g)
  PROVE  StoreParts'
<1> USE DEF StoreInv, StoreParts
<1>1. /\ UNCHANGED <<disk, pointer, rootOf, ctl>>
      /\ staging = g /\ staging' = None /\ active' = g /\ previous' = active
      /\ previous = None
      /\ scan[g].pc \in Unactivated /\ scan'[g].pc \notin Unactivated
      /\ \A h \in Gen : h # g => scan'[h] = scan[h]
      /\ g # None
  BY NoneAssumption DEF ScanActivate, StillWanted, Unactivated, OneUnsettled,
     CountInv, TypeOK, Scan
<1>2. /\ gen'[g].file = g /\ gen'[g].place = "work" /\ ~ gen'[g].persistent
      /\ ~ gen'[g].retired /\ ~ gen'[g].doomed
      /\ \A h \in Gen : h # g => gen'[h] = gen[h]
  BY DEF ScanActivate, NewGeneration, CountInv, TypeOK
<1>3. gen[g].file = None /\ g # active /\ ~ Published(g)
  BY <1>1 DEF CountInv, Provenance, ScannedHaveNoFiles, CurrentHaveFiles,
     PublishedOnce, Unpublished
<1>4. active # None =>
        active \in Gen /\ ~ gen[active].retired /\ gen'[active] = gen[active]
  BY <1>2, <1>3 DEF Retirement, CountInv, TypeOK
<1>5. PointersValid' /\ OwnFiles' /\ FilesOfTarget' /\ OneUnsettled'
  BY <1>1, <1>2, <1>3 DEF PointersValid, OwnFiles, FilesOfTarget, OneUnsettled
<1>6. PublishedOnce'
  <2>1. ASSUME NEW h \in Gen, Unpublished(h)' PROVE ~ Published(h)'
    <3>1. Published(h)' => Published(h)
      BY <1>1, <1>2 DEF Published
    <3>2. ~ Published(h)
      BY <1>1, <1>2, <1>3, <2>1 DEF PublishedOnce, Unpublished
    <3> QED
      BY <3>1, <3>2
  <2> QED
    BY <2>1 DEF PublishedOnce
<1>7. Retirement'
  <2>1. \A h \in Gen : gen'[h].doomed =>
          /\ gen[h].doomed
          /\ gen'[h].retired = gen[h].retired
          /\ gen'[h].persistent = gen[h].persistent
          /\ gen'[h].file = gen[h].file
    BY <1>2
  <2>2. \A h \in {active', previous'} : h # None => ~ gen'[h].retired
    BY <1>1, <1>2, <1>4
  <2>3. UNCHANGED pointer
    BY <1>1
  <2> QED
    BY <2>1, <2>2, <2>3 DEF Retirement
<1>8. CurrentStored' /\ TwoTargets'
  BY <1>1, <1>2, <1>4 DEF CurrentStored, TwoTargets
<1>9. Opening' /\ Committing'
  <2>1. ctl.pc \notin {"load", "adopt"}
    BY <1>1 DEF Opening
  <2>2. ctl.pc \in {"publish", "point", "settle"} =>
          active = ctl.gen /\ ctl.prev = None /\ ctl.gen \in Gen
    BY <1>1, NoneAssumption DEF Committing, CountInv, TypeOK, LocalsOK, Control
  <2> QED
    BY <1>1, <1>2, <1>4, <2>1, <2>2, NoneAssumption DEF Opening, Committing
<1> QED
  BY <1>5, <1>6, <1>7, <1>8, <1>9

\* A new process knows no generations; the files and pointers are as the old
\* one left them.
LEMMA StoreRestart ==
  ASSUME StoreInv, Restart
  PROVE  StoreParts'
<1> USE DEF StoreInv, StoreParts
<1>1. /\ UNCHANGED <<disk, pointer, rootOf>>
      /\ active' = None /\ previous' = None /\ staging' = None
      /\ ctl'.pc = "idle"
  BY DEF Restart, At
<1>2. \A g \in Gen : /\ gen'[g].file = None /\ ~ gen'[g].persistent
                     /\ ~ gen'[g].doomed /\ scan'[g].pc \notin Unactivated
  BY DEF Restart, NoGenerations, NewGeneration, NoScans, Unactivated
<1>3. /\ PointersValid' /\ OwnFiles' /\ FilesOfTarget' /\ Retirement'
      /\ OneUnsettled' /\ CurrentStored' /\ TwoTargets' /\ Opening' /\ Committing'
  BY <1>1, <1>2 DEF PointersValid, OwnFiles, FilesOfTarget, Retirement,
     OneUnsettled, CurrentStored, TwoTargets, Opening, Committing
<1>4. PublishedOnce'
  BY <1>1, <1>2 DEF PublishedOnce, Unpublished, Published
<1> QED
  BY <1>3, <1>4

\* The archive of the first process: complete databases of their own targets.
LEMMA StoreInit == Init => StoreParts
<1> SUFFICES ASSUME Init PROVE StoreParts
  OBVIOUS
<1>1. \A r \in Root : pointer[r] # None =>
        /\ pointer[r] \in Gen /\ disk[pointer[r]] = "final"
        /\ rootOf[pointer[r]] = r
  BY ArchiveAssumption DEF Init
<1>2. \A g \in Gen : /\ gen[g].file = None /\ ~ gen[g].persistent
                     /\ ~ gen[g].doomed /\ scan[g].pc \notin Unactivated
  BY DEF Init, NoGenerations, NewGeneration, NoScans, Unactivated
<1>3. /\ active = None /\ previous = None /\ staging = None /\ ctl.pc = "idle"
  BY DEF Init, At
<1>4. /\ PointersValid /\ OwnFiles /\ FilesOfTarget /\ Retirement
      /\ OneUnsettled /\ CurrentStored /\ TwoTargets /\ Opening /\ Committing
  BY <1>1, <1>2, <1>3 DEF PointersValid, OwnFiles, FilesOfTarget, Retirement,
     OneUnsettled, CurrentStored, TwoTargets, Opening, Committing
<1>5. PublishedOnce
  BY <1>1, <1>2, NoneAssumption DEF PublishedOnce, Unpublished, Published
<1> QED
  BY <1>4, <1>5 DEF StoreParts

\* Every step preserves what is known of the stored snapshots.
LEMMA StoreNext == StoreInv /\ [Next]_vars => StoreParts'
<1> SUFFICES ASSUME StoreInv, [Next]_vars PROVE StoreParts'
  OBVIOUS
<1>1. CASE Request
  BY <1>1, StoreStart, StoreControl, StoreLocals, StoreRetire DEF Request
<1>2. CASE Shutdown \/ Continue
  BY <1>2, StoreControl, StoreLocals, StoreAdopt, StoreRename, StorePoint,
     StoreSettle, StoreRetire DEF Continue
<1>3. CASE QueryStep
  BY <1>3, StoreQuery
<1>4. ASSUME NEW g \in Gen, ScanStep(g) \/ ScanTimedOut(g) PROVE StoreParts'
  BY <1>4, StoreScan, StoreActivate DEF ScanStep
<1>5. CASE BreakPipe \/ UNCHANGED vars
  BY <1>5, StoreQuiet
<1>6. CASE Restart
  BY <1>6, StoreRestart
<1> QED
  BY <1>1, <1>2, <1>3, <1>4, <1>5, <1>6 DEF Next

\* The invariant holds at first and is preserved.
LEMMA StoreInductive ==
  /\ Init => StoreInv
  /\ StoreInv /\ [Next]_vars => StoreInv'
BY TypeInit, CountInit, StoreInit, TypeNext, CountNext, StoreNext
   DEF StoreInv, CountInv

\* Every pointer file names a complete, published database of its own target,
\* in every interleaving of commits, aborts, queries and scans, whatever fails
\* half-way and wherever the process is killed.
THEOREM PointersCorrect == Spec => []PointersValid
<1>1. StoreInv => PointersValid
  BY DEF StoreInv, StoreParts
<1> QED
  BY <1>1, StoreInductive, PTL DEF Spec

-----------------------------------------------------------------------------
(* The refinement. A pointer that is set always names a complete database, *)
(* so what SnapshotLibrary calls the latest snapshots are the pointers: a  *)
(* scan or an adoption begins a snapshot, the write of the pointer puts a  *)
(* complete one in place, and every other step is a stutter.               *)

\* Opening a target finds what its pointer names.
LEMMA LatestIsPointer ==
  ASSUME TypeOK, PointersValid
  PROVE  Latest = pointer
BY DEF TypeOK, PointersValid, Latest

\* The steps that issue an id or write a pointer.
LEMMA LibrarySteps ==
  ASSUME [Next]_vars
  PROVE  \/ UNCHANGED <<pointer, rootOf>>
         \/ \E r \in Root, g \in Gen : ScanStart(r, g)
         \/ \E g \in Gen : SnapshotAdopt(g)
         \/ PublishPoint
<1>1. CASE Request
  BY <1>1 DEF Request, ScanCancel, CommitStart, Abort, Enqueue, SnapshotOpen
<1>2. CASE Shutdown
  BY <1>2 DEF Shutdown
<1>3. CASE Continue
  BY <1>3 DEF Continue, ScanLaunch, SnapshotLoad, SnapshotAdoptFails,
     EnqueueDone, PublishRename, PublishFails, CommitSettle, CommitDelete,
     AbortDelete, ShutdownJoin, ShutdownClose, ShutdownDelete
<1>4. CASE QueryStep
  BY <1>4 DEF QueryStep, Take, RunStep, Look, Open, Execute, Fail, Finish, QueryExit
<1>5. ASSUME NEW g \in Gen, ScanStep(g) \/ ScanTimedOut(g)
      PROVE  UNCHANGED <<pointer, rootOf>>
  BY <1>5 DEF ScanStep, ScanOpen, ScanFinalize, ScanStops, ScanFails,
     ScanActivate, ScanAnnounce, FinishScan, ScanReport, ScanTimedOut
<1>6. CASE BreakPipe \/ Restart \/ UNCHANGED vars
  BY <1>6 DEF BreakPipe, Restart, vars, memory
<1> QED
  BY <1>1, <1>2, <1>3, <1>4, <1>5, <1>6 DEF Next

\* The archive of the first process is a library.
LEMMA LibraryInit == Init => Library!Init
<1> SUFFICES ASSUME Init PROVE Library!Init
  OBVIOUS
<1>1. TypeOK /\ PointersValid
  BY TypeInit, StoreInit DEF StoreParts
<1>2. Latest = pointer
  BY <1>1, LatestIsPointer
<1> QED
  BY <1>1, <1>2 DEF Library!Init, TypeOK, PointersValid

\* Every step of the broker is a step of the library, or changes nothing in it.
LEMMA LibraryNext ==
  ASSUME StoreInv, StoreInv', [Next]_vars
  PROVE  [Library!Next]_Library!vars
<1>1. Latest = pointer /\ Latest' = pointer'
  BY LatestIsPointer DEF StoreInv, CountInv, StoreParts, PointersValid, TypeOK,
     Latest
<1>2. CASE UNCHANGED <<pointer, rootOf>>
  BY <1>1, <1>2 DEF Library!vars
<1>3. ASSUME NEW r \in Root, NEW g \in Gen, ScanStart(r, g)
      PROVE  Library!Begin(g, r)
  BY <1>1, <1>3 DEF ScanStart, Unissued, Library!Begin
<1>4. ASSUME NEW g \in Gen, SnapshotAdopt(g)
      PROVE  ctl.root \in Root /\ Library!Begin(g, ctl.root)
  BY <1>1, <1>4 DEF SnapshotAdopt, Unissued, Library!Begin, StoreInv, CountInv,
     TypeOK, LocalsOK
<1>5. ASSUME PublishPoint
      PROVE  /\ ctl.gen \in Gen /\ rootOf[ctl.gen] \in Root
             /\ Library!Replace(ctl.gen, rootOf[ctl.gen])
  <2>1. /\ ctl.gen \in Gen /\ rootOf[ctl.gen] \in Root
        /\ gen[ctl.gen].file = ctl.gen /\ ~ Published(ctl.gen)
    BY <1>5, CommittedFile DEF PublishPoint
  <2>2. /\ pointer' = [pointer EXCEPT ![rootOf[ctl.gen]] = ctl.gen]
        /\ UNCHANGED rootOf
    BY <1>5, <2>1 DEF PublishPoint
  <2>3. pointer[rootOf[ctl.gen]] # ctl.gen
    BY <2>1 DEF Published
  <2> QED
    BY <1>1, <2>1, <2>2, <2>3 DEF Library!Replace
<1> QED
  BY <1>2, <1>3, <1>4, <1>5, LibrarySteps DEF Library!Next

\* The broker implements SnapshotLibrary: a target's stored snapshot changes
\* only by being replaced, in one step, by a complete one of the same target;
\* no scan, query, retirement, abort or shutdown, no failure and no kill
\* between their steps takes it away.
THEOREM LibraryCorrect == Spec => LibraryImplemented
<1>1. Init => Library!Init
  BY LibraryInit
<1>2. StoreInv /\ StoreInv' /\ [Next]_vars => [Library!Next]_Library!vars
  BY LibraryNext
<1> QED
  BY <1>1, <1>2, StoreInductive, PTL DEF Spec, LibraryImplemented, Library!Spec

-----------------------------------------------------------------------------
(* The files that are deleted. Four threads delete databases: the two      *)
(* halves of a commit and an abort, the shutdown, a settled query and an   *)
(* ended scan. Each decided to do so before it took, or after it released, *)
(* the lock; what it deletes must be nobody else's by then. That is easy   *)
(* for a working file, which has one generation. A published file may have *)
(* been opened under several ids: the last three parts of the invariant    *)
(* say that a published generation is doomed only when no other id of its  *)
(* file is in use.                                                         *)

Retained(g) == g \in {active, previous} \/ Holding(g) # {}

KeptFiles ==
  ~ broken => \A g \in Gen : Retained(g) =>
    disk[gen[g].file] \in (IF gen[g].persistent THEN {"final"} ELSE {"work", "final"})

\* A scan that ended without its database has none; one that could not
\* announce it has, but then the output is broken.
EndedScans ==
  ~ broken => \A g \in Gen :
    scan[g].pc \in {"cancelled", "failed"} => gen[g].file = None

\* What the control thread is about to delete is retired.
RetiredLocals ==
  /\ ctl.pc = "deletePrevious" => gen[ctl.prev].retired
  /\ ctl.pc = "deleteAborted" => gen[ctl.gen].retired
  /\ ctl.pc = "delete" =>
       \A g \in {ctl.gen, ctl.prev} : g # None => gen[g].retired

RetiredHaveFiles == \A g \in Gen : gen[g].retired => gen[g].file # None

\* Another id of a doomed published database is not in use.
DoomedAlone ==
  \A p, h \in Gen :
    /\ gen[p].persistent /\ gen[p].doomed
    /\ h # p /\ gen[h].file = gen[p].file
    => ~ Retained(h)

OnlyOn(generations) == \A q \in Outstanding : job[q].gen \in generations

\* Why: a scan starts only when all queries are on the active generation, an
\* activation makes that the previous one, and requests reach only these two.
QueriedWhere ==
  /\ staging # None /\ active # None => OnlyOn({active})
  /\ active # None /\ previous # None /\ ~ gen[active].persistent
       => OnlyOn({active, previous})
  /\ /\ ctl.pc = "settle" /\ ctl.prev # None
     /\ gen[ctl.prev].persistent /\ rootOf[ctl.prev] = rootOf[ctl.gen]
     => OnlyOn({ctl.gen, ctl.prev})

RetentionParts ==
  /\ KeptFiles /\ EndedScans /\ RetiredLocals /\ RetiredHaveFiles
  /\ DoomedAlone /\ QueriedWhere

RetentionInv == StoreInv /\ RetentionParts

-----------------------------------------------------------------------------
(* Steps that keep the generations, and what is queried, as they are.      *)

\* Queries only leave; the ones that stay, stay on their generation.
HoldersLeave ==
  /\ Outstanding' \subseteq Outstanding
  /\ \A q \in Outstanding' : job'[q].gen = job[q].gen

\* A generation is retained after the step only if it was before.
LEMMA RetainedLeave ==
  ASSUME HoldersLeave, UNCHANGED <<active, previous>>, NEW g
  PROVE  Retained(g)' => Retained(g)
BY DEF HoldersLeave, Retained, Holding

\* No scan of a generation that has a database ends while the output works.
EndsKept ==
  ~ broken' =>
    /\ ~ broken
    /\ \A g \in Gen : scan'[g].pc \in {"cancelled", "failed"} =>
         gen[g].file = None \/ scan[g].pc \in {"cancelled", "failed"}

\* The handlers that delete databases stay where they are or end.
DeletersKept ==
  ctl' = ctl \/ ctl'.pc \notin {"settle", "deletePrevious", "deleteAborted", "delete"}

\* A step that keeps all this keeps the parts of the invariant that say who
\* holds what.
LEMMA RetentionFrame ==
  ASSUME RetentionInv, GenerationsKept, HoldersLeave, EndsKept, DeletersKept,
         UNCHANGED <<rootOf, active, previous>>, staging' \in {staging, None}
  PROVE  /\ EndedScans' /\ RetiredLocals' /\ RetiredHaveFiles'
         /\ DoomedAlone' /\ QueriedWhere'
<1> USE DEF RetentionInv, RetentionParts
<1>0. \A g \in Gen : Retained(g)' => Retained(g)
  BY RetainedLeave
<1>1. EndedScans'
  BY DEF EndedScans, EndsKept, GenerationsKept
<1>2. RetiredLocals'
  BY DEF RetiredLocals, DeletersKept, GenerationsKept, StoreInv, CountInv,
     TypeOK, LocalsOK, Control
<1>3. RetiredHaveFiles'
  BY DEF RetiredHaveFiles, GenerationsKept
<1>4. DoomedAlone'
  BY <1>0 DEF DoomedAlone, GenerationsKept
<1>5. QueriedWhere'
  <2>1. \A S : OnlyOn(S) => OnlyOn(S)'
    BY DEF OnlyOn, HoldersLeave
  <2>2. /\ active # None => gen'[active].persistent = gen[active].persistent
        /\ ctl.prev # None => gen'[ctl.prev].persistent = gen[ctl.prev].persistent
    BY DEF GenerationsKept, StoreInv, CountInv, TypeOK, Control
  <2> QED
    BY <2>1, <2>2 DEF QueriedWhere, DeletersKept
<1> QED
  BY <1>1, <1>2, <1>3, <1>4, <1>5

-----------------------------------------------------------------------------
(* Deleting a database.                                                    *)

\* The file of a generation that is unpublished, or doomed, is not the file
\* of another generation that is retained.
LEMMA OthersFile ==
  ASSUME RetentionInv, NEW p \in Gen, gen[p].file # None,
         gen[p].persistent => gen[p].doomed,
         NEW h \in Gen, h # p, gen[h].file # None, Retained(h)
  PROVE  gen[h].file # gen[p].file
<1> USE DEF RetentionInv, RetentionParts, StoreInv, StoreParts
<1>1. CASE gen[p].persistent /\ gen[h].persistent
  BY <1>1 DEF DoomedAlone
<1>2. CASE gen[p].persistent /\ ~ gen[h].persistent
  <2>1. Unpublished(h) /\ gen[h].file = h
    BY <1>2 DEF Unpublished, OwnFiles
  <2> QED
    BY <1>2, <2>1 DEF PublishedOnce, Published
<1>3. CASE ~ gen[p].persistent /\ gen[h].persistent
  <2>1. Unpublished(p) /\ gen[p].file = p
    BY <1>3 DEF Unpublished, OwnFiles
  <2> QED
    BY <1>3, <2>1 DEF PublishedOnce, Published
<1>4. CASE ~ gen[p].persistent /\ ~ gen[h].persistent
  BY <1>4 DEF OwnFiles
<1> QED
  BY <1>1, <1>2, <1>3, <1>4

\* What is retained has a file.
LEMMA RetainedHaveFiles ==
  ASSUME CountInv, NEW g \in Gen, Retained(g)
  PROVE  gen[g].file \in Gen /\ gen[g].file # None
<1>1. gen[g].file # None
  <2>1. CASE g \in {active, previous}
    BY <2>1, NoneAssumption DEF CountInv, Provenance, CurrentHaveFiles
  <2>2. CASE Holding(g) # {}
    BY <2>2 DEF CountInv, Provenance, QueriedHaveFiles, Holding
  <2> QED
    BY <2>1, <2>2 DEF Retained
<1> QED
  BY <1>1 DEF CountInv, TypeOK, Generation

\* So deleting it leaves what is retained in place.
LEMMA DeletionSpares ==
  ASSUME RetentionInv, NEW p \in Gen, gen[p].persistent => gen[p].doomed,
         NEW h \in Gen, h # p, Retained(h), NEW d
  PROVE  Without(d, p)[gen[h].file] = d[gen[h].file]
<1>1. gen[h].file # None /\ gen[h].file \in Gen
  BY RetainedHaveFiles DEF RetentionInv, StoreInv
<1>2. gen[p].file # None => gen[h].file # gen[p].file
  BY <1>1, OthersFile
<1> QED
  BY <1>1, <1>2 DEF Without

\* Files that a step leaves alone stay.
LEMMA KeptFrame ==
  ASSUME RetentionInv, GenerationsKept, HoldersLeave, ~ broken' => ~ broken,
         UNCHANGED <<active, previous>>,
         \A g \in Gen : Retained(g) /\ Retained(g)' =>
           disk'[gen[g].file] = disk[gen[g].file]
  PROVE  KeptFiles'
<1>1. \A g \in Gen : Retained(g)' => Retained(g)
  BY RetainedLeave
<1> QED
  BY <1>1 DEF RetentionInv, RetentionParts, KeptFiles, GenerationsKept

-----------------------------------------------------------------------------
(* The control thread.                                                     *)

\* The requests and handlers that neither delete a database nor change what
\* is current or queried.
LEMMA RetentionControl ==
  ASSUME RetentionInv,
         \/ ScanLaunch \/ SnapshotLoad \/ SnapshotAdoptFails \/ EnqueueDone
         \/ Shutdown \/ ShutdownJoin
         \/ \E r \in Root : SnapshotOpen(r)
         \/ \E g \in Gen : ScanCancel(g)
  PROVE  RetentionParts'
<1> USE DEF RetentionInv, StoreInv
<1>1. UNCHANGED <<disk, rootOf, active, previous, staging, broken>>
  BY DEF ScanLaunch, SnapshotLoad, SnapshotAdoptFails, EnqueueDone, Shutdown,
     ShutdownJoin, SnapshotOpen, ScanCancel
<1>2. GenerationsKept /\ HoldersLeave
  <2>1. CASE Shutdown
    <3>0. gen \in [Gen -> Generation] /\ job \in [Query -> Job]
      BY DEF CountInv, TypeOK
    <3>1. GenerationsKept
      BY <2>1, <3>0 DEF Shutdown, GenerationsKept, Generation
    <3>2. HoldersLeave
      <4>1. \A q \in Query :
              /\ job'[q].pc = IF q \in Queued THEN "dropped" ELSE job[q].pc
              /\ job'[q].gen = job[q].gen
        BY <2>1, <3>0 DEF Shutdown, Job
      <4> QED
        BY <4>1 DEF HoldersLeave, Outstanding, Held, Running
    <3> QED
      BY <3>1, <3>2
  <2>2. CASE UNCHANGED <<gen, job>>
    BY <2>2 DEF GenerationsKept, HoldersLeave, Outstanding
  <2> QED
    BY <2>1, <2>2 DEF ScanLaunch, SnapshotLoad, SnapshotAdoptFails,
       EnqueueDone, ShutdownJoin, SnapshotOpen, ScanCancel
<1>3. EndsKept
  <2>1. \A g \in Gen : scan'[g].pc \in {"cancelled", "failed"} =>
          scan[g].pc \in {"cancelled", "failed"}
    <3>1. CASE ScanLaunch
      BY <3>1 DEF ScanLaunch, CountInv, TypeOK, Scan
    <3>2. CASE Shutdown
      BY <3>2 DEF Shutdown, CountInv, TypeOK, Scan
    <3>3. CASE \E g \in Gen : ScanCancel(g)
      BY <3>3 DEF ScanCancel, CountInv, TypeOK, Scan
    <3>4. CASE UNCHANGED scan
      BY <3>4
    <3> QED
      BY <3>1, <3>2, <3>3, <3>4 DEF SnapshotLoad, SnapshotAdoptFails,
         EnqueueDone, ShutdownJoin, SnapshotOpen
  <2> QED
    BY <1>1, <2>1 DEF EndsKept
<1>4. DeletersKept
  <2>0. \A pc : At(pc).pc = pc
    BY DEF At
  <2>1. CASE ScanLaunch \/ SnapshotAdoptFails \/ EnqueueDone \/ ShutdownJoin
             \/ \E g \in Gen : ScanCancel(g)
    BY <2>0, <2>1 DEF ScanLaunch, SnapshotAdoptFails, EnqueueDone, ShutdownJoin,
       ScanCancel, Return, DeletersKept
  <2>2. CASE SnapshotLoad
    <3>1. CASE Return
      BY <2>0, <3>1 DEF Return, DeletersKept
    <3>2. CASE ~ Return
      BY <2>2, <3>2 DEF SnapshotLoad, DeletersKept, CountInv, TypeOK, Control
    <3> QED
      BY <3>1, <3>2
  <2>3. CASE Shutdown
    BY <2>3 DEF Shutdown, At, DeletersKept
  <2>4. ASSUME NEW r \in Root, SnapshotOpen(r) PROVE DeletersKept
    BY <2>4 DEF SnapshotOpen, At, DeletersKept
  <2> QED
    BY <2>1, <2>2, <2>3, <2>4
<1>5. KeptFiles'
  BY <1>1, <1>2, KeptFrame
<1> QED
  BY <1>1, <1>2, <1>3, <1>4, <1>5, RetentionFrame DEF RetentionParts

\* A generation that the control thread is done with: unreferenced and retired.
LEMMA UnreferencedNotRetained ==
  ASSUME RetentionInv, NEW p \in Gen, Unreferenced(p), gen[p].retired
  PROVE  ~ Retained(p)
<1> USE DEF RetentionInv, StoreInv, StoreParts
<1>1. p \notin {active, previous}
  BY NoneAssumption DEF Retirement
<1>2. Holding(p) = {}
  <2>1. Cardinality(Holding(p)) = 0 /\ IsFiniteSet(Holding(p))
    BY HolderFacts DEF CountInv, ReferencesCounted, Unreferenced
  <2> QED
    BY <2>1, FS_EmptySet
<1> QED
  BY <1>1, <1>2 DEF Retained

\* The second halves of commit, abort and shutdown delete what nobody uses.
LEMMA RetentionDelete ==
  ASSUME RetentionInv, CommitDelete \/ AbortDelete \/ ShutdownDelete
  PROVE  RetentionParts'
<1> USE DEF RetentionInv, StoreInv
<1>1. UNCHANGED <<rootOf, gen, active, previous, staging, scan, job, broken>>
  BY DEF CommitDelete, AbortDelete, ShutdownDelete
<1>2. GenerationsKept /\ HoldersLeave /\ EndsKept
  BY <1>1 DEF GenerationsKept, HoldersLeave, Outstanding, EndsKept
<1>3. DeletersKept
  BY DEF CommitDelete, AbortDelete, ShutdownDelete, Return, At, DeletersKept
<1>4. ASSUME NEW d, NEW p \in Gen, gen[p].persistent => gen[p].doomed,
             Unreferenced(p), gen[p].retired, NEW g \in Gen, Retained(g)
      PROVE  Without(d, p)[gen[g].file] = d[gen[g].file]
  <2>1. g # p
    BY <1>4, UnreferencedNotRetained
  <2> QED
    BY <1>4, <2>1, DeletionSpares
<1>5. ASSUME NEW g \in Gen, Retained(g)
      PROVE  disk'[gen[g].file] = disk[gen[g].file]
  <2> USE DEF RetentionParts
  <2>1. CASE CommitDelete
    <3>1. ctl.prev \in Gen /\ gen[ctl.prev].retired
      BY <2>1 DEF CommitDelete, CountInv, TypeOK, LocalsOK, RetiredLocals
    <3> QED
      BY <1>4, <1>5, <2>1, <3>1 DEF CommitDelete
  <2>2. CASE AbortDelete
    <3>1. ctl.gen \in Gen /\ gen[ctl.gen].retired
      BY <2>2 DEF AbortDelete, CountInv, TypeOK, LocalsOK, RetiredLocals
    <3> QED
      BY <1>4, <1>5, <2>2, <3>1 DEF AbortDelete
  <2>3. CASE ShutdownDelete
    <3> DEFINE gone(d, p) == IF p # None /\ Unreferenced(p) /\ ~ gen[p].persistent
                             THEN Without(d, p) ELSE d
    <3>1. \A p \in {ctl.gen, ctl.prev} :
            p # None => p \in Gen /\ gen[p].retired
      BY <2>3 DEF ShutdownDelete, CountInv, TypeOK, Control, RetiredLocals
    <3>2. ASSUME NEW d, NEW p \in {ctl.gen, ctl.prev}
          PROVE  gone(d, p)[gen[g].file] = d[gen[g].file]
      BY <1>4, <1>5, <3>1
    <3>3. disk' = gone(gone(disk, ctl.gen), ctl.prev)
      BY <2>3 DEF ShutdownDelete
    <3> HIDE DEF gone
    <3> QED
      BY <3>2, <3>3
  <2> QED
    BY <2>1, <2>2, <2>3
<1>6. KeptFiles'
  BY <1>1, <1>2, <1>5, KeptFrame
<1> QED
  BY <1>1, <1>2, <1>3, <1>6, RetentionFrame DEF RetentionParts

\* A database that is moved to its final path, or back, is complete.
LEMMA RetentionMove ==
  ASSUME RetentionInv, PublishRename \/ PublishFails
  PROVE  RetentionParts'
<1> USE DEF RetentionInv, StoreInv
<1>1. UNCHANGED <<rootOf, gen, active, previous, staging, scan, job, broken>>
  BY DEF PublishRename, PublishFails
<1>2. GenerationsKept /\ HoldersLeave /\ EndsKept
  BY <1>1 DEF GenerationsKept, HoldersLeave, Outstanding, EndsKept
<1>3. DeletersKept
  <2>1. CASE Return
    BY <2>1 DEF Return, At, DeletersKept
  <2>2. CASE ~ Return
    BY <2>2 DEF PublishRename, PublishFails, DeletersKept, CountInv, TypeOK, Control
  <2> QED
    BY <2>1, <2>2
<1>4. /\ ctl.gen \in Gen /\ ctl.gen \in {active, previous}
      /\ gen[ctl.gen].file = ctl.gen /\ ~ gen[ctl.gen].persistent
  BY CommittedFile DEF PublishRename, PublishFails
<1>5. /\ disk'[ctl.gen] \in {disk[ctl.gen], "work", "final"}
      /\ \A f \in Gen : f # ctl.gen => disk'[f] = disk[f]
  BY <1>4 DEF PublishRename, PublishFails, CountInv, TypeOK
<1>6. KeptFiles'
  <2>1. ASSUME ~ broken, NEW g \in Gen, Retained(g)
        PROVE  disk'[gen[g].file]
                 \in (IF gen[g].persistent THEN {"final"} ELSE {"work", "final"})
    <3>1. disk[gen[g].file]
            \in (IF gen[g].persistent THEN {"final"} ELSE {"work", "final"})
      BY <2>1 DEF RetentionParts, KeptFiles
    <3>2. CASE g = ctl.gen
      BY <1>4, <1>5, <3>1, <3>2
    <3>3. CASE g # ctl.gen
      <4>1. gen[ctl.gen].file # None
        BY <1>4, NoneAssumption
      <4>2. gen[g].file \in Gen /\ gen[g].file # None
        BY <2>1, RetainedHaveFiles
      <4>3. gen[g].file # ctl.gen
        BY <1>4, <2>1, <3>3, <4>1, <4>2, OthersFile
      <4> QED
        BY <1>5, <3>1, <4>2, <4>3
    <3> QED
      BY <3>2, <3>3
  <2>2. \A g \in Gen : Retained(g)' => Retained(g)
    BY <1>1, <1>2, RetainedLeave
  <2> QED
    BY <1>1, <2>1, <2>2 DEF KeptFiles
<1> QED
  BY <1>1, <1>2, <1>3, <1>6, RetentionFrame DEF RetentionParts

\* A commit of a published generation replaces nothing: its predecessor, if it
\* is published too, is of another target.
LEMMA RetentionCommit ==
  ASSUME RetentionInv, NEW g \in Gen, CommitStart(g)
  PROVE  RetentionParts'
<1> USE DEF RetentionInv, StoreInv, RetentionParts
<1>1. /\ UNCHANGED <<disk, rootOf, gen, active, previous, staging, scan, job, broken>>
      /\ ctl'.pc \in {"settle", "publish"}
      /\ ctl'.pc = "settle" => gen[g].persistent
      /\ ctl'.gen = g /\ ctl'.prev = previous /\ active = g /\ g # None
      /\ ctl.pc = "idle"
  BY NoneAssumption DEF CommitStart, Accepting, At
<1>2. /\ KeptFiles' /\ EndedScans' /\ RetiredLocals' /\ RetiredHaveFiles'
      /\ DoomedAlone'
  BY <1>1 DEF KeptFiles, EndedScans, RetiredLocals, RetiredHaveFiles,
     DoomedAlone, Retained, Holding, Outstanding
<1>3. QueriedWhere'
  <2>1. \A S : OnlyOn(S)' <=> OnlyOn(S)
    BY <1>1 DEF OnlyOn, Outstanding
  <2>2. gen[g].persistent /\ previous # None /\ gen[previous].persistent
          => rootOf[previous] # rootOf[g]
    BY <1>1 DEF StoreParts, TwoTargets
  <2> QED
    BY <1>1, <2>1, <2>2 DEF QueriedWhere
<1> QED
  BY <1>2, <1>3

\* The committed generation becomes published: until then it had the file of
\* its own scan, and only queries on it and its predecessor are outstanding.
LEMMA RetentionPoint ==
  ASSUME RetentionInv, PublishPoint
  PROVE  RetentionParts'
<1> DEFINE c == ctl.gen
<1> USE DEF RetentionInv, StoreInv, RetentionParts
<1>1. /\ c \in Gen /\ c # None /\ gen[c].file = c /\ ~ gen[c].persistent
      /\ ~ Published(c) /\ disk[c] = "final" /\ ctl.pc = "point"
      /\ ~ gen[c].retired /\ ~ gen[c].doomed
  BY CommittedFile, NoneAssumption DEF PublishPoint, StoreParts, Committing,
     Retirement
<1>2. /\ UNCHANGED <<disk, rootOf, active, previous, staging, scan, job, broken>>
      /\ ctl'.pc = "settle" /\ ctl'.gen = c /\ ctl'.prev = ctl.prev
  BY DEF PublishPoint, CountInv, TypeOK, Control
<1>3. /\ \A h \in Gen : h # c => gen'[h] = gen[h]
      /\ \A h \in Gen : /\ gen'[h].file = gen[h].file
                        /\ gen'[h].retired = gen[h].retired
                        /\ gen'[h].doomed = gen[h].doomed
  BY <1>1 DEF PublishPoint, CountInv, TypeOK, Generation
<1>4. \A h : Retained(h)' <=> Retained(h)
  BY <1>2 DEF Retained, Holding, Outstanding
<1>5. KeptFiles'
  <2>1. ASSUME ~ broken, NEW h \in Gen, Retained(h)
        PROVE  disk[gen'[h].file]
                 \in (IF gen'[h].persistent THEN {"final"} ELSE {"work", "final"})
    <3>1. CASE h = c
      BY <1>1, <1>3, <3>1
    <3>2. CASE h # c
      BY <1>3, <2>1, <3>2 DEF KeptFiles
    <3> QED
      BY <3>1, <3>2
  <2> QED
    BY <1>2, <1>4, <2>1 DEF KeptFiles
<1>6. EndedScans' /\ RetiredLocals' /\ RetiredHaveFiles'
  BY <1>2, <1>3 DEF EndedScans, RetiredLocals, RetiredHaveFiles
<1>7. DoomedAlone'
  <2>1. ASSUME NEW p \in Gen, NEW h \in Gen, gen'[p].persistent, gen'[p].doomed,
               h # p, gen'[h].file = gen'[p].file
        PROVE  ~ Retained(h)
    <3>1. p # c /\ gen[p].persistent /\ gen[p].doomed
      BY <1>1, <1>3, <2>1
    <3>2. gen[h].file = gen[p].file
      BY <1>3, <2>1
    <3> QED
      BY <2>1, <3>1, <3>2 DEF DoomedAlone
  <2> QED
    BY <1>4, <2>1 DEF DoomedAlone
<1>8. QueriedWhere'
  <2>1. \A S : OnlyOn(S)' <=> OnlyOn(S)
    BY <1>2 DEF OnlyOn, Outstanding
  <2>2. ctl.prev # None => OnlyOn({c, ctl.prev})
    BY <1>1 DEF StoreParts, Committing, QueriedWhere
  <2>3. active # None /\ ~ gen'[active].persistent
          => ~ gen[active].persistent
    BY <1>1, <1>3 DEF CountInv, TypeOK
  <2> QED
    BY <1>2, <2>1, <2>2, <2>3 DEF QueriedWhere
<1> QED
  BY <1>5, <1>6, <1>7, <1>8

\* The predecessor retires. When it is published and doomed, queries are on it
\* and on the committed generation only, which has another file.
LEMMA RetentionSettle ==
  ASSUME RetentionInv, CommitSettle
  PROVE  RetentionParts'
<1> DEFINE p == ctl.prev
<1> USE DEF RetentionInv, StoreInv, RetentionParts
<1>1. /\ UNCHANGED <<disk, rootOf, active, staging, scan, job, broken>>
      /\ previous' = None /\ ctl.pc = "settle"
      /\ p \in Gen \cup {None}
  BY DEF CommitSettle, CountInv, TypeOK, Control
<1>2. \/ ctl'.pc \in {"idle", "failing"}
      \/ ctl'.pc = "deletePrevious" /\ p # None /\ ctl'.prev = p
  <2>1. CASE p = None
    BY <2>1 DEF CommitSettle, Return, At
  <2>2. CASE p # None
    BY <2>2 DEF CommitSettle, CountInv, TypeOK, Control
  <2> QED
    BY <2>1, <2>2
<1>3. p # None => /\ active = ctl.gen /\ previous = p
                  /\ p # active /\ active \in Gen
                  /\ gen[p].file # None
                  /\ gen[p].persistent => gen[p].file # gen[active].file
  BY <1>1, NoneAssumption DEF StoreParts, Committing, OneUnsettled, CountInv,
     TypeOK, Provenance, CurrentHaveFiles
<1>4. /\ \A h \in Gen : /\ gen'[h].file = gen[h].file
                        /\ gen'[h].persistent = gen[h].persistent
      /\ \A h \in Gen : h # p => gen'[h] = gen[h]
      /\ p # None => gen'[p].retired /\ gen'[p].doomed = Superseded(p, ctl.gen)
  <2>1. CASE p = None
    BY <1>1, <2>1 DEF CommitSettle
  <2>2. CASE p # None
    <3>1. gen' = [gen EXCEPT ![p].retired = TRUE,
                             ![p].doomed = Superseded(p, ctl.gen)]
      BY <2>2 DEF CommitSettle
    <3> QED
      BY <1>1, <2>2, <3>1 DEF CountInv, TypeOK, Generation
  <2> QED
    BY <2>1, <2>2
<1>5. \A h \in Gen : Retained(h)' => Retained(h)
  BY <1>1, NoneAssumption DEF Retained, Holding, Outstanding
<1>6. KeptFiles' /\ EndedScans'
  BY <1>1, <1>4, <1>5 DEF KeptFiles, EndedScans
<1>7. RetiredLocals' /\ RetiredHaveFiles'
  <2>1. RetiredHaveFiles'
    <3>1. ASSUME NEW h \in Gen, gen'[h].retired PROVE gen[h].file # None
      <4>1. CASE h = p
        BY <1>3, <4>1, NoneAssumption
      <4>2. CASE h # p
        BY <1>4, <3>1, <4>2 DEF RetiredHaveFiles
      <4> QED
        BY <4>1, <4>2
    <3> QED
      BY <1>4, <3>1 DEF RetiredHaveFiles
  <2> QED
    BY <1>2, <1>4, <2>1 DEF RetiredLocals
<1>8. DoomedAlone'
  <2>1. ASSUME NEW k \in Gen, NEW h \in Gen, gen[k].persistent, gen'[k].doomed,
               h # k, gen[h].file = gen[k].file, Retained(h)'
        PROVE  FALSE
    <3>1. CASE k # p
      BY <1>4, <1>5, <2>1, <3>1 DEF DoomedAlone
    <3>2. CASE k = p
      <4>1. p # None /\ rootOf[p] = rootOf[ctl.gen]
        BY <1>4, <2>1, <3>2, NoneAssumption DEF Superseded
      <4>2. OnlyOn({ctl.gen, p})
        BY <1>1, <2>1, <3>2, <4>1 DEF QueriedWhere
      <4>3. h \in {ctl.gen, p}
        BY <1>1, <1>3, <2>1, <4>1, <4>2, NoneAssumption DEF Retained, Holding,
           OnlyOn, Outstanding
      <4> QED
        BY <1>3, <2>1, <3>2, <4>1, <4>3
    <3> QED
      BY <3>1, <3>2
  <2> QED
    BY <1>4, <2>1 DEF DoomedAlone
<1>9. QueriedWhere'
  <2>1. \A S : OnlyOn(S)' <=> OnlyOn(S)
    BY <1>1 DEF OnlyOn, Outstanding
  <2> QED
    BY <1>1, <1>2, <2>1 DEF QueriedWhere
<1> QED
  BY <1>6, <1>7, <1>8, <1>9

\* A current generation retires without being doomed.
LEMMA RetentionRetire ==
  ASSUME RetentionInv, ShutdownClose \/ \E g \in Gen : Abort(g)
  PROVE  RetentionParts'
<1> USE DEF RetentionInv, StoreInv, RetentionParts
<1>1. /\ UNCHANGED <<disk, rootOf, staging, scan, job, broken>>
      /\ active' \in {previous, None} /\ previous' = None
      /\ staging # None => active' = None
  BY DEF ShutdownClose, Abort, StoreParts, OneUnsettled
<1>2. /\ \A h \in Gen : /\ gen'[h].file = gen[h].file
                        /\ gen'[h].persistent = gen[h].persistent
                        /\ gen'[h].doomed = gen[h].doomed
                        /\ gen'[h].retired =>
                             gen[h].retired \/ h \in {active, previous}
      /\ RetiredLocals'
      /\ ctl'.pc \in {"delete", "deleteAborted"}
  <2>1. CASE ShutdownClose
    <3>1. /\ ctl'.pc = "delete" /\ ctl'.gen = active /\ ctl'.prev = previous
          /\ active \in Gen \cup {None} /\ previous \in Gen \cup {None}
      BY <2>1 DEF ShutdownClose, At, CountInv, TypeOK
    <3>2. \A h \in Gen : /\ gen'[h].file = gen[h].file
                         /\ gen'[h].persistent = gen[h].persistent
                         /\ gen'[h].doomed = gen[h].doomed
                         /\ gen'[h].retired <=>
                              gen[h].retired \/ h \in {active, previous}
      <4>1. gen \in [Gen -> Generation]
        BY DEF CountInv, TypeOK
      <4> QED
        BY <2>1, <4>1 DEF ShutdownClose, Generation
    <3>3. RetiredLocals'
      BY <3>1, <3>2, NoneAssumption DEF RetiredLocals
    <3> QED
      BY <3>1, <3>2, <3>3
  <2>2. ASSUME NEW g \in Gen, Abort(g)
        PROVE  /\ \A h \in Gen : /\ gen'[h].file = gen[h].file
                                 /\ gen'[h].persistent = gen[h].persistent
                                 /\ gen'[h].doomed = gen[h].doomed
                                 /\ gen'[h].retired =>
                                      gen[h].retired \/ h \in {active, previous}
               /\ RetiredLocals'
               /\ ctl'.pc \in {"delete", "deleteAborted"}
    <3>1. /\ ctl'.pc = "deleteAborted" /\ ctl'.gen = g /\ active = g
          /\ gen' = [gen EXCEPT ![g].retired = TRUE]
      BY <2>2 DEF Abort, At
    <3>2. RetiredLocals'
      BY <3>1 DEF RetiredLocals, CountInv, TypeOK, Generation
    <3> QED
      BY <3>1, <3>2 DEF CountInv, TypeOK, Generation
  <2> QED
    BY <2>1, <2>2
<1>3. \A h \in Gen : Retained(h)' => Retained(h)
  BY <1>1, NoneAssumption DEF Retained, Holding, Outstanding
<1>4. KeptFiles' /\ EndedScans' /\ DoomedAlone'
  BY <1>1, <1>2, <1>3 DEF KeptFiles, EndedScans, DoomedAlone
<1>5. RetiredHaveFiles'
  BY <1>2, NoneAssumption DEF RetiredHaveFiles, CountInv, Provenance, CurrentHaveFiles
<1>6. QueriedWhere'
  BY <1>1, <1>2 DEF QueriedWhere
<1> QED
  BY <1>2, <1>4, <1>5, <1>6

\* A query is accepted on a current generation, or refused.
LEMMA RetentionEnqueue ==
  ASSUME RetentionInv, NEW q \in Query, NEW g \in Gen, Enqueue(q, g)
  PROVE  RetentionParts'
<1> USE DEF RetentionInv, StoreInv, RetentionParts
<1>1. /\ UNCHANGED <<disk, rootOf, active, previous, staging, scan, broken>>
      /\ g \in {active, previous} /\ g # None
  BY NoneAssumption DEF Enqueue
<1>2. ctl'.pc \in {"supersede", "idle", "failing"}
  <2>1. CASE HasRoom(q)
    BY <2>1 DEF Enqueue, At
  <2>2. CASE ~ HasRoom(q)
    <3>1. Return
      BY <2>2 DEF Enqueue
    <3> QED
      BY <3>1 DEF Return, At
  <2> QED
    BY <2>1, <2>2
<1>3. \A h \in Gen : /\ gen'[h].file = gen[h].file
                     /\ gen'[h].persistent = gen[h].persistent
                     /\ gen'[h].retired = gen[h].retired
                     /\ gen'[h].doomed = gen[h].doomed
  <2> SUFFICES ASSUME NEW h \in Gen
               PROVE  /\ gen'[h].file = gen[h].file
                      /\ gen'[h].persistent = gen[h].persistent
                      /\ gen'[h].retired = gen[h].retired
                      /\ gen'[h].doomed = gen[h].doomed
    OBVIOUS
  <2>1. PICK n : gen'[h] = [gen[h] EXCEPT !.refs = n]
    BY DEF Enqueue
  <2>2. gen[h] \in Generation
    BY DEF CountInv, TypeOK
  <2> QED
    BY <2>1, <2>2 DEF Generation
<1>4. ASSUME NEW p \in Outstanding'
      PROVE  \/ job'[p].gen = g
             \/ p \in Outstanding /\ job'[p].gen = job[p].gen
  <2>1. CASE p = q
    BY <2>1 DEF Enqueue
  <2>2. CASE p # q
    <3>1. /\ p \in Query /\ job'[p].pc \in Held
          /\ job'[p].gen = job[p].gen
          /\ job'[p].pc \in {"dropped", job[p].pc}
      <4>1. job[p] \in Job /\ p \in Query
        BY <1>4 DEF Outstanding, CountInv, TypeOK
      <4>2. job'[p].pc \in Held
        BY <1>4 DEF Outstanding
      <4> QED
        BY <2>2, <4>1, <4>2 DEF Enqueue, Job
    <3> QED
      BY <3>1 DEF Outstanding, Held, Running
  <2> QED
    BY <2>1, <2>2
<1>5. \A h \in Gen : Retained(h)' => Retained(h)
  BY <1>1, <1>4 DEF Retained, Holding
<1>6. KeptFiles' /\ EndedScans' /\ RetiredHaveFiles' /\ DoomedAlone'
  BY <1>1, <1>3, <1>5 DEF KeptFiles, EndedScans, RetiredHaveFiles, DoomedAlone
<1>7. RetiredLocals'
  BY <1>2 DEF RetiredLocals
<1>8. QueriedWhere'
  <2>1. \A S : OnlyOn(S) /\ g \in S => OnlyOn(S)'
    BY <1>4 DEF OnlyOn
  <2>2. staging # None => g = active
    BY <1>1 DEF StoreParts, OneUnsettled
  <2>3. active # None => gen'[active].persistent = gen[active].persistent
    BY <1>3 DEF CountInv, TypeOK
  <2> QED
    BY <1>1, <1>2, <2>1, <2>2, <2>3 DEF QueriedWhere
<1> QED
  BY <1>6, <1>7, <1>8

\* A scan starts only when every query is on the active generation.
LEMMA RetentionStart ==
  ASSUME RetentionInv, NEW r \in Root, NEW g \in Gen, ScanStart(r, g)
  PROVE  RetentionParts'
<1> USE DEF RetentionInv, StoreInv, RetentionParts
<1>1. /\ UNCHANGED <<disk, gen, active, previous, job, broken>>
      /\ previous = None /\ ctl'.pc = "launch" /\ OnlyActiveQueried
  BY DEF ScanStart, At
<1>2. \A h \in Gen : scan'[h].pc \in {"cancelled", "failed"} =>
        scan[h].pc \in {"cancelled", "failed"}
  BY DEF ScanStart, CountInv, TypeOK, Scan
<1>3. \A h : Retained(h)' <=> Retained(h)
  BY <1>1 DEF Retained, Holding, Outstanding
<1>4. /\ KeptFiles' /\ EndedScans' /\ RetiredLocals' /\ RetiredHaveFiles'
      /\ DoomedAlone'
  BY <1>1, <1>2, <1>3 DEF KeptFiles, EndedScans, RetiredLocals,
     RetiredHaveFiles, DoomedAlone
<1>5. QueriedWhere'
  BY <1>1 DEF QueriedWhere, OnlyActiveQueried, OnlyOn, Outstanding
<1> QED
  BY <1>4, <1>5

\* An id gets its database: a complete one, which no doomed generation has.
LEMMA RetentionNew ==
  ASSUME RetentionInv, NEW g \in Gen, ScanActivate(g) \/ SnapshotAdopt(g)
  PROVE  RetentionParts'
<1> USE DEF RetentionInv, StoreInv, RetentionParts
<1>1. PICK file \in Gen, published \in BOOLEAN :
        /\ gen' = [gen EXCEPT ![g] = NewGeneration(file, published)]
        /\ published => disk[file] = "final" /\ SnapshotAdopt(g)
                        /\ \E r \in Root : pointer[r] = file
        /\ ~ published => file = g /\ disk[file] = "work" /\ ScanActivate(g)
  <2>1. CASE ScanActivate(g)
    BY <2>1 DEF ScanActivate
  <2>2. CASE SnapshotAdopt(g)
    BY <2>2 DEF SnapshotAdopt, CountInv, TypeOK, LocalsOK, StoreParts, Opening
  <2> QED
    BY <2>1, <2>2
<1>2. /\ gen'[g].file = file /\ gen'[g].persistent = published
      /\ ~ gen'[g].retired /\ ~ gen'[g].doomed /\ file # None
      /\ \A h \in Gen : h # g => gen'[h] = gen[h]
  BY <1>1, NoneAssumption DEF NewGeneration, CountInv, TypeOK
<1>3. /\ UNCHANGED <<disk, job, broken>>
      /\ active' = g /\ previous' = active /\ staging' = None
      /\ gen[g].file = None /\ Holding(g) = {} /\ g \notin {active, previous}
      /\ \A h \in Gen : scan'[h].pc \in {"cancelled", "failed"} =>
           h # g /\ scan[h].pc \in {"cancelled", "failed"}
  <2>1. gen[g].file = None /\ scan[g].pc \notin {"cancelled", "failed"}
    BY DEF ScanActivate, SnapshotAdopt, Unissued, CountInv, Provenance,
       UnissuedUnused, ScannedHaveNoFiles, Unactivated
  <2>2. Holding(g) = {} /\ g \notin {active, previous}
    BY <2>1, HolderFacts, NoneAssumption DEF CountInv, Provenance, CurrentHaveFiles
  <2>3. CASE ScanActivate(g)
    BY <2>1, <2>2, <2>3 DEF ScanActivate, CountInv, TypeOK, Scan
  <2>4. CASE SnapshotAdopt(g)
    BY <2>1, <2>2, <2>4 DEF SnapshotAdopt, StoreParts, Opening
  <2> QED
    BY <2>3, <2>4
<1>4. \A h \in Gen : Retained(h)' => h = g \/ Retained(h)
  BY <1>3 DEF Retained, Holding, Outstanding
<1>5. KeptFiles'
  <2>1. disk[gen'[g].file]
          \in (IF gen'[g].persistent THEN {"final"} ELSE {"work", "final"})
    BY <1>1, <1>2
  <2>2. ASSUME NEW h \in Gen, h # g, ~ broken, Retained(h)
        PROVE  disk[gen'[h].file]
                 \in (IF gen'[h].persistent THEN {"final"} ELSE {"work", "final"})
    BY <1>2, <2>2 DEF KeptFiles
  <2> QED
    BY <1>3, <1>4, <2>1, <2>2 DEF KeptFiles
<1>6. EndedScans' /\ RetiredHaveFiles'
  BY <1>2, <1>3 DEF EndedScans, RetiredHaveFiles
<1>7. RetiredLocals'
  <2>1. CASE ScanActivate(g)
    <3>1. UNCHANGED ctl
      BY <2>1 DEF ScanActivate
    <3>2. ~ gen[g].retired
      BY <1>3 DEF RetiredHaveFiles
    <3> QED
      <4>1. \A h \in Gen \cup {None} : h \in Gen /\ gen[h].retired => gen'[h].retired
        BY <1>2, <3>2
      <4>2. /\ ctl.gen \in Gen \cup {None} /\ ctl.prev \in Gen \cup {None}
            /\ LocalsOK /\ None \notin Gen
        BY NoneAssumption DEF CountInv, TypeOK, Control
      <4> QED
        BY <3>1, <4>1, <4>2 DEF RetiredLocals, LocalsOK
  <2>2. CASE SnapshotAdopt(g)
    BY <2>2 DEF SnapshotAdopt, Return, At, RetiredLocals
  <2> QED
    BY <2>1, <2>2
<1>8. DoomedAlone'
  <2>1. ASSUME NEW p \in Gen, NEW h \in Gen, gen'[p].persistent, gen'[p].doomed,
               h # p, gen'[h].file = gen'[p].file, Retained(h)'
        PROVE  FALSE
    <3>1. p # g /\ gen[p].persistent /\ gen[p].doomed /\ gen'[p].file = gen[p].file
      BY <1>2, <2>1
    <3>2. CASE h # g
      BY <1>2, <1>4, <2>1, <3>1, <3>2 DEF DoomedAlone
    <3>3. CASE h = g /\ published
      <4>1. gen[p].file = file
        BY <1>2, <2>1, <3>1, <3>3
      <4>2. \A r \in Root : pointer[r] # gen[p].file
        BY <3>1 DEF StoreParts, Retirement
      <4> QED
        BY <1>1, <3>3, <4>1, <4>2
    <3>4. CASE h = g /\ ~ published
      <4>1. ~ Published(g)
        BY <1>1, <3>4 DEF ScanActivate, StoreParts, PublishedOnce, Unpublished,
           Unactivated
      <4> QED
        BY <1>1, <1>2, <2>1, <3>1, <3>4, <4>1 DEF Published
    <3> QED
      BY <3>2, <3>3, <3>4
  <2> QED
    BY <2>1 DEF DoomedAlone
<1>9. QueriedWhere'
  <2>1. \A S : OnlyOn(S)' <=> OnlyOn(S)
    BY <1>3 DEF OnlyOn, Outstanding
  <2>2. CASE published
    <3>1. SnapshotAdopt(g)
      BY <1>1, <2>2
    <3>2. ctl'.pc # "settle"
      BY <3>1 DEF SnapshotAdopt, Return, At
    <3> QED
      BY <1>2, <1>3, <2>2, <3>2 DEF QueriedWhere
  <2>3. CASE ~ published
    <3>1. UNCHANGED <<ctl, rootOf>> /\ staging = g /\ g # None
      BY <1>1, <2>3, NoneAssumption DEF ScanActivate, StillWanted
    <3>2. active # None => OnlyOn({g, active})
      BY <3>1 DEF QueriedWhere, OnlyOn
    <3>3. ctl.pc = "settle" => ctl.prev = None
      BY <3>1 DEF StoreParts, OneUnsettled, Committing
    <3> QED
      BY <1>3, <2>1, <3>1, <3>2, <3>3 DEF QueriedWhere
  <2> QED
    BY <2>2, <2>3
<1> QED
  BY <1>5, <1>6, <1>7, <1>8, <1>9

-----------------------------------------------------------------------------
(* The other threads.                                                      *)

\* A scan writes and clears its own file, which no generation has.
LEMMA RetentionScan ==
  ASSUME RetentionInv, NEW g \in Gen,
         \/ ScanOpen(g) \/ ScanFinalize(g) \/ ScanStops(g) \/ ScanFails(g)
         \/ ScanAnnounce(g) \/ FinishScan(g) \/ ScanReport(g) \/ ScanTimedOut(g)
  PROVE  RetentionParts'
<1> USE DEF RetentionInv, StoreInv, RetentionParts
<1>1. /\ UNCHANGED <<rootOf, gen, active, previous, job, ctl, broken>>
      /\ staging' \in {staging, None}
  <2>1. CASE ScanOpen(g) \/ ScanFinalize(g) \/ ScanStops(g) \/ ScanFails(g)
    BY <2>1 DEF ScanOpen, ScanFinalize, ScanStops, ScanFails
  <2>2. CASE ScanAnnounce(g) \/ FinishScan(g) \/ ScanReport(g) \/ ScanTimedOut(g)
    BY <2>2 DEF ScanAnnounce, FinishScan, ScanReport, ScanTimedOut, StagingAfter
  <2> QED
    BY <2>1, <2>2
<1>2. GenerationsKept /\ HoldersLeave /\ DeletersKept
  BY <1>1 DEF GenerationsKept, HoldersLeave, DeletersKept, Outstanding
<1>3. EndsKept
  <2> USE DEF CountInv, TypeOK, Scan
  <2>1. CASE ScanOpen(g) \/ ScanFinalize(g)
    <3>1. \E pc \in {"writing", "finalized"} : scan' = [scan EXCEPT ![g].pc = pc]
      BY <2>1 DEF ScanOpen, ScanFinalize
    <3> QED
      BY <1>1, <3>1 DEF EndsKept
  <2>2. CASE ScanStops(g) \/ ScanFails(g)
    <3>1. gen[g].file = None
      BY <2>2 DEF ScanStops, ScanFails, Provenance, ScannedHaveNoFiles, Unactivated
    <3> QED
      BY <1>1, <2>2, <3>1 DEF ScanStops, ScanFails, EndsKept
  <2>3. CASE ScanAnnounce(g)
    BY <1>1, <2>3 DEF ScanAnnounce, EndsKept
  <2>4. CASE FinishScan(g) \/ ScanReport(g)
    <3>1. \E pc \in {"done", "scanFailed", "scanCancelled"} :
            scan' = [scan EXCEPT ![g].pc = pc]
      BY <2>4 DEF FinishScan, ScanReport, OutcomeOf
    <3> QED
      BY <1>1, <3>1 DEF EndsKept
  <2>5. CASE ScanTimedOut(g)
    BY <1>1, <2>5 DEF ScanTimedOut, EndsKept
  <2> QED
    BY <2>1, <2>2, <2>3, <2>4, <2>5
<1>4. KeptFiles'
  <2>1. CASE UNCHANGED disk
    BY <1>1, <1>2, <2>1, KeptFrame
  <2>2. CASE ScanOpen(g) \/ ScanFinalize(g) \/ FinishScan(g)
    <3>1. \A f \in Gen : f # g => disk'[f] = disk[f]
      BY <2>2 DEF ScanOpen, ScanFinalize, FinishScan, CountInv, TypeOK
    <3>2. disk'[g] # disk[g] =>
            ScanOpen(g) \/ ScanFinalize(g) \/ disk[g] \in {"partial", "work"}
      BY <2>2 DEF FinishScan, CountInv, TypeOK
    <3>3. ~ broken => gen[g].file = None
      BY <2>2 DEF ScanOpen, ScanFinalize, FinishScan, EndedScans, CountInv,
         Provenance, ScannedHaveNoFiles, Unactivated
    <3>4. ASSUME ~ broken, NEW h \in Gen, Retained(h)
          PROVE  disk'[gen[h].file] = disk[gen[h].file]
      <4>1. gen[h].file \in Gen /\ gen[h].file # None
        BY <3>4, RetainedHaveFiles
      <4>2. CASE gen[h].file = g
        <5>1. gen[h].persistent
          BY <3>3, <3>4, <4>1, <4>2 DEF StoreParts, OwnFiles
        <5>2. disk[g] = "final"
          BY <3>4, <4>2, <5>1 DEF KeptFiles
        <5>3. ~ (ScanOpen(g) \/ ScanFinalize(g))
          BY <4>2, <5>1 DEF ScanOpen, ScanFinalize, StoreParts, PublishedOnce,
             Unpublished, Published, Unactivated
        <5> QED
          BY <3>2, <4>2, <5>2, <5>3
      <4>3. CASE gen[h].file # g
        BY <3>1, <4>1, <4>3
      <4> QED
        BY <4>2, <4>3
    <3>5. CASE broken
      BY <1>1, <3>5 DEF KeptFiles
    <3>6. CASE ~ broken
      BY <1>1, <1>2, <3>4, <3>6, KeptFrame
    <3> QED
      BY <3>5, <3>6
  <2> QED
    BY <2>1, <2>2 DEF ScanStops, ScanFails, ScanAnnounce, ScanReport, ScanTimedOut
<1> QED
  BY <1>1, <1>2, <1>3, <1>4, RetentionFrame

\* A settled query may be the last on a doomed generation: its database is
\* deleted and nobody else has it.
LEMMA RetentionQuery ==
  ASSUME RetentionInv, QueryStep
  PROVE  RetentionParts'
<1> USE DEF RetentionInv, StoreInv, RetentionParts
<1>1. UNCHANGED <<rootOf, active, previous, staging, scan, ctl, broken>>
  BY DEF QueryStep, Take, RunStep, Look, Open, Execute, Fail, Finish, QueryExit
<1>2. EndsKept /\ DeletersKept
  BY <1>1 DEF EndsKept, DeletersKept
<1>3. HoldersLeave
  <2>1. ASSUME NEW q \in Query, Take(q) \/ RunStep(q) \/ Finish(q)
        PROVE  job[q].pc \in Held /\ OnlyMoves(q)
    <3>1. /\ TypeOK /\ Running \subseteq Held
          /\ {"taken", "done"} \subseteq JobPc
      BY DEF CountInv, Running, JobPc, Held
    <3>2. CASE Take(q) \/ Finish(q)
      BY <3>1, <3>2, Moving DEF Take, Finish, Queued, Held
    <3>3. CASE RunStep(q)
      BY <3>1, <3>3, RunMoves, TypeAnswer
    <3> QED
      BY <2>1, <3>2, <3>3
  <2>2. ASSUME NEW q \in Query, Take(q) \/ RunStep(q) \/ Finish(q)
        PROVE  HoldersLeave
    BY <2>1, <2>2 DEF OnlyMoves, HoldersLeave, Outstanding
  <2>3. CASE QueryExit
    BY <2>3 DEF QueryExit, HoldersLeave, Outstanding
  <2> QED
    BY <2>2, <2>3 DEF QueryStep
<1>4. ASSUME NEW q \in Query, Finish(q) PROVE GenerationsKept /\ KeptFiles'
  <2>1. PICK G \in Gen : G = job[q].gen
    BY <1>4 DEF Finish, Outstanding, Held, CountInv, Provenance, QueriedHaveFiles
  <2>2. GenerationsKept
    BY <1>4 DEF Finish, GenerationsKept, CountInv, TypeOK, Generation
  <2>3. CASE LastReference(G)
    <3>1. disk' = Without(disk, G) /\ gen[G].doomed /\ gen[G].retired
      BY <1>4, <2>1, <2>3 DEF Finish, LastReference
    <3>2. ~ Retained(G)'
      <4>1. IsFiniteSet(Holding(G)) /\ Cardinality(Holding(G)) = 1
        BY <2>3, HolderFacts DEF LastReference, CountInv, ReferencesCounted
      <4>2. Holding(G) = {q}
        <5>1. q \in Holding(G)
          BY <1>4, <2>1 DEF Finish, Holding, Outstanding, Held
        <5>2. PICK x : Holding(G) = {x}
          BY <4>1, FS_Singleton
        <5> QED
          BY <5>1, <5>2
      <4>3. q \notin Outstanding'
        BY <1>4 DEF Finish, Outstanding, Held, Running, CountInv, TypeOK, Job
      <4>4. Holding(G)' = {}
        BY <1>3, <4>2, <4>3 DEF Holding, HoldersLeave
      <4>5. G \notin {active, previous}
        BY <3>1, NoneAssumption DEF StoreParts, Retirement
      <4> QED
        BY <1>1, <4>4, <4>5 DEF Retained
    <3>3. ASSUME NEW h \in Gen, Retained(h), Retained(h)'
          PROVE  disk'[gen[h].file] = disk[gen[h].file]
      BY <3>1, <3>2, <3>3, DeletionSpares
    <3> QED
      BY <1>1, <1>3, <2>2, <3>3, KeptFrame
  <2>4. CASE ~ LastReference(G)
    <3>1. UNCHANGED disk
      BY <1>4, <2>1, <2>4 DEF Finish
    <3> QED
      BY <1>1, <1>3, <2>2, <3>1, KeptFrame
  <2> QED
    BY <2>3, <2>4
<1>5. CASE QueryExit \/ \E q \in Query : Take(q) \/ RunStep(q)
  <2>1. UNCHANGED <<disk, gen>>
    BY <1>5 DEF QueryExit, Take, RunStep, Look, Open, Execute, Fail
  <2>2. GenerationsKept
    BY <2>1 DEF GenerationsKept
  <2>3. KeptFiles'
    BY <1>1, <1>3, <2>1, <2>2, KeptFrame
  <2> QED
    BY <1>1, <1>2, <1>3, <2>2, <2>3, RetentionFrame
<1> QED
  BY <1>1, <1>2, <1>3, <1>4, <1>5, RetentionFrame DEF QueryStep

\* The pipe breaks, nothing happens, or a new process starts with nothing.
LEMMA RetentionRest ==
  ASSUME RetentionInv, BreakPipe \/ UNCHANGED vars \/ Restart
  PROVE  RetentionParts'
<1> USE DEF RetentionInv, StoreInv, RetentionParts
<1>1. CASE BreakPipe \/ UNCHANGED vars
  <2>1. /\ UNCHANGED <<disk, rootOf, gen, active, previous, staging, scan, job, ctl>>
        /\ ~ broken' => ~ broken
    BY <1>1 DEF BreakPipe, vars, memory
  <2>2. GenerationsKept /\ HoldersLeave /\ EndsKept /\ DeletersKept
    BY <2>1 DEF GenerationsKept, HoldersLeave, EndsKept, DeletersKept, Outstanding
  <2> QED
    BY <2>1, <2>2, KeptFrame, RetentionFrame
<1>2. CASE Restart
  <2>1. /\ active' = None /\ previous' = None /\ staging' = None
        /\ ctl'.pc = "idle" /\ Outstanding' = {}
    BY <1>2 DEF Restart, At, NoJobs, Outstanding, Held, Running
  <2>2. \A g \in Gen : /\ ~ Retained(g)' /\ ~ gen'[g].retired
                       /\ ~ gen'[g].doomed
                       /\ scan'[g].pc \notin {"cancelled", "failed"}
    <3>1. \A g \in Gen : ~ gen'[g].retired /\ ~ gen'[g].doomed
                         /\ scan'[g].pc \notin {"cancelled", "failed"}
      BY <1>2 DEF Restart, NoGenerations, NewGeneration, NoScans
    <3>2. \A g \in Gen : ~ Retained(g)'
      BY <2>1, NoneAssumption DEF Retained, Holding
    <3> QED
      BY <3>1, <3>2
  <2> QED
    BY <2>1, <2>2 DEF KeptFiles, EndedScans, RetiredLocals, RetiredHaveFiles,
       DoomedAlone, QueriedWhere
<1> QED
  BY <1>1, <1>2

\* Every step preserves what is known of the files in use.
LEMMA RetentionNext == RetentionInv /\ [Next]_vars => RetentionParts'
<1> SUFFICES ASSUME RetentionInv, [Next]_vars PROVE RetentionParts'
  OBVIOUS
<1>1. CASE Request
  BY <1>1, RetentionStart, RetentionControl, RetentionCommit, RetentionRetire,
     RetentionEnqueue DEF Request
<1>2. CASE Shutdown \/ Continue
  BY <1>2, RetentionControl, RetentionDelete, RetentionMove, RetentionPoint,
     RetentionSettle, RetentionRetire, RetentionNew DEF Continue
<1>3. CASE QueryStep
  BY <1>3, RetentionQuery
<1>4. ASSUME NEW g \in Gen, ScanStep(g) \/ ScanTimedOut(g) PROVE RetentionParts'
  BY <1>4, RetentionScan, RetentionNew DEF ScanStep
<1>5. CASE BreakPipe \/ UNCHANGED vars \/ Restart
  BY <1>5, RetentionRest
<1> QED
  BY <1>1, <1>2, <1>3, <1>4, <1>5 DEF Next

\* Nothing is in use at first.
LEMMA RetentionInit == Init => RetentionParts
<1> SUFFICES ASSUME Init PROVE RetentionParts
  OBVIOUS
<1>1. /\ active = None /\ previous = None /\ staging = None
      /\ ctl.pc = "idle" /\ Outstanding = {}
  BY DEF Init, At, NoJobs, Outstanding, Held, Running
<1>2. \A g \in Gen : ~ gen[g].retired /\ ~ gen[g].doomed
                     /\ scan[g].pc \notin {"cancelled", "failed"}
  BY DEF Init, NoGenerations, NewGeneration, NoScans
<1>3. \A g \in Gen : ~ Retained(g)
  BY <1>1, NoneAssumption DEF Retained, Holding
<1> QED
  BY <1>1, <1>2, <1>3 DEF RetentionParts, KeptFiles, EndedScans, RetiredLocals,
     RetiredHaveFiles, DoomedAlone, QueriedWhere

\* The invariant holds at first and is preserved.
LEMMA RetentionInductive ==
  /\ Init => RetentionInv
  /\ RetentionInv /\ [Next]_vars => RetentionInv'
BY StoreInductive, RetentionInit, RetentionNext DEF RetentionInv

\* While the output is intact, the database of the active and the previous
\* generation, and of every generation a query still holds, is on disk: no
\* commit, abort, shutdown, settled query or ended scan deletes a file that is
\* in use, even when several ids were opened from one file.
THEOREM RetentionCorrect == Spec => []RetainedFilesPresent
<1>1. RetentionInv => RetainedFilesPresent
  BY RetainedHaveFiles DEF RetentionInv, RetentionParts, StoreInv, KeptFiles,
     RetainedFilesPresent, Retained
<1> QED
  BY <1>1, RetentionInductive, PTL DEF Spec

-----------------------------------------------------------------------------
(* Where the files are. A broker whose publishing never fails half-way     *)
(* carries the right path of every database it may be asked to query,      *)
(* except between the two halves of a publication.                         *)

Places ==
  \A g \in Gen : gen[g].file # None =>
    /\ gen[g].persistent => gen[g].place = "final"
    /\ ~ gen[g].persistent /\ disk[g] = "final" => ctl.pc = "point" /\ ctl.gen = g

PlacesInv == RetentionInv /\ Places

\* What a query has read, and then finds, of the path of its database.
Opened == {"looked", "open", "missing", "changed"}
PathsRead ==
  \A q \in Query : job[q].pc \in Opened =>
    /\ job[q].path # "none"
    /\ job[q].path = "final" => gen[job[q].gen].persistent
    /\ job[q].pc \in {"missing", "changed"} /\ ~ broken =>
         job[q].path = "work" /\ disk[gen[job[q].gen].file] = "final"

-----------------------------------------------------------------------------
(* What is deleted. A doomed database is waiting for its last query, is    *)
(* about to be deleted by the commit that doomed it, or is gone.           *)

DoomedDeleted ==
  ~ shutdown =>
    \A g \in Gen : gen[g].doomed =>
      \/ gen[g].refs > 0
      \/ disk[gen[g].file] = "absent"
      \/ ctl.pc = "deletePrevious" /\ ctl.prev = g

\* A database that has been activated, or published, is complete or gone.
WholeOrGone ==
  \A g \in Gen : gen[g].file # None =>
    disk[gen[g].file] \in
      (IF gen[g].persistent THEN {"final", "absent"} ELSE {"work", "final", "absent"})

ShutdownEnds ==
  shutdown => ctl.pc \in {"join", "close", "delete", "stopped", "dead"}

ReclaimInv == PlacesInv /\ WholeOrGone /\ DoomedDeleted /\ ShutdownEnds

-----------------------------------------------------------------------------
(* Which steps change what: the paths of the generations, the handler at   *)
(* the pointer, and the state of one file.                                 *)

PathsKept ==
  \A g \in Gen : /\ gen'[g].file = gen[g].file
                 /\ gen'[g].place = gen[g].place
                 /\ gen'[g].persistent = gen[g].persistent

\* A path changes when a generation is new or published, or all are forgotten.
LEMMA PathSteps ==
  ASSUME TypeOK, [Next]_vars
  PROVE  \/ PathsKept \/ PublishPoint \/ Restart
         \/ \E g \in Gen : ScanActivate(g) \/ SnapshotAdopt(g)
<1> USE DEF TypeOK, Generation
<1>0. UNCHANGED gen => PathsKept
  BY DEF PathsKept
<1>1. CASE Request
  <2>1. ASSUME NEW g \in Gen, Abort(g) PROVE PathsKept
    BY <2>1 DEF Abort, PathsKept
  <2>2. ASSUME NEW q \in Query, NEW g \in Gen, Enqueue(q, g) PROVE PathsKept
    <3> SUFFICES ASSUME NEW h \in Gen
                 PROVE  /\ gen'[h].file = gen[h].file
                        /\ gen'[h].place = gen[h].place
                        /\ gen'[h].persistent = gen[h].persistent
      BY DEF PathsKept
    <3>1. PICK n : gen'[h] = [gen[h] EXCEPT !.refs = n]
      BY <2>2 DEF Enqueue
    <3> QED
      BY <3>1
  <2> QED
    BY <1>0, <1>1, <2>1, <2>2 DEF Request, ScanStart, ScanCancel, CommitStart,
       SnapshotOpen
<1>2. CASE Shutdown
  <2>1. \A g \in Gen : gen[g] \in Generation
    OBVIOUS
  <2> QED
    BY <1>2, <2>1 DEF Shutdown, PathsKept
<1>3. CASE CommitSettle
  <2>1. CASE ctl.prev = None
    BY <1>0, <1>3, <2>1 DEF CommitSettle
  <2>2. CASE ctl.prev # None
    <3>1. gen' = [gen EXCEPT ![ctl.prev].retired = TRUE,
                             ![ctl.prev].doomed = Superseded(ctl.prev, ctl.gen)]
      BY <1>3, <2>2 DEF CommitSettle
    <3> QED
      BY <3>1 DEF PathsKept
  <2> QED
    BY <2>1, <2>2
<1>4. CASE ShutdownClose
  BY <1>4 DEF ShutdownClose, PathsKept
<1>5. CASE Continue /\ ~ (CommitSettle \/ ShutdownClose)
  BY <1>0, <1>5 DEF Continue, ScanLaunch, SnapshotLoad, SnapshotAdoptFails,
     EnqueueDone, PublishRename, PublishFails, CommitDelete, AbortDelete,
     ShutdownJoin, ShutdownDelete
<1>6. CASE QueryStep
  <2>1. ASSUME NEW q \in Query, Finish(q) PROVE PathsKept
    BY <2>1 DEF Finish, PathsKept
  <2> QED
    BY <1>0, <1>6, <2>1 DEF QueryStep, Take, RunStep, Look, Open, Execute, Fail, QueryExit
<1>7. ASSUME NEW g \in Gen, ScanStep(g) \/ ScanTimedOut(g)
      PROVE  PathsKept \/ ScanActivate(g)
  BY <1>0, <1>7 DEF ScanStep, ScanOpen, ScanFinalize, ScanStops, ScanFails,
     ScanAnnounce, FinishScan, ScanReport, ScanTimedOut
<1>8. CASE BreakPipe \/ UNCHANGED vars
  BY <1>0, <1>8 DEF BreakPipe, vars, memory
<1> QED
  BY <1>1, <1>2, <1>3, <1>4, <1>5, <1>6, <1>7, <1>8 DEF Next

\* The handler of a commit goes on with that commit, or the process ends.
LEMMA CommitterSteps ==
  ASSUME [Next]_vars
  PROVE  /\ ctl.pc = "point" =>
              ctl' = ctl \/ PublishPoint \/ PublishFails \/ Restart
         /\ ctl.pc = "deletePrevious" => ctl' = ctl \/ CommitDelete \/ Restart
<1>1. CASE Request \/ Shutdown
  BY <1>1 DEF Request, Shutdown, ScanStart, ScanCancel, CommitStart, Abort,
     Enqueue, SnapshotOpen, Accepting
<1>2. CASE Continue
  BY <1>2 DEF Continue, ScanLaunch, SnapshotLoad, SnapshotAdoptFails,
     EnqueueDone, PublishRename, PublishPoint, PublishFails, CommitSettle,
     CommitDelete, AbortDelete, ShutdownJoin, ShutdownClose, ShutdownDelete,
     SnapshotAdopt
<1>3. CASE QueryStep
  BY <1>3 DEF QueryStep, Take, RunStep, Look, Open, Execute, Fail, Finish, QueryExit
<1>4. ASSUME NEW g \in Gen, ScanStep(g) \/ ScanTimedOut(g) PROVE UNCHANGED ctl
  BY <1>4 DEF ScanStep, ScanOpen, ScanFinalize, ScanStops, ScanFails,
     ScanActivate, ScanAnnounce, FinishScan, ScanReport, ScanTimedOut
<1>5. CASE BreakPipe \/ UNCHANGED vars
  BY <1>5 DEF BreakPipe, vars, memory
<1> QED
  BY <1>1, <1>2, <1>3, <1>4, <1>5 DEF Next

\* Deleting makes files absent and does nothing else.
LEMMA WithoutOnly ==
  ASSUME NEW d \in [Gen -> FileState], NEW p, NEW f \in Gen
  PROVE  Without(d, p)[f] \in {d[f], "absent"}
BY DEF Without

\* A file is deleted, written by its own scan, or moved by its own commit.
LEMMA FileSteps ==
  ASSUME StoreInv, [Next]_vars, NEW f \in Gen
  PROVE  \/ disk'[f] \in {disk[f], "absent"}
         \/ scan[f].pc \in Unactivated
         \/ /\ ctl.pc = "publish" /\ ctl.gen = f /\ Readable(f)
            /\ disk'[f] = "final" /\ ctl' = [ctl EXCEPT !.pc = "point"]
         \/ PublishFails /\ ctl.gen = f /\ disk'[f] \in {disk[f], "work"}
<1> DEFINE Goal ==
      \/ disk'[f] \in {disk[f], "absent"}
      \/ scan[f].pc \in Unactivated
      \/ /\ ctl.pc = "publish" /\ ctl.gen = f /\ Readable(f)
         /\ disk'[f] = "final" /\ ctl' = [ctl EXCEPT !.pc = "point"]
      \/ PublishFails /\ ctl.gen = f /\ disk'[f] \in {disk[f], "work"}
<1> USE DEF StoreInv
<1>0. disk \in [Gen -> FileState]
  BY DEF CountInv, TypeOK
<1>1. CASE Request \/ Shutdown
  BY <1>1 DEF Request, Shutdown, ScanStart, ScanCancel, CommitStart, Abort,
     Enqueue, SnapshotOpen
<1>2. CASE PublishRename
  <2>1. ctl.pc = "publish" /\ ctl.gen \in Gen /\ gen[ctl.gen].file = ctl.gen
    BY <1>2, CommittedFile DEF PublishRename
  <2>2. CASE Readable(ctl.gen)
    BY <1>0, <1>2, <2>1, <2>2 DEF PublishRename
  <2>3. CASE ~ Readable(ctl.gen)
    BY <1>2, <2>3 DEF PublishRename
  <2> QED
    BY <2>2, <2>3
<1>3. CASE PublishFails
  <2>1. ctl.gen \in Gen /\ gen[ctl.gen].file = ctl.gen
    BY <1>3, CommittedFile DEF PublishFails
  <2> QED
    BY <1>0, <1>3, <2>1 DEF PublishFails
<1>4. CASE CommitDelete \/ AbortDelete
  BY <1>0, <1>4, WithoutOnly DEF CommitDelete, AbortDelete
<1>5. CASE ShutdownDelete
  <2> DEFINE gone(d, p) == IF p # None /\ Unreferenced(p) /\ ~ gen[p].persistent
                           THEN Without(d, p) ELSE d
  <2>1. \A d \in [Gen -> FileState] : \A p :
          /\ gone(d, p) \in [Gen -> FileState]
          /\ gone(d, p)[f] \in {d[f], "absent"}
    BY WithoutOnly, TypeWithout
  <2>2. disk' = gone(gone(disk, ctl.gen), ctl.prev)
    BY <1>5 DEF ShutdownDelete
  <2> HIDE DEF gone
  <2> QED
    BY <1>0, <2>1, <2>2
<1>6. CASE Continue /\ ~ (\/ PublishRename \/ PublishFails \/ CommitDelete
                          \/ AbortDelete \/ ShutdownDelete)
  BY <1>6 DEF Continue, ScanLaunch, SnapshotLoad, SnapshotAdoptFails,
     EnqueueDone, PublishPoint, CommitSettle, ShutdownJoin, ShutdownClose,
     SnapshotAdopt
<1>7. CASE QueryStep
  <2>1. ASSUME NEW q \in Query, Finish(q) PROVE Goal
    BY <1>0, <2>1, WithoutOnly DEF Finish
  <2> QED
    BY <1>7, <2>1 DEF QueryStep, Take, RunStep, Look, Open, Execute, Fail, QueryExit
<1>8. ASSUME NEW g \in Gen, ScanStep(g) \/ ScanTimedOut(g) PROVE Goal
  <2>1. CASE ScanOpen(g) \/ ScanFinalize(g)
    BY <1>0, <2>1 DEF ScanOpen, ScanFinalize, Unactivated
  <2>2. CASE FinishScan(g)
    BY <1>0, <2>2 DEF FinishScan
  <2> QED
    BY <1>8, <2>1, <2>2 DEF ScanStep, ScanStops, ScanFails, ScanActivate,
       ScanAnnounce, ScanReport, ScanTimedOut
<1>9. CASE BreakPipe \/ Restart \/ UNCHANGED vars
  BY <1>9 DEF BreakPipe, Restart, vars, memory
<1> QED
  BY <1>1, <1>2, <1>3, <1>4, <1>5, <1>6, <1>7, <1>8, <1>9 DEF Next

-----------------------------------------------------------------------------
(* Places and completeness of the files.                                   *)

\* A file of a generation is not one that a scan still writes.
LEMMA WrittenFile ==
  ASSUME StoreInv, NEW g \in Gen, gen[g].file # None
  PROVE  gen[g].file \in Gen /\ scan[gen[g].file].pc \notin Unactivated
<1> USE DEF StoreInv, StoreParts
<1>1. gen[g].file \in Gen
  BY DEF CountInv, TypeOK, Generation
<1>2. CASE gen[g].persistent
  BY <1>1, <1>2 DEF PublishedOnce, Unpublished, Published
<1>3. CASE ~ gen[g].persistent
  BY <1>3 DEF OwnFiles, CountInv, Provenance, ScannedHaveNoFiles
<1> QED
  BY <1>1, <1>2, <1>3

\* The generation that a new file, or a pointer to it, is given to.
LEMMA NewPlaces ==
  ASSUME StoreInv, NEW g \in Gen, ScanActivate(g) \/ SnapshotAdopt(g)
  PROVE  /\ \A h \in Gen : h # g => gen'[h] = gen[h]
         /\ UNCHANGED disk
         /\ ~ gen'[g].doomed
         /\ gen'[g].file # None
         /\ gen'[g].persistent => gen'[g].place = "final" /\ disk[gen'[g].file] = "final"
         /\ ~ gen'[g].persistent => gen'[g].file = g /\ disk[g] = "work"
         /\ (ScanActivate(g) /\ UNCHANGED ctl) \/ ctl.pc = "adopt"
<1>1. CASE ScanActivate(g)
  BY <1>1, NoneAssumption DEF ScanActivate, NewGeneration, StoreInv, CountInv, TypeOK
<1>2. CASE SnapshotAdopt(g)
  BY <1>2, NoneAssumption DEF SnapshotAdopt, NewGeneration, StoreInv, CountInv,
     TypeOK, LocalsOK
<1> QED
  BY <1>1, <1>2

\* The generation that a commit publishes.
LEMMA PublishedPlaces ==
  ASSUME StoreInv, PublishPoint
  PROVE  /\ UNCHANGED disk
         /\ ctl.pc = "point" /\ ctl.gen \in Gen
         /\ \A h \in Gen : h # ctl.gen => gen'[h] = gen[h]
         /\ gen'[ctl.gen].persistent /\ gen'[ctl.gen].place = "final"
         /\ gen'[ctl.gen].file = ctl.gen /\ gen[ctl.gen].file = ctl.gen
         /\ gen'[ctl.gen].doomed = gen[ctl.gen].doomed
         /\ gen'[ctl.gen].refs = gen[ctl.gen].refs
         /\ disk[ctl.gen] = "final"
<1>1. ctl.pc = "point" /\ ctl.gen \in Gen /\ gen[ctl.gen].file = ctl.gen
  BY CommittedFile DEF PublishPoint
<1>2. disk[ctl.gen] = "final"
  BY <1>1 DEF StoreInv, StoreParts, Committing
<1>3. UNCHANGED disk /\
        gen' = [gen EXCEPT ![ctl.gen].place = "final", ![ctl.gen].persistent = TRUE]
  BY DEF PublishPoint
<1>4. gen[ctl.gen] \in Generation
  BY <1>1 DEF StoreInv, CountInv, TypeOK
<1>5. gen'[ctl.gen] = [gen[ctl.gen] EXCEPT !.place = "final", !.persistent = TRUE]
  BY <1>1, <1>3 DEF StoreInv, CountInv, TypeOK
<1>6. \A h \in Gen : h # ctl.gen => gen'[h] = gen[h]
  BY <1>1, <1>3 DEF StoreInv, CountInv, TypeOK
<1>7. /\ gen'[ctl.gen].persistent /\ gen'[ctl.gen].place = "final"
      /\ gen'[ctl.gen].file = gen[ctl.gen].file
      /\ gen'[ctl.gen].doomed = gen[ctl.gen].doomed
      /\ gen'[ctl.gen].refs = gen[ctl.gen].refs
  BY <1>4, <1>5 DEF Generation
<1> QED
  BY <1>1, <1>2, <1>3, <1>6, <1>7

\* A new process remembers no generation.
LEMMA RestartForgets ==
  ASSUME Restart, NEW g \in Gen
  PROVE  gen'[g].file = None /\ ~ gen'[g].doomed /\ ~ shutdown'
BY DEF Restart, NoGenerations, NewGeneration

\* Publishing that does not fail half-way keeps every path right.
LEMMA PlacesNext ==
  ASSUME "store" \notin Faults, PlacesInv, [Next]_vars
  PROVE  Places'
<1> USE DEF PlacesInv, RetentionInv
<1>0. TypeOK /\ ~ PublishFails
  BY DEF StoreInv, CountInv, PublishFails
<1>1. CASE Restart
  BY <1>1, RestartForgets DEF Places
<1>2. ASSUME NEW g \in Gen, ScanActivate(g) \/ SnapshotAdopt(g) PROVE Places'
  BY <1>2, NewPlaces DEF Places
<1>3. CASE PublishPoint
  BY <1>3, PublishedPlaces DEF Places
<1>4. CASE PathsKept /\ ~ Restart /\ ~ PublishPoint
  <2> SUFFICES ASSUME NEW g \in Gen, gen'[g].file # None
               PROVE  /\ gen'[g].persistent => gen'[g].place = "final"
                      /\ ~ gen'[g].persistent /\ disk'[g] = "final"
                           => ctl'.pc = "point" /\ ctl'.gen = g
    BY DEF Places
  <2>1. /\ gen[g].file # None /\ gen'[g].place = gen[g].place
        /\ gen'[g].persistent = gen[g].persistent
    BY <1>4 DEF PathsKept
  <2>2. ASSUME ~ gen[g].persistent, disk'[g] = "final"
        PROVE  ctl'.pc = "point" /\ ctl'.gen = g
    <3>1. gen[g].file = g /\ scan[g].pc \notin Unactivated
      BY <2>1, <2>2, WrittenFile DEF StoreInv, StoreParts, OwnFiles
    <3>2. \/ disk[g] = "final"
          \/ ctl.gen = g /\ ctl' = [ctl EXCEPT !.pc = "point"]
      BY <1>0, <2>2, <3>1, FileSteps
    <3>3. CASE disk[g] = "final"
      <4>1. ctl.pc = "point" /\ ctl.gen = g
        BY <2>1, <2>2, <3>3 DEF Places
      <4>2. ctl' = ctl
        BY <1>0, <1>4, <4>1, CommitterSteps
      <4> QED
        BY <4>1, <4>2
    <3>4. CASE ctl.gen = g /\ ctl' = [ctl EXCEPT !.pc = "point"]
      BY <1>0, <3>4 DEF TypeOK, Control
    <3> QED
      BY <3>2, <3>3, <3>4
  <2> QED
    BY <2>1, <2>2 DEF Places
<1> QED
  BY <1>0, <1>1, <1>2, <1>3, <1>4, PathSteps

\* Every file of a generation is complete or deleted, whatever fails.
LEMMA WholeNext ==
  ASSUME StoreInv, WholeOrGone, [Next]_vars
  PROVE  WholeOrGone'
<1>0. TypeOK
  BY DEF StoreInv, CountInv
<1>1. CASE Restart
  BY <1>1, RestartForgets DEF WholeOrGone
<1>2. ASSUME NEW g \in Gen, ScanActivate(g) \/ SnapshotAdopt(g) PROVE WholeOrGone'
  BY <1>2, NewPlaces DEF WholeOrGone
<1>3. CASE PublishPoint
  BY <1>3, PublishedPlaces DEF WholeOrGone
<1>4. CASE PathsKept
  <2> SUFFICES ASSUME NEW g \in Gen, gen'[g].file # None
               PROVE  disk'[gen'[g].file] \in
                        (IF gen'[g].persistent THEN {"final", "absent"}
                         ELSE {"work", "final", "absent"})
    BY DEF WholeOrGone
  <2> DEFINE f == gen[g].file
  <2>1. /\ gen[g].file # None /\ gen'[g].file = f
        /\ gen'[g].persistent = gen[g].persistent
    BY <1>4 DEF PathsKept
  <2>2. /\ f \in Gen /\ scan[f].pc \notin Unactivated
        /\ disk[f] \in (IF gen[g].persistent THEN {"final", "absent"}
                        ELSE {"work", "final", "absent"})
    BY <2>1, WrittenFile DEF WholeOrGone
  <2>3. gen[g].persistent => Published(f)
    BY DEF Published
  <2> HIDE DEF f
  <2>4. PublishFails /\ ctl.gen = f => ~ Published(f)
    BY CommittedFile DEF PublishFails
  <2>5. \/ disk'[f] \in {disk[f], "absent", "final"}
        \/ ~ gen[g].persistent /\ disk'[f] \in {disk[f], "work"}
    BY <2>2, <2>3, <2>4, FileSteps
  <2> QED
    BY <2>1, <2>2, <2>5
<1> QED
  BY <1>0, <1>1, <1>2, <1>3, <1>4, PathSteps

\* The last message of a longer sequence is the one just added.
LEMMA LastMessage ==
  ASSUME NEW s \in Seq(Outcome), NEW outcome \in Outcome,
         Append(s, outcome) = <<"queryFailed">>
  PROVE  outcome = "queryFailed"
<1>1. Len(s) = 0
  <2>1. Len(Append(s, outcome)) = 1
    OBVIOUS
  <2>2. /\ Len(Append(s, outcome)) = Len(s) + 1
        /\ Len(s) \in Nat
    OBVIOUS
  <2> QED
    BY <2>1, <2>2
<1>2. Append(s, outcome)[1] = outcome
  BY <1>1
<1>3. <<"queryFailed">>[1] = "queryFailed"
  OBVIOUS
<1> QED
  BY <1>2, <1>3

\* A query fails when the query thread did not find its database.
LEMMA FailedAnswers ==
  ASSUME TypeOK, [Next]_vars, NEW q \in Query,
         reply'[q] # reply[q], reply'[q] = <<"queryFailed">>
  PROVE  ~ broken /\ job[q].pc \in {"missing", "changed"}
<1>1. reply \in [Query -> Seq(Outcome)] /\ <<"queryFailed">> # <<>>
  BY DEF TypeOK
<1>2. \A outcome \in Outcome : reply'[q] = Append(reply[q], outcome) =>
        outcome = "queryFailed"
  BY <1>1, LastMessage
<1>3. ASSUME NEW p \in Query, NEW outcome \in Outcome, Say(p, outcome)
      PROVE  ~ broken /\ p = q /\ outcome = "queryFailed"
  <2>1. ~ broken /\ reply' = [reply EXCEPT ![p] = Append(@, outcome)]
    BY <1>3 DEF Say
  <2>2. p = q
    BY <1>1, <2>1
  <2> QED
    BY <1>1, <1>2, <2>1, <2>2
<1>4. ASSUME NEW p \in Query, RunStep(p)
      PROVE  ~ broken /\ job[q].pc \in {"missing", "changed"}
  <2>1. reply' # reply
    OBVIOUS
  <2>2. CASE Look(p) \/ Open(p) \/ Execute(p)
    <3>1. \/ Say(p, "superseded") \/ Say(p, "queryTimeout")
          \/ Say(p, "queryResult")
      BY <2>1, <2>2 DEF Look, Open, Execute, Answer
    <3> QED
      BY <1>3, <3>1 DEF Outcome
  <2>3. CASE Fail(p)
    <3>1. \E outcome \in Outcome : Say(p, outcome)
      BY <2>3 DEF Fail, Answer, Outcome
    <3> QED
      BY <1>3, <2>3, <3>1 DEF Fail
  <2> QED
    BY <1>4, <2>2, <2>3 DEF RunStep
<1>5. ASSUME NEW p \in Query, NEW g \in Gen, Enqueue(p, g) PROVE FALSE
  <2>1. Say(p, "tooMany")
    BY <1>5 DEF Enqueue
  <2> QED
    BY <1>3, <2>1 DEF Outcome
<1>6. CASE EnqueueDone
  <2>1. reply'[q] = Append(reply[q], "superseded")
    BY <1>6 DEF EnqueueDone
  <2> QED
    BY <1>2, <2>1 DEF Outcome
<1>7. CASE Restart
  BY <1>1, <1>7 DEF Restart, NoReplies
<1>8. CASE Request \/ Shutdown
  BY <1>5, <1>8 DEF Request, Shutdown, ScanStart, ScanCancel, CommitStart,
     Abort, SnapshotOpen
<1>9. CASE Continue
  BY <1>6, <1>9 DEF Continue, ScanLaunch, SnapshotLoad, SnapshotAdoptFails,
     PublishRename, PublishPoint, PublishFails, CommitSettle, CommitDelete,
     AbortDelete, ShutdownJoin, ShutdownClose, ShutdownDelete, SnapshotAdopt
<1>10. CASE QueryStep
  BY <1>4, <1>10 DEF QueryStep, Take, Finish, QueryExit
<1>11. ASSUME NEW g \in Gen, ScanStep(g) \/ ScanTimedOut(g) PROVE FALSE
  BY <1>11 DEF ScanStep, ScanOpen, ScanFinalize, ScanStops, ScanFails,
     ScanActivate, ScanAnnounce, FinishScan, ScanReport, ScanTimedOut
<1>12. CASE BreakPipe \/ UNCHANGED vars
  BY <1>12 DEF BreakPipe, vars, memory
<1> QED
  BY <1>7, <1>8, <1>9, <1>10, <1>11, <1>12 DEF Next

\* The pipe stays broken until a new process starts.
LEMMA BrokenStays ==
  ASSUME [Next]_vars, ~ Restart
  PROVE  broken => broken'
<1>1. CASE Request \/ Shutdown
  BY <1>1 DEF Request, Shutdown, ScanStart, ScanCancel, CommitStart, Abort,
     Enqueue, SnapshotOpen
<1>2. CASE Continue
  BY <1>2 DEF Continue, ScanLaunch, SnapshotLoad, SnapshotAdoptFails,
     EnqueueDone, PublishRename, PublishPoint, PublishFails, CommitSettle,
     CommitDelete, AbortDelete, ShutdownJoin, ShutdownClose, ShutdownDelete,
     SnapshotAdopt
<1>3. CASE QueryStep
  BY <1>3 DEF QueryStep, Take, RunStep, Look, Open, Execute, Fail, Finish, QueryExit
<1>4. ASSUME NEW g \in Gen, ScanStep(g) \/ ScanTimedOut(g) PROVE UNCHANGED broken
  BY <1>4 DEF ScanStep, ScanOpen, ScanFinalize, ScanStops, ScanFails,
     ScanActivate, ScanAnnounce, FinishScan, ScanReport, ScanTimedOut
<1>5. CASE BreakPipe \/ UNCHANGED vars
  BY <1>5 DEF BreakPipe, vars, memory
<1> QED
  BY <1>1, <1>2, <1>3, <1>4, <1>5 DEF Next

\* A generation that has a database keeps it, and stays published.
LEMMA GenerationsStay ==
  ASSUME StoreInv, [Next]_vars, ~ Restart, NEW g \in Gen, gen[g].file # None
  PROVE  /\ gen'[g].file = gen[g].file
         /\ gen[g].persistent => gen'[g].persistent
<1> USE DEF StoreInv
<1>1. CASE PathsKept
  BY <1>1 DEF PathsKept
<1>2. CASE PublishPoint
  BY <1>2, PublishedPlaces
<1>3. ASSUME NEW h \in Gen, ScanActivate(h) \/ SnapshotAdopt(h)
      PROVE  gen'[g] = gen[g]
  <2>1. gen[h].file = None
    BY <1>3 DEF ScanActivate, SnapshotAdopt, Unissued, Unactivated, CountInv,
       Provenance, ScannedHaveNoFiles, UnissuedUnused
  <2> QED
    BY <1>3, <2>1, NewPlaces
<1> QED
  BY <1>1, <1>2, <1>3, PathSteps DEF CountInv

\* A query that has read its path moves by a step of its own only.
LEMMA OpenedSteps ==
  ASSUME TypeOK, [Next]_vars, NEW q \in Query, job'[q].pc \in Opened, ~ RunStep(q)
  PROVE  /\ job'[q].pc = job[q].pc /\ job'[q].path = job[q].path
         /\ job'[q].gen = job[q].gen /\ ~ Restart
<1> DEFINE Same == /\ job'[q].pc = job[q].pc /\ job'[q].path = job[q].path
                   /\ job'[q].gen = job[q].gen
<1>0. job \in [Query -> Job] /\ job[q] \in Job
  BY DEF TypeOK
<1>1. UNCHANGED job => Same
  OBVIOUS
<1>9. ~ Restart
  BY DEF Restart, NoJobs, Opened
<1> SUFFICES Same
  BY <1>9
<1> HIDE DEF Same
<1>2. ASSUME NEW p \in Query, NEW g \in Gen, Enqueue(p, g) PROVE Same
  <2> DEFINE later(k) == [job[k] EXCEPT !.pc = IF k \in Dropped(p) THEN "dropped" ELSE @,
             !.superseded = @ \/ k \in (Dropped(p) \cup (IF p \in Searches THEN Current \cap Searches ELSE {}))]
  <2>1. job'[q] = IF q = p THEN [pc |-> IF HasRoom(p) THEN "queued" ELSE "refused",
                                 gen |-> g, superseded |-> FALSE, path |-> "none"]
                  ELSE later(q)
    BY <1>2 DEF Enqueue
  <2>2. q # p
    BY <2>1 DEF Opened
  <2>3. job'[q] = later(q)
    BY <2>1, <2>2
  <2>4. /\ later(q).path = job[q].path /\ later(q).gen = job[q].gen
        /\ later(q).pc \in {"dropped", job[q].pc}
    BY <1>0 DEF Job
  <2> HIDE DEF later
  <2> QED
    BY <2>3, <2>4 DEF Opened, Same
<1>3. CASE Shutdown
  <2> DEFINE later(k) == [job[k] EXCEPT !.pc = IF k \in Queued THEN "dropped" ELSE @,
                            !.superseded = @ \/ k \in Queued \/ k \in Current]
  <2>1. job'[q] = later(q)
    BY <1>3 DEF Shutdown
  <2>2. /\ later(q).path = job[q].path /\ later(q).gen = job[q].gen
        /\ later(q).pc \in {"dropped", job[q].pc}
    BY <1>0 DEF Job
  <2> HIDE DEF later
  <2> QED
    BY <2>1, <2>2 DEF Opened, Same
<1>4. CASE Request
  BY <1>1, <1>2, <1>4 DEF Request, ScanStart, ScanCancel, CommitStart, Abort,
     SnapshotOpen
<1>5. CASE Continue
  BY <1>1, <1>5 DEF Continue, ScanLaunch, SnapshotLoad, SnapshotAdoptFails,
     EnqueueDone, PublishRename, PublishPoint, PublishFails, CommitSettle,
     CommitDelete, AbortDelete, ShutdownJoin, ShutdownClose, ShutdownDelete,
     SnapshotAdopt
<1>6. CASE QueryStep
  <2>1. ASSUME NEW p \in Query, Take(p) \/ Finish(p) PROVE Same
    <3>1. "taken" \in JobPc /\ "done" \in JobPc
      BY DEF JobPc, Held, Running
    <3>2. OnlyMoves(p) /\ job'[p].pc \in {"taken", "done"}
      BY <2>1, <3>1, Moving DEF Take, Finish
    <3>3. p # q
      BY <3>2 DEF Opened
    <3> QED
      BY <3>2, <3>3 DEF OnlyMoves, Same
  <2>2. ASSUME NEW p \in Query, RunStep(p) PROVE Same
    <3>1. OnlyMoves(p) /\ p # q
      BY <2>2, RunMoves, TypeAnswer
    <3> QED
      BY <3>1 DEF OnlyMoves, Same
  <2> QED
    BY <1>1, <1>6, <2>1, <2>2 DEF QueryStep, QueryExit
<1>7. ASSUME NEW g \in Gen, ScanStep(g) \/ ScanTimedOut(g) PROVE UNCHANGED job
  BY <1>7 DEF ScanStep, ScanOpen, ScanFinalize, ScanStops, ScanFails,
     ScanActivate, ScanAnnounce, FinishScan, ScanReport, ScanTimedOut
<1>8. CASE BreakPipe \/ UNCHANGED vars
  BY <1>1, <1>8 DEF BreakPipe, vars, memory
<1> QED
  BY <1>1, <1>3, <1>4, <1>5, <1>6, <1>7, <1>8, <1>9 DEF Next

\* A database that a query does not find at its path has moved away from it.
LEMMA NotAtItsPath ==
  ASSUME PlacesInv, PathsRead, ~ broken, NEW q \in Query,
         job[q].pc \in Opened, ~ AtItsPath(q)
  PROVE  job[q].path = "work" /\ disk[gen[job[q].gen].file] = "final"
<1> USE DEF PlacesInv, RetentionInv, RetentionParts, StoreInv, StoreParts
<1> DEFINE g == job[q].gen
<1>1. g \in Gen /\ Retained(g)
  BY DEF CountInv, Provenance, QueriedHaveFiles, Retained, Holding, Outstanding,
         Opened, Held, Running
<1>2. gen[g].file # None /\ gen[g].persistent \in BOOLEAN
  BY <1>1, RetainedHaveFiles DEF CountInv, TypeOK, Generation
<1> HIDE DEF g
<1>3. disk[gen[g].file] \in (IF gen[g].persistent THEN {"final"} ELSE {"work", "final"})
  BY <1>1 DEF KeptFiles
<1>4. disk[gen[g].file] # job[q].path
  BY <1>2 DEF AtItsPath, g
<1>5. /\ job[q].path \in {"work", "final"}
      /\ job[q].path = "final" => gen[g].persistent
  BY DEF PathsRead, CountInv, TypeOK, Job, g
<1>6. job[q].path = "work" /\ disk[gen[g].file] = "final"
  BY <1>2, <1>3, <1>4, <1>5
<1> QED
  BY <1>6 DEF g

\* Every step keeps what the queries know of their paths.
LEMMA PathsReadNext ==
  ASSUME "store" \notin Faults, PlacesInv, PathsRead, [Next]_vars, PlacesInv'
  PROVE  PathsRead'
<1> USE DEF PlacesInv, RetentionInv, RetentionParts, StoreInv, StoreParts
<1>0. TypeOK
  BY DEF CountInv
<1> SUFFICES ASSUME NEW q \in Query, job'[q].pc \in Opened
             PROVE  /\ job'[q].path # "none"
                    /\ job'[q].path = "final" => gen'[job'[q].gen].persistent
                    /\ job'[q].pc \in {"missing", "changed"} /\ ~ broken' =>
                         /\ job'[q].path = "work"
                         /\ disk'[gen'[job'[q].gen].file] = "final"
  BY DEF PathsRead
<1> DEFINE g == job[q].gen
<1>1. CASE RunStep(q)
  <2>1. /\ job \in [Query -> Job] /\ job[q] \in Job
        /\ UNCHANGED <<gen, disk, broken>>
    BY <1>0, <1>1, RunMoves DEF TypeOK
  <2>2. job[q].pc \in Running /\ job'[q].gen = g
    BY <1>0, <1>1, RunMoves, TypeAnswer DEF OnlyMoves
  <2>3. g \in Gen /\ gen[g].file # None
    BY <2>2 DEF CountInv, Provenance, QueriedHaveFiles, Outstanding, Held
  <2> HIDE DEF g
  <2>4. ASSUME NEW outcome \in Outcome, Answer(q, outcome) PROVE FALSE
    BY <1>0, <2>4, TypeAnswer DEF Opened
  <2>5. CASE Look(q)
    <3>1. job' = [job EXCEPT ![q].pc = "looked", ![q].path = gen[g].place]
      BY <2>4, <2>5 DEF Look, Outcome, g
    <3>2. job'[q].pc = "looked" /\ job'[q].path = gen[g].place
      BY <2>1, <3>1 DEF Job
    <3>3. gen[g].place # "none" /\ (gen[g].place = "final" => gen[g].persistent)
      <4>1. gen[g] \in Generation
        BY <1>0, <2>3 DEF TypeOK
      <4>2. gen[g].place \in {"work", "final"} /\ gen[g].persistent \in BOOLEAN
        BY <4>1 DEF Generation
      <4>3. ~ gen[g].persistent => gen[g].place = "work"
        BY <2>3 DEF OwnFiles
      <4> QED
        BY <4>2, <4>3
    <3> QED
      BY <2>1, <2>2, <3>2, <3>3
  <2>6. CASE Open(q)
    <3>1. job' = [job EXCEPT ![q].pc = IF AtItsPath(q) THEN "open" ELSE "missing"]
      BY <2>6 DEF Open
    <3>2. /\ job'[q].path = job[q].path
          /\ job'[q].pc \in {"missing", "changed"} => ~ AtItsPath(q)
      BY <2>1, <3>1 DEF Job
    <3>3. job[q].pc \in Opened
      BY <2>6 DEF Open, Opened
    <3> QED
      BY <2>1, <2>2, <3>2, <3>3, NotAtItsPath DEF PathsRead, g
  <2>7. CASE Execute(q)
    <3>1. job' = [job EXCEPT ![q].pc = "changed"] /\ ~ AtItsPath(q)
      BY <2>4, <2>7 DEF Execute, Outcome
    <3>2. job'[q].path = job[q].path
      BY <2>1, <3>1 DEF Job
    <3>3. job[q].pc \in Opened
      BY <2>7 DEF Execute, Opened
    <3> QED
      BY <2>1, <2>2, <3>1, <3>2, <3>3, NotAtItsPath DEF PathsRead, g
  <2>8. CASE Fail(q)
    BY <2>4, <2>8 DEF Fail, Outcome
  <2> QED
    BY <1>1, <2>5, <2>6, <2>7, <2>8 DEF RunStep
<1>2. CASE ~ RunStep(q)
  <2>0. PICK G \in Gen : G = g /\ gen[G].file # None
    <3>1. q \in Outstanding
      BY <1>0, <1>2, OpenedSteps DEF Opened, Outstanding, Held, Running
    <3> QED
      BY <3>1 DEF CountInv, Provenance, QueriedHaveFiles
  <2>1. /\ job'[q].pc = job[q].pc /\ job'[q].path = job[q].path
        /\ job'[q].gen = G /\ ~ Restart
    BY <1>0, <1>2, <2>0, OpenedSteps
  <2>2. q \in Outstanding /\ q \in Outstanding'
    BY <2>1 DEF Opened, Outstanding, Held, Running
  <2>4. Retained(G)'
    BY <2>1, <2>2, <2>0 DEF Retained, Holding
  <2>5. /\ gen'[G].file = gen[G].file
        /\ gen[G].persistent => gen'[G].persistent
    BY <2>1, <2>0, GenerationsStay
  <2>6. job[q].pc \in Opened
    BY <2>1
  <2>7. ASSUME job[q].pc \in {"missing", "changed"}, ~ broken'
        PROVE  job[q].path = "work" /\ disk'[gen[G].file] = "final"
    <3> DEFINE f == gen[G].file
    <3>1. f \in Gen /\ scan[f].pc \notin Unactivated
      BY <2>0, WrittenFile
    <3>2. ~ broken
      BY <2>1, <2>7, BrokenStays
    <3>3. job[q].path = "work" /\ disk[f] = "final"
      BY <2>0, <2>6, <2>7, <3>2 DEF PathsRead
    <3>4. disk'[f] \in {"work", "final"}
      BY <2>0, <2>4, <2>5, <2>7 DEF KeptFiles
    <3>5. ~ PublishFails
      BY DEF PublishFails
    <3> HIDE DEF f
    <3>6. disk'[f] = "final"
      BY <3>1, <3>3, <3>4, <3>5, FileSteps
    <3> QED
      BY <3>3, <3>6 DEF f
  <2> QED
    BY <2>0, <2>1, <2>5, <2>6, <2>7 DEF PathsRead
<1> QED
  BY <1>1, <1>2

\* The paths are right at first and stay so.
LEMMA PlacesInductive ==
  ASSUME "store" \notin Faults
  PROVE  /\ Init => PlacesInv
         /\ PlacesInv /\ [Next]_vars => PlacesInv'
<1>1. Init => Places
  BY DEF Init, NoGenerations, NewGeneration, Places
<1>2. PlacesInv /\ [Next]_vars => Places'
  BY PlacesNext
<1> QED
  BY <1>1, <1>2, RetentionInductive DEF PlacesInv

\* Unless publishing fails half-way, a query fails for want of its database
\* only if it read the database's path before a commit published it and looked
\* for it after the rename; the database is there, at its final path.
THEOREM FailsCorrect ==
  "store" \notin Faults => (Spec => FailsOnlyWhenMoved)
<1> SUFFICES ASSUME "store" \notin Faults PROVE Spec => FailsOnlyWhenMoved
  OBVIOUS
<1>1. Init => PlacesInv /\ PathsRead
  <2>1. Init => \A q \in Query : job[q].pc = "new"
    BY DEF Init, NoJobs
  <2> QED
    BY <2>1, PlacesInductive DEF PathsRead, Opened
<1>2. PlacesInv /\ PathsRead /\ [Next]_vars => PlacesInv' /\ PathsRead'
  BY PlacesInductive, PathsReadNext
<1>3. ASSUME PlacesInv, PathsRead, [Next]_vars
      PROVE  [\A q \in Query : reply'[q] # reply[q] /\ reply'[q] = <<"queryFailed">> =>
                job[q].path = "work" /\ disk[gen[job[q].gen].file] = "final"]_vars
  <2> SUFFICES ASSUME NEW q \in Query, reply'[q] # reply[q],
                      reply'[q] = <<"queryFailed">>
               PROVE  job[q].path = "work" /\ disk[gen[job[q].gen].file] = "final"
    OBVIOUS
  <2>1. TypeOK
    BY <1>3 DEF PlacesInv, RetentionInv, StoreInv, CountInv
  <2>2. ~ broken /\ job[q].pc \in {"missing", "changed"}
    BY <1>3, <2>1, FailedAnswers
  <2> QED
    BY <1>3, <2>2 DEF PathsRead, Opened
<1> QED
  BY <1>1, <1>2, <1>3, PTL DEF Spec, FailsOnlyWhenMoved

-----------------------------------------------------------------------------
(* Reclamation, in a broker that is sent no search.                        *)

\* A broker that shuts down reads no more requests.
LEMMA ShutdownStays ==
  ASSUME TypeOK, ShutdownEnds, [Next]_vars
  PROVE  ShutdownEnds' /\ (shutdown => shutdown' \/ Restart)
<1>0. \A pc : At(pc).pc = pc
  BY DEF At
<1>1. CASE Request
  <2>1. ~ shutdown /\ UNCHANGED shutdown
    BY <1>1 DEF Request, ScanStart, ScanCancel, CommitStart, Abort, Enqueue,
       SnapshotOpen, Accepting
  <2> QED
    BY <2>1 DEF ShutdownEnds
<1>2. CASE Shutdown
  <2>1. shutdown' /\ ctl'.pc = "join"
    BY <1>2 DEF Shutdown, At
  <2> QED
    BY <2>1 DEF ShutdownEnds
<1>3. CASE ShutdownJoin \/ ShutdownClose \/ ShutdownDelete
  <2>1. UNCHANGED shutdown /\ ctl'.pc \in {"dead", "close", "delete", "stopped"}
    BY <1>0, <1>3 DEF ShutdownJoin, ShutdownClose, ShutdownDelete, At
  <2> QED
    BY <2>1 DEF ShutdownEnds
<1>4. CASE Continue /\ ~ (ShutdownJoin \/ ShutdownClose \/ ShutdownDelete)
  <2>1. /\ UNCHANGED shutdown
        /\ ctl.pc \notin {"join", "close", "delete", "stopped", "dead"}
    BY <1>4 DEF Continue, ScanLaunch, SnapshotLoad, SnapshotAdoptFails,
       EnqueueDone, PublishRename, PublishPoint, PublishFails, CommitSettle,
       CommitDelete, AbortDelete, SnapshotAdopt
  <2> QED
    BY <2>1 DEF ShutdownEnds
<1>5. CASE QueryStep \/ BreakPipe \/ UNCHANGED vars
  <2>1. UNCHANGED <<shutdown, ctl>>
    BY <1>5 DEF QueryStep, Take, RunStep, Look, Open, Execute, Fail, Finish, QueryExit, BreakPipe,
       vars, memory
  <2> QED
    BY <2>1 DEF ShutdownEnds
<1>6. ASSUME NEW g \in Gen, ScanStep(g) \/ ScanTimedOut(g)
      PROVE  ShutdownEnds' /\ (shutdown => shutdown' \/ Restart)
  <2>1. UNCHANGED <<shutdown, ctl>>
    BY <1>6 DEF ScanStep, ScanOpen, ScanFinalize, ScanStops, ScanFails,
       ScanActivate, ScanAnnounce, FinishScan, ScanReport, ScanTimedOut
  <2> QED
    BY <2>1 DEF ShutdownEnds
<1>7. CASE Restart
  BY <1>7 DEF Restart, ShutdownEnds
<1> QED
  BY <1>1, <1>2, <1>3, <1>4, <1>5, <1>6, <1>7 DEF Next

\* What dooms a generation and what changes its count.
DoomKept ==
  \A g \in Gen : /\ gen'[g].file = gen[g].file
                 /\ gen'[g].doomed = gen[g].doomed
                 /\ gen'[g].refs = gen[g].refs

\* Only a commit dooms a generation; only queries change its count.
LEMMA DoomSteps ==
  ASSUME StoreInv, [Next]_vars
  PROVE  \/ DoomKept
         \/ CommitSettle \/ Shutdown \/ Restart
         \/ \E q \in Query : Finish(q) \/ \E g \in Gen : Enqueue(q, g)
         \/ \E g \in Gen : ScanActivate(g) \/ SnapshotAdopt(g)
<1>0. UNCHANGED gen => DoomKept
  BY DEF DoomKept
<1>1. ASSUME NEW g \in Gen, Abort(g) PROVE DoomKept
  BY <1>1 DEF Abort, DoomKept, StoreInv, CountInv, TypeOK, Generation
<1>2. CASE ShutdownClose
  BY <1>2 DEF ShutdownClose, DoomKept, StoreInv, CountInv, TypeOK, Generation
<1>3. CASE PublishPoint
  <2>1. ASSUME NEW h \in Gen
        PROVE  /\ gen'[h].file = gen[h].file /\ gen'[h].doomed = gen[h].doomed
               /\ gen'[h].refs = gen[h].refs
    BY <1>3, PublishedPlaces
  <2> QED
    BY <2>1 DEF DoomKept
<1>4. CASE Request \/ Continue
  BY <1>0, <1>1, <1>2, <1>3, <1>4 DEF Request, Continue, ScanStart, ScanCancel,
     CommitStart, SnapshotOpen, ScanLaunch, SnapshotLoad, SnapshotAdoptFails,
     EnqueueDone, PublishRename, PublishFails, CommitDelete, AbortDelete,
     ShutdownJoin, ShutdownDelete
<1>5. CASE QueryStep
  BY <1>0, <1>5 DEF QueryStep, Take, RunStep, Look, Open, Execute, Fail, QueryExit
<1>6. ASSUME NEW g \in Gen, ScanStep(g) \/ ScanTimedOut(g)
      PROVE  DoomKept \/ ScanActivate(g)
  BY <1>0, <1>6 DEF ScanStep, ScanOpen, ScanFinalize, ScanStops, ScanFails,
     ScanAnnounce, FinishScan, ScanReport, ScanTimedOut
<1>7. CASE BreakPipe \/ UNCHANGED vars
  BY <1>0, <1>7 DEF BreakPipe, vars, memory
<1> QED
  BY <1>4, <1>5, <1>6, <1>7 DEF Next

\* A database that is gone stays gone: nothing writes a generation's file
\* again.
LEMMA AbsentStays ==
  ASSUME "store" \notin Faults, PlacesInv, [Next]_vars,
         NEW g \in Gen, gen[g].file # None, disk[gen[g].file] = "absent"
  PROVE  disk'[gen[g].file] = "absent"
<1> DEFINE f == gen[g].file
<1>0. StoreInv
  BY DEF PlacesInv, RetentionInv
<1>1. f \in Gen /\ scan[f].pc \notin Unactivated /\ disk[f] = "absent"
  BY <1>0, WrittenFile
<1> HIDE DEF f
<1>2. ~ PublishFails
  BY DEF PublishFails
<1>3. ASSUME ctl.pc = "publish", ctl.gen = f, Readable(f) PROVE FALSE
  <2>1. gen[f].file = f /\ gen[f].place = "work"
    BY <1>0, <1>3, CommittedFile
  <2> QED
    BY <1>1, <1>3, <2>1 DEF Readable
<1>4. disk'[f] = "absent"
  BY <1>0, <1>1, <1>2, <1>3, FileSteps
<1> QED
  BY <1>4 DEF f

\* Deleting a doomed database really removes it: the path it is deleted at is
\* where it is, because no commit moves a retired generation's file.
LEMMA DeletionWorks ==
  ASSUME PlacesInv, WholeOrGone, NEW g \in Gen, gen[g].doomed
  PROVE  gen[g].file # None /\ Without(disk, g)[gen[g].file] = "absent"
<1> USE DEF PlacesInv, RetentionInv, RetentionParts, StoreInv, StoreParts
<1>1. gen[g].retired /\ gen[g].file # None
  BY DEF Retirement, RetiredHaveFiles
<1>2. gen[g].file \in Gen
  BY <1>1, WrittenFile
<1>3. ~ (ctl.pc = "point" /\ ctl.gen = g)
  <2>1. g # None
    BY NoneAssumption
  <2>2. g \notin {active, previous}
    BY <1>1, <2>1 DEF Retirement
  <2> QED
    BY <2>2, CommittedFile
<1>4. disk[gen[g].file] = gen[g].place \/ disk[gen[g].file] = "absent"
  <2>1. CASE gen[g].persistent
    BY <1>1, <2>1 DEF Places, WholeOrGone
  <2>2. CASE ~ gen[g].persistent
    <3>1. gen[g].place = "work" /\ gen[g].file = g /\ disk[g] # "final"
      BY <1>1, <1>3, <2>2 DEF Places, OwnFiles
    <3> QED
      BY <1>1, <2>2, <3>1 DEF WholeOrGone
  <2> QED
    BY <2>1, <2>2
<1>5. disk \in [Gen -> FileState]
  BY DEF CountInv, TypeOK
<1> QED
  BY <1>1, <1>2, <1>4, <1>5 DEF Without

\* The commit dooms its previous generation and goes on to delete it.
LEMMA DoomedSettle ==
  ASSUME ReclaimInv, CommitSettle
  PROVE  DoomedDeleted'
<1> USE DEF ReclaimInv
<1>0. TypeOK /\ UNCHANGED <<disk, shutdown>> /\ ctl.pc = "settle"
  BY DEF PlacesInv, RetentionInv, StoreInv, CountInv, CommitSettle
<1>1. CASE ctl.prev = None
  <2>1. UNCHANGED gen
    BY <1>1 DEF CommitSettle
  <2> QED
    BY <1>0, <2>1 DEF DoomedDeleted
<1>2. CASE ctl.prev # None
  <2>1. ctl.prev \in Gen /\ ctl'.pc = "deletePrevious" /\ ctl'.prev = ctl.prev
    BY <1>0, <1>2 DEF CommitSettle, TypeOK, Control
  <2>2. \A g \in Gen : g # ctl.prev => gen'[g] = gen[g]
    BY <1>0, <1>2 DEF CommitSettle, TypeOK
  <2> QED
    BY <1>0, <2>1, <2>2 DEF DoomedDeleted
<1> QED
  BY <1>1, <1>2

\* The commit then deletes it, or leaves it to the queries that hold it.
LEMMA DoomedCommitDelete ==
  ASSUME "store" \notin Faults, ReclaimInv, CommitDelete
  PROVE  DoomedDeleted'
<1> DEFINE p == ctl.prev
<1>1. p \in Gen /\ UNCHANGED <<gen, shutdown>> /\ ctl.pc = "deletePrevious"
  BY DEF CommitDelete, ReclaimInv, PlacesInv, RetentionInv, StoreInv, CountInv,
     TypeOK, LocalsOK
<1>2. disk' = IF Unreferenced(p) /\ gen[p].doomed THEN Without(disk, p) ELSE disk
  BY DEF CommitDelete
<1> HIDE DEF p
<1> SUFFICES ASSUME ~ shutdown, NEW g \in Gen, gen[g].doomed
             PROVE  gen[g].refs > 0 \/ disk'[gen[g].file] = "absent"
  BY <1>1 DEF DoomedDeleted
<1>3. gen[g].file # None /\ Without(disk, g)[gen[g].file] = "absent"
  BY DeletionWorks DEF ReclaimInv
<1>4. CASE g = p
  <2>1. gen[g].refs \in Nat
    BY HolderFacts, FS_CardinalityType DEF ReclaimInv, PlacesInv, RetentionInv,
       StoreInv, CountInv, ReferencesCounted
  <2>2. gen[g].refs > 0 \/ Unreferenced(g)
    BY <2>1 DEF Unreferenced
  <2> QED
    BY <1>2, <1>3, <1>4, <2>2
<1>5. CASE g # p
  <2>1. gen[g].refs > 0 \/ disk[gen[g].file] = "absent"
    BY <1>1, <1>5 DEF ReclaimInv, DoomedDeleted, p
  <2>2. disk[gen[g].file] = "absent" => disk'[gen[g].file] = "absent"
    <3>1. [Next]_vars
      BY DEF Next, Continue
    <3> QED
      BY <1>3, <3>1, AbsentStays DEF ReclaimInv
  <2> QED
    BY <2>1, <2>2
<1> QED
  BY <1>4, <1>5

\* The last query of a doomed generation deletes its database.
LEMMA DoomedFinish ==
  ASSUME "store" \notin Faults, ReclaimInv, NEW q \in Query, Finish(q)
  PROVE  DoomedDeleted'
<1> USE DEF ReclaimInv, PlacesInv, RetentionInv, StoreInv
<1>1. PICK G \in Gen : G = job[q].gen
  BY DEF Finish, Outstanding, Held, CountInv, Provenance, QueriedHaveFiles
<1>2. /\ gen' = [gen EXCEPT ![G].refs = @ - 1]
      /\ disk' = IF LastReference(G) THEN Without(disk, G) ELSE disk
      /\ UNCHANGED <<ctl, shutdown>>
  BY <1>1 DEF Finish
<1>3. /\ \A g \in Gen : g # G => gen'[g] = gen[g]
      /\ gen'[G].refs = gen[G].refs - 1
      /\ gen'[G].file = gen[G].file /\ gen'[G].doomed = gen[G].doomed
  BY <1>2 DEF CountInv, TypeOK, Generation
<1>4. [Next]_vars
  BY DEF Next, QueryStep
<1> SUFFICES ASSUME ~ shutdown, NEW g \in Gen, gen[g].doomed
             PROVE  \/ gen'[g].refs > 0 \/ disk'[gen[g].file] = "absent"
                    \/ ctl.pc = "deletePrevious" /\ ctl.prev = g
  BY <1>2, <1>3 DEF DoomedDeleted
<1>5. gen[g].file # None /\ Without(disk, g)[gen[g].file] = "absent"
  BY DeletionWorks
<1>6. CASE g # G
  <2>1. disk[gen[g].file] = "absent" => disk'[gen[g].file] = "absent"
    BY <1>4, <1>5, AbsentStays
  <2> QED
    BY <1>3, <1>6, <2>1 DEF DoomedDeleted
<1>7. CASE g = G
  <2>1. gen[g].refs = Cardinality(Holding(g)) /\ IsFiniteSet(Holding(g))
    BY HolderFacts DEF CountInv, ReferencesCounted
  <2>2. q \in Holding(g)
    BY <1>1, <1>7 DEF Finish, Holding, Outstanding, Held
  <2>3. gen[g].refs \in Nat \ {0}
    BY <2>1, <2>2, FS_EmptySet, FS_CardinalityType
  <2>4. gen[g].retired
    BY DEF StoreParts, Retirement
  <2>5. CASE gen[g].refs = 1
    BY <1>2, <1>5, <1>7, <2>4, <2>5 DEF LastReference
  <2>6. CASE gen[g].refs > 1
    BY <1>3, <1>7, <2>3, <2>6
  <2> QED
    BY <2>3, <2>5, <2>6
<1> QED
  BY <1>6, <1>7

\* A request to query, without searches, only adds a reference.
LEMMA DoomedEnqueue ==
  ASSUME Searches = {}, ReclaimInv, NEW q \in Query, NEW g \in Gen, Enqueue(q, g)
  PROVE  DoomedDeleted'
<1>1. Dropped(q) = {} /\ \A h : GivenBack(h, {}) = 0
  BY FS_EmptySet DEF Dropped, GivenBack
<1>2. UNCHANGED <<disk, shutdown>> /\ ctl.pc = "idle"
  BY DEF Enqueue, Accepting
<1>3. ASSUME NEW h \in Gen
      PROVE  /\ gen'[h].file = gen[h].file /\ gen'[h].doomed = gen[h].doomed
             /\ gen[h].refs > 0 => gen'[h].refs > 0
  <2>1. gen'[h] = [gen[h] EXCEPT !.refs = @ - GivenBack(h, Dropped(q))
                             + (IF HasRoom(q) /\ h = g THEN 1 ELSE 0)]
    BY DEF Enqueue
  <2>2. gen[h] \in Generation /\ gen[h].refs \in Int
    BY DEF ReclaimInv, PlacesInv, RetentionInv, StoreInv, CountInv, TypeOK, Generation
  <2>3. \E n \in {0, 1} : gen'[h] = [gen[h] EXCEPT !.refs = @ - 0 + n]
    BY <1>1, <2>1
  <2> QED
    BY <2>2, <2>3 DEF Generation
<1> QED
  BY <1>2, <1>3 DEF ReclaimInv, DoomedDeleted

\* Every step, of a broker that is sent no search and publishes without
\* failure, keeps track of what is to be deleted.
LEMMA DoomedNext ==
  ASSUME "store" \notin Faults, Searches = {}, ReclaimInv, [Next]_vars
  PROVE  DoomedDeleted'
<1>0. TypeOK /\ StoreInv /\ PlacesInv
  BY DEF ReclaimInv, PlacesInv, RetentionInv, StoreInv, CountInv
<1>1. shutdown => shutdown' \/ Restart
  BY <1>0, ShutdownStays DEF ReclaimInv
<1>2. CASE Restart
  BY <1>2, RestartForgets DEF DoomedDeleted
<1>3. CASE CommitSettle \/ CommitDelete
           \/ \E q \in Query : Finish(q) \/ \E g \in Gen : Enqueue(q, g)
  BY <1>3, DoomedSettle, DoomedCommitDelete, DoomedFinish, DoomedEnqueue
<1>4. CASE Shutdown
  BY <1>4 DEF Shutdown, DoomedDeleted
<1>5. ASSUME NEW g \in Gen, ScanActivate(g) \/ SnapshotAdopt(g), ~ Restart
      PROVE  DoomedDeleted'
  <2>1. ASSUME ~ shutdown, NEW h \in Gen, gen'[h].doomed
        PROVE  \/ gen'[h].refs > 0 \/ disk'[gen'[h].file] = "absent"
               \/ ctl'.pc = "deletePrevious" /\ ctl'.prev = h
    <3>1. h # g /\ gen'[h] = gen[h] /\ UNCHANGED disk
      BY <1>0, <1>5, <2>1, NewPlaces
    <3>2. ctl.pc = "deletePrevious" => UNCHANGED ctl
      BY <1>0, <1>5, NewPlaces
    <3> QED
      BY <2>1, <3>1, <3>2 DEF ReclaimInv, DoomedDeleted
  <2> QED
    BY <1>1, <1>5, <2>1 DEF DoomedDeleted
<1>6. CASE DoomKept /\ ~ Restart /\ ~ CommitDelete
  <2>1. ASSUME ~ shutdown, NEW g \in Gen, gen[g].doomed
        PROVE  \/ gen[g].refs > 0 \/ disk'[gen[g].file] = "absent"
               \/ ctl'.pc = "deletePrevious" /\ ctl'.prev = g
    <3>1. gen[g].file # None
      BY <2>1, DeletionWorks DEF ReclaimInv
    <3>2. disk[gen[g].file] = "absent" => disk'[gen[g].file] = "absent"
      BY <1>0, <3>1, AbsentStays
    <3>3. ctl.pc = "deletePrevious" => ctl' = ctl
      BY <1>6, CommitterSteps
    <3> QED
      BY <2>1, <3>2, <3>3 DEF ReclaimInv, DoomedDeleted
  <2> QED
    BY <1>1, <1>6, <2>1 DEF DoomKept, DoomedDeleted
<1> QED
  BY <1>0, <1>2, <1>3, <1>4, <1>5, <1>6, DoomSteps

\* In a broker that is sent no search and publishes without failure, a
\* retired generation that no query holds any more leaves no database of its
\* own behind once the control thread is at rest: whoever lets go of it last,
\* the commit or a query, deletes it.
THEOREM ReclaimCorrect ==
  "store" \notin Faults /\ Searches = {} => (Spec => []RetiredFilesReclaimed)
<1> SUFFICES ASSUME "store" \notin Faults, Searches = {}
             PROVE  Spec => []RetiredFilesReclaimed
  OBVIOUS
<1>1. Init => ReclaimInv
  <2> SUFFICES ASSUME Init PROVE ReclaimInv
    OBVIOUS
  <2>1. \A g \in Gen : gen[g].file = None /\ ~ gen[g].doomed
    BY DEF Init, NoGenerations, NewGeneration
  <2>2. ~ shutdown
    BY DEF Init
  <2> QED
    BY <2>1, <2>2, PlacesInductive DEF ReclaimInv, WholeOrGone, DoomedDeleted,
       ShutdownEnds
<1>2. ReclaimInv /\ [Next]_vars => ReclaimInv'
  <2> SUFFICES ASSUME ReclaimInv, [Next]_vars PROVE ReclaimInv'
    OBVIOUS
  <2>1. TypeOK /\ StoreInv /\ PlacesInv
    BY DEF ReclaimInv, PlacesInv, RetentionInv, StoreInv, CountInv
  <2>2. PlacesInv'
    BY <2>1, PlacesInductive
  <2>3. WholeOrGone'
    BY <2>1, WholeNext DEF ReclaimInv
  <2>4. ShutdownEnds'
    BY <2>1, ShutdownStays DEF ReclaimInv
  <2> QED
    BY <2>2, <2>3, <2>4, DoomedNext DEF ReclaimInv
<1>3. ReclaimInv => RetiredFilesReclaimed
  <2> SUFFICES ASSUME ReclaimInv, ctl.pc = "idle", NEW g \in Gen,
                      gen[g].doomed, gen[g].refs = 0
               PROVE  disk[gen[g].file] = "absent"
    BY DEF RetiredFilesReclaimed
  <2>1. ~ shutdown
    BY DEF ReclaimInv, ShutdownEnds
  <2> QED
    BY <2>1 DEF ReclaimInv, DoomedDeleted
<1> QED
  BY <1>1, <1>2, <1>3, PTL DEF Spec

=============================================================================
