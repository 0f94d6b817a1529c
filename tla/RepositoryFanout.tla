---------------------------- MODULE RepositoryFanout ----------------------------
(***************************************************************************)
(* Repository intelligence on top of ingestion: the batch a sync defers    *)
(* lists the queued fan-out jobs of its events and defers one analysis for *)
(* each; an analysis claims its job, materializes a snapshot and commits   *)
(* its verdict, with a migration when the repository is affected.          *)
(*                                                                         *)
(* Two batches that overlap list the same job, so that copies of one       *)
(* analysis run side by side.  The migration created here is the queued    *)
(* one MigrationStore starts from.                                         *)
(***************************************************************************)
EXTENDS SourceSync

CONSTANTS
  Analysts,   \* workers that may run analyze_repository_fanout
  Snapshots,  \* content digests a default branch may show
  Affecting,  \* those in which the analyzer finds affected call sites
  ClaimFaults \* BOOLEAN: may a claim raise before it runs

ASSUME FanoutAssumption == Affecting \subseteq Snapshots /\ ClaimFaults \in BOOLEAN

VARIABLES
  copies,       \* analyze_repository_fanout jobs in the queue, of each fan-out job
  analysts,     \* each worker's place in analyze_repository_fanout
  assessments,  \* impact_assessments, unique by job and snapshot
  migrations    \* the jobs whose change and repository have a migration

fanoutVars == <<copies, analysts, assessments, migrations>>
vars == <<syncVars, fanoutVars>>

AnalystState ==
  [pc : {"idle", "analyze", "failing", "dead"}, job : SUBSET Jobs]

IdleAnalyst == [pc |-> "idle", job |-> {}]

Init ==
  /\ SyncInit
  /\ copies = [j \in Jobs |-> 0]
  /\ analysts = [w \in Analysts |-> IdleAnalyst]
  /\ assessments = {}
  /\ migrations = {}

--------------------------------------------------------------------------------
(* enqueue_repository_analysis *)

QueuedJobs(changes) == {j \in Jobs : j[1] \in changes /\ fanout[j] = "queued"}

WithCopies(batch) == [j \in Jobs |-> IF j \in batch THEN copies[j] + 1 ELSE copies[j]]

\* One step, though the list is read before the first deferral: a job that is
\* claimed in between has its copy here already, and the copy is skipped later.
EnqueueAnalysis(y) ==
  /\ sync[y].pc = "batch"
  /\ copies' = WithCopies(QueuedJobs(sync[y].changes))
  /\ Move(y, [sync[y] EXCEPT !.pc = "ended"])
  /\ UNCHANGED <<Store, analysts, assessments, migrations>>

\* The process dies, or a deferral raises, after some of the jobs.
EnqueueStops(y) ==
  /\ Crashes
  /\ sync[y].pc = "batch"
  /\ \E batch \in SUBSET QueuedJobs(sync[y].changes) : copies' = WithCopies(batch)
  /\ Move(y, [sync[y] EXCEPT !.pc = "dead"])
  /\ UNCHANGED <<Store, analysts, assessments, migrations>>

--------------------------------------------------------------------------------
(* analyze_repository_fanout *)

CanClaimJob_AnyStatus(j) == fanout[j] # "absent"

CanClaimJob(j) == fanout[j] = "queued"

Claimed(j) == [fanout EXCEPT ![j] = "analyzing"]

Finished_OnlyCompleted(j, status) ==
  IF fanout[j] = "analyzing" /\ status = "completed"
  THEN [fanout EXCEPT ![j] = status] ELSE fanout

\* Mutation: an analysis that failed is queued again, and nobody defers it.
Finished_Requeued(j, status) ==
  IF fanout[j] # "analyzing" THEN fanout
  ELSE [fanout EXCEPT ![j] = IF status = "failed" THEN "queued" ELSE status]

Finished_Always(j, status) == [fanout EXCEPT ![j] = status]

\* Both updates keep a job that is no longer analyzing as it is.
Finished(j, status) ==
  IF fanout[j] = "analyzing" THEN [fanout EXCEPT ![j] = status] ELSE fanout

\* Worker w takes a copy of j from the queue, or goes on with the one it has.
Take(w, j, pc) ==
  /\ analysts[w].pc = "idle"
  /\ copies[j] > 0
  /\ copies' = [copies EXCEPT ![j] = @ - 1]
  /\ analysts' = [analysts EXCEPT ![w] = [pc |-> pc, job |-> {j}]]

Proceed(w, analyst) ==
  /\ analysts' = [analysts EXCEPT ![w] = analyst]
  /\ UNCHANGED copies

\* The claim commits before it looks at the repository: a job whose checkout
\* data is missing raises while it is analyzing.
ClaimJob(w, j) ==
  /\ CanClaimJob(j)
  /\ \E pc \in {"analyze", "failing"} : Take(w, j, pc)
  /\ fanout' = Claimed(j)
  /\ UNCHANGED <<page, sources, provider, origins, events, sync, assessments, migrations>>

SkipJob(w, j) ==
  /\ ~ CanClaimJob(j)
  /\ analysts[w].pc = "idle"
  /\ copies[j] > 0
  /\ copies' = [copies EXCEPT ![j] = @ - 1]
  /\ UNCHANGED <<syncVars, analysts, assessments, migrations>>

ClaimRaises(w, j) ==
  /\ ClaimFaults
  /\ Take(w, j, "failing")
  /\ UNCHANGED <<syncVars, assessments, migrations>>

\* A snapshot's verdict is the analyzer's, the same whoever finds it.  The rows
\* of this verdict are inserted whatever has become of the job meanwhile.
MigrationsAfter(j, snapshot) ==
  IF snapshot \in Affecting THEN migrations \cup {j} ELSE migrations

CompleteJob(w, j) ==
  /\ analysts[w] = [pc |-> "analyze", job |-> {j}]
  /\ \E d \in Snapshots :
       /\ assessments' = assessments \cup {<<j, d>>}
       /\ migrations' = MigrationsAfter(j, d)
  /\ fanout' = Finished(j, "completed")
  /\ Proceed(w, IdleAnalyst)
  /\ UNCHANGED <<page, sources, provider, origins, events, sync>>

AnalysisRaises(w) ==
  /\ analysts[w].pc = "analyze"
  /\ Proceed(w, [analysts[w] EXCEPT !.pc = "failing"])
  /\ UNCHANGED <<syncVars, assessments, migrations>>

FailJob(w, j) ==
  /\ analysts[w] = [pc |-> "failing", job |-> {j}]
  /\ fanout' = Finished(j, "failed")
  /\ Proceed(w, IdleAnalyst)
  /\ UNCHANGED <<page, sources, provider, origins, events, sync, assessments, migrations>>

\* The process dies, or fail_fanout_job itself raises.
AnalystDies(w) ==
  /\ Crashes
  /\ analysts[w].pc \in {"analyze", "failing"}
  /\ Proceed(w, [pc |-> "dead", job |-> {}])
  /\ UNCHANGED <<syncVars, assessments, migrations>>

TakeStep(w, j) == ClaimJob(w, j) \/ SkipJob(w, j) \/ ClaimRaises(w, j)

AnalysisStep(w) ==
  \/ AnalysisRaises(w)
  \/ \E j \in Jobs : CompleteJob(w, j) \/ FailJob(w, j)

Next ==
  \/ SyncNext /\ UNCHANGED fanoutVars
  \/ \E y \in Syncs : EnqueueAnalysis(y) \/ EnqueueStops(y)
  \/ \E w \in Analysts, j \in Jobs : TakeStep(w, j)
  \/ \E w \in Analysts : AnalysisStep(w) \/ AnalystDies(w)

Spec == Init /\ [][Next]_vars

\* The queue hands every job to some worker, and what has been started goes on
\* as long as its process lives.  Requests, and the pages, may rest for ever.
Fairness ==
  /\ \A y \in Syncs :
       /\ WF_vars(RequestStep(y) /\ UNCHANGED fanoutVars)
       /\ WF_vars(JobStep(y) /\ UNCHANGED fanoutVars)
       /\ WF_vars(EnqueueAnalysis(y))
  /\ \A j \in Jobs : WF_vars(\E w \in Analysts : TakeStep(w, j))
  /\ \A w \in Analysts : WF_vars(AnalysisStep(w))

FairSpec == Spec /\ Fairness

--------------------------------------------------------------------------------
(* Properties *)

TypeOK ==
  /\ SyncTypeOK
  /\ copies \in [Jobs -> Nat]
  /\ analysts \in [Analysts -> AnalystState]
  /\ assessments \subseteq Jobs \X Snapshots
  /\ migrations \subseteq Jobs

\* A job is analysed at most once, although copies of it are in the queue: a
\* queued job has no verdict, a completed one exactly one, and no job has two
\* (a second one might be of another commit and say the opposite).
AnalysedOnce ==
  \A j \in Jobs : LET verdicts == {a \in assessments : a[1] = j} IN
    /\ fanout[j] \in {"absent", "queued"} => verdicts = {}
    /\ fanout[j] = "completed" => verdicts # {}
    /\ \A a, b \in verdicts : a = b

\* A repository has a migration for a change exactly when its verdict is that
\* it is affected, also when the job was failed by somebody else meanwhile.
MigrationsFollowVerdicts ==
  \A j \in Jobs : j \in migrations <=> \E d \in Affecting : <<j, d>> \in assessments

Verdict(j) ==
  INSTANCE ChangeVerdict WITH
    Verdicts <- Snapshots, Affected <- Affecting, status <- fanout[j],
    verdicts <- {d \in Snapshots : <<j, d>> \in assessments}, migrates <- (j \in migrations)

\* Every fan-out job is such a question: batches that overlap, copies of a job
\* and workers that fail or die do not put it, take it up or answer it twice, and
\* its verdict and its migration appear in one step and never change.
JobsAreDecidedOnce ==
  /\ \A j \in Jobs : Verdict(j)!Init
  /\ [][\A j \in Jobs : [Verdict(j)!Next]_(Verdict(j)!verdictVars)]_vars

\* No process has died, and no claim has raised before it ran.
Undisturbed ==
  /\ \A y \in Syncs : sync[y].pc # "dead"
  /\ \A w \in Analysts :
       /\ analysts[w].pc # "dead"
       /\ \A j \in analysts[w].job : analysts[w].pc = "failing" => fanout[j] = "analyzing"

\* Sync y, or the batch it deferred, has still to ask for the analysis of j.
HandsOn(y, j) ==
  sync[y].pc \in {"returned", "defer", "batch"} /\ j[1] \in sync[y].changes

InHands(j) ==
  /\ fanout[j] = "queued" => copies[j] > 0 \/ \E y \in Syncs : HandsOn(y, j)
  /\ fanout[j] = "analyzing" =>
       \E w \in Analysts : analysts[w].pc \in {"analyze", "failing"} /\ analysts[w].job = {j}

\* The ground under EveryJobIsAnalysed: the row of a job, the copies of it in the
\* queue and the batch that puts them there are written by three processes in
\* three steps, and still no job is left without one of them, as long as nothing
\* disturbs the processes.
JobsAreInHands == []Undisturbed => [](\A j \in Jobs : InHands(j))

\* Every change that is committed is analysed in every repository, or its
\* analysis fails, as long as nothing disturbs the processes.
EveryJobIsAnalysed ==
  []Undisturbed =>
    \A j \in Jobs : fanout[j] = "queued" ~> fanout[j] \in {"completed", "failed"}

================================================================================
