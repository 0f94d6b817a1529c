-------------------------- MODULE MigrationLifecycle ---------------------------
(***************************************************************************)
(* Who drives the transactions of MigrationStore: HTTP handlers running    *)
(* side by side (each one an idempotency lookup, a transaction under the   *)
(* row lock, and the deferral of a job) and Procrastinate workers running  *)
(* run_migration_generation and publish_migration_draft, which may be      *)
(* handed the same job twice, fail at any step, or die.  What a worker     *)
(* does between its claim and its result (checkout, model calls, sandbox,  *)
(* GitHub) does not touch these rows; DraftPublishing models GitHub.       *)
(***************************************************************************)
EXTENDS MigrationStore

CONSTANTS
  Requests,    \* HTTP handlers that may run at the same time
  Workers,     \* worker processes
  MaxJobs,     \* bound: copies of one job in the queue
  ClaimFaults, \* BOOLEAN: may a claim raise before it runs (no database connection)
  Crashes      \* BOOLEAN: may a worker or a handler die

ASSUME LifecycleAssumption ==
  /\ MaxJobs \in Nat \ {0}
  /\ ClaimFaults \in BOOLEAN
  /\ Crashes \in BOOLEAN

VARIABLES
  requests,  \* the handlers in flight
  jobs,      \* how many times each job is in the Procrastinate queue
  workers    \* what each worker is doing

vars == <<storeVars, requests, jobs, workers>>

\* A job names an attempt (run_migration_generation) or the one publication record
\* (publish_migration_draft).
PublicationTask == 0
Tasks == AttemptIds \cup {PublicationTask}

IdleRequest ==
  [pc |-> "idle", op |-> "approve", key |-> "none", expected |-> 0, attempt |-> 0]

IdleWorker == [pc |-> "idle", task |-> PublicationTask, attempt |-> 0]

RequestState ==
  {IdleRequest} \cup
  [pc : {"checked", "deferring"}, op : Operations, key : Keys, expected : Nat,
   attempt : AttemptIdOrNull]

WorkerState ==
  [pc : {"idle", "running", "failing"}, task : Tasks, attempt : AttemptIdOrNull]

Init ==
  /\ StoreInit
  /\ requests = [r \in Requests |-> IdleRequest]
  /\ jobs = [t \in Tasks |-> 0]
  /\ workers = [w \in Workers |-> IdleWorker]

--------------------------------------------------------------------------------
(* HTTP handlers: generate_migration, publish_migration, _developer_action *)

\* The state an operation asks for.
Target(op) ==
  IF op = "generate" THEN "planning"
  ELSE IF op = "publish" THEN "pr_opening" ELSE ACTION_STATES[op]

\* The handler's idempotency lookup, which takes no lock.  A new request carries
\* the version its client reads now, which may be stale when the transaction runs;
\* one whose transition is illegal now is not followed, since it is refused now
\* and, by its version, at any later time.
\* A retry is answered from its record: generate and publish defer their job
\* again, a developer action just returns.  (A key that was used with another
\* body is refused and changes nothing.)
Lookup(r, op, key) ==
  /\ requests[r].pc = "idle"
  /\ LET asked(pc, expected, attempt) ==
           [pc |-> pc, op |-> op, key |-> key, expected |-> expected, attempt |-> attempt]
     IN  \/ /\ ~ Recorded(op, key)
            /\ Target(op) \in MIGRATION_TRANSITIONS[migration.status]
            /\ requests' = [requests EXCEPT ![r] = asked("checked", migration.version, 0)]
         \/ \E prior \in records :
              /\ prior.op = op /\ prior.key = key
              /\ op \in {"generate", "publish"}
              /\ requests' =
                   [requests EXCEPT ![r] = asked("deferring", prior.expected, prior.attempt)]
  /\ UNCHANGED <<storeVars, jobs, workers>>

\* The transaction under the migration's row lock commits ...
Commit(r) ==
  LET q == requests[r]
  IN  /\ q.pc = "checked"
      /\ \/ /\ q.op = "generate"
            /\ QueueAttempt(q.key, q.expected)
            /\ requests' = [requests EXCEPT ![r] =
                              [q EXCEPT !.pc = "deferring", !.attempt = migration'.current]]
         \/ /\ q.op = "publish"
            /\ QueuePublication(q.key, q.expected)
            /\ requests' = [requests EXCEPT ![r] =
                              [q EXCEPT !.pc = "deferring", !.attempt = migration.current]]
         \/ /\ q.op \in DeveloperActions
            /\ ApplyDeveloperAction(q.op, q.key, q.expected)
            /\ requests' = [requests EXCEPT ![r] = IdleRequest]
      /\ UNCHANGED <<jobs, workers>>

\* ... or raises (409, or a UNIQUE violation) and is rolled back.
CanCommit(q) ==
  \/ q.op = "generate" /\ CanQueueAttempt(q.key, q.expected)
  \/ q.op = "publish" /\ CanQueuePublication(q.key, q.expected)
  \/ q.op \in DeveloperActions /\ CanApplyDeveloperAction(q.op, q.key, q.expected)

Reject(r) ==
  /\ requests[r].pc = "checked"
  /\ ~ CanCommit(requests[r])
  /\ requests' = [requests EXCEPT ![r] = IdleRequest]
  /\ UNCHANGED <<storeVars, jobs, workers>>

\* The job a request has to defer.
TaskOf(q) == IF q.op = "publish" THEN PublicationTask ELSE q.attempt

\* task.defer(...), after and outside the transaction.
Defer(r) ==
  LET task == TaskOf(requests[r])
  IN  /\ requests[r].pc = "deferring"
      /\ jobs' = IF jobs[task] < MaxJobs
                 THEN [jobs EXCEPT ![task] = jobs[task] + 1]
                 ELSE jobs
      /\ requests' = [requests EXCEPT ![r] = IdleRequest]
      /\ UNCHANGED <<storeVars, workers>>

\* The control-plane process dies: the handler never defers its job.
LoseRequest(r) ==
  /\ Crashes
  /\ requests[r].pc = "deferring"
  /\ requests' = [requests EXCEPT ![r] = IdleRequest]
  /\ UNCHANGED <<storeVars, jobs, workers>>

--------------------------------------------------------------------------------
(* Workers: run_migration_generation and publish_migration_draft *)

\* A free worker takes a job from the queue.
Takes(w, task) ==
  /\ workers[w].pc = "idle"
  /\ jobs[task] > 0
  /\ jobs' = [jobs EXCEPT ![task] = jobs[task] - 1]
  /\ UNCHANGED requests

\* The compare-and-set of the claim finds the row in its starting state.
Claimable(task) ==
  IF task = PublicationTask THEN CanClaimPublication
  ELSE attempts[task].status = "planning"

\* The claim commits.  A publication job learns the attempt from its record ...
Claim(w, task) ==
  /\ Takes(w, task)
  /\ IF task = PublicationTask THEN ClaimPublication ELSE ClaimAttempt(task)
  /\ workers' = [workers EXCEPT ![w] =
                   [pc |-> "running", task |-> task,
                    attempt |-> IF task = PublicationTask THEN publication.attempt
                                ELSE task]]

\* ... or changes nothing, and the job is skipped ...
Skip(w, task) ==
  /\ Takes(w, task)
  /\ ~ Claimable(task)
  /\ UNCHANGED <<storeVars, workers>>

\* ... or raises and is rolled back, because the database cannot be reached or the
\* migration no longer owns the attempt.  The except clause of the task then fails
\* the attempt or the publication, though this worker never owned it.
ClaimRaises(w, task) ==
  /\ Takes(w, task)
  /\ \/ ClaimFaults
     \/ Claimable(task) /\ task # PublicationTask /\ ~ CanClaimAttempt(task)
  /\ workers' = [workers EXCEPT ![w] =
                   [pc |-> "failing", task |-> task, attempt |-> task]]
  /\ UNCHANGED storeVars

\* The work succeeded and its result is committed.
Complete(w, recommendation, passed) ==
  /\ workers[w].pc = "running"
  /\ IF workers[w].task = PublicationTask
     THEN CompletePublication(workers[w].attempt, workers[w].attempt,
                              workers[w].attempt, 1)
     ELSE CompleteAttempt(workers[w].task, recommendation, passed)
  /\ workers' = [workers EXCEPT ![w] = IdleWorker]
  /\ UNCHANGED <<requests, jobs>>

\* Anything after the claim raises: missing inputs, checkout, budget, sandbox,
\* GitHub, or the result transaction itself.
Raise(w) ==
  /\ workers[w].pc = "running"
  /\ workers' = [workers EXCEPT ![w] = [workers[w] EXCEPT !.pc = "failing"]]
  /\ UNCHANGED <<storeVars, requests, jobs>>

\* The except clause.
Fail(w) ==
  /\ workers[w].pc = "failing"
  /\ IF workers[w].task = PublicationTask THEN FailPublication
     ELSE FailAttempt(workers[w].task)
  /\ workers' = [workers EXCEPT ![w] = IdleWorker]
  /\ UNCHANGED <<requests, jobs>>

\* The process dies; Procrastinate does not hand the job out again.
Crash(w) ==
  /\ Crashes
  /\ workers[w].pc # "idle"
  /\ workers' = [workers EXCEPT ![w] = IdleWorker]
  /\ UNCHANGED <<storeVars, requests, jobs>>

--------------------------------------------------------------------------------

RequestStep(r) ==
  \/ \E op \in Operations, key \in Keys : Lookup(r, op, key)
  \/ Commit(r) \/ Reject(r) \/ Defer(r) \/ LoseRequest(r)

WorkerStep(w) ==
  \/ \E task \in Tasks : Claim(w, task) \/ Skip(w, task) \/ ClaimRaises(w, task)
  \/ \E recommendation \in DeveloperActions, passed \in BOOLEAN :
       Complete(w, recommendation, passed)
  \/ Raise(w) \/ Fail(w) \/ Crash(w)

Next ==
  \/ \E r \in Requests : RequestStep(r)
  \/ \E w \in Workers : WorkerStep(w)

Spec == Init /\ [][Next]_vars

\* A job that stays in the queue is taken by some worker (Procrastinate serves its
\* queue in order), and whoever started something that cannot block goes on: a
\* handler defers, a worker's run ends in a result or an exception (its checkout,
\* model calls and sandbox all have time limits).
Take(task) ==
  \E w \in Workers : Claim(w, task) \/ Skip(w, task) \/ ClaimRaises(w, task)

Work(w) ==
  \/ \E recommendation \in DeveloperActions, passed \in BOOLEAN :
       Complete(w, recommendation, passed)
  \/ Raise(w) \/ Fail(w)

FairSpec ==
  /\ Spec
  /\ \A r \in Requests : WF_vars(Defer(r))
  /\ \A task \in Tasks : SF_vars(Take(task))
  /\ \A w \in Workers : WF_vars(Work(w))

--------------------------------------------------------------------------------
(* Properties *)

\* The rows and the processes have their types.
TypeOK ==
  /\ StoreTypeOK
  /\ requests \in [Requests -> RequestState]
  /\ jobs \in [Tasks -> Nat]
  /\ workers \in [Workers -> WorkerState]

\* A completed, failed or cancelled attempt is never written again.
TerminalAttemptsAreImmutable ==
  [][\A a \in AttemptIds :
       attempts[a].status \in TerminalAttempt => attempts'[a] = attempts[a]]_vars

\* A worker of a superseded attempt may still finish or fail that attempt, but the
\* migration, which belongs to a newer attempt, does not move with it.
SupersededWorkersMoveNothing ==
  [][\A a \in AttemptIds :
       a # migration.current /\ attempts[a].status # "absent"
         /\ attempts'[a] # attempts[a]
       => migration' = migration]_vars

\* Who will go on with a job: a handler that has still to defer it, a queue that has
\* it, a worker that is on it.
HasJob(task) ==
  \/ jobs[task] > 0
  \/ \E r \in Requests : requests[r].pc = "deferring" /\ TaskOf(requests[r]) = task

HasWorker(task) ==
  \E w \in Workers : workers[w].pc \in {"running", "failing"} /\ workers[w].task = task

\* The ground under GenerationEnds and PublicationEnds: unless a process dies,
\* whatever the rows show in progress is in somebody's hands, although the rows
\* and the jobs are never written in one transaction, jobs come in copies, and
\* workers outlive the attempts they were started for.  The one exception is a
\* publication whose job was taken by a claim that raised.
NothingWaitsForNobody ==
  ~ Crashes =>
    /\ migration.status = "planning" =>
         HasJob(migration.current) \/ HasWorker(migration.current)
    /\ migration.status = "generating" => HasWorker(migration.current)
    /\ publication.status = "queued" => HasJob(PublicationTask) \/ ClaimFaults
    /\ publication.status = "publishing" => HasWorker(PublicationTask)

\* A queued generation ends: no migration stays in planning or generating, whatever
\* fails on the way, as long as no process dies.
GenerationEnds ==
  migration.status \in {"planning", "generating"}
    ~> migration.status \notin {"planning", "generating"}

================================================================================
