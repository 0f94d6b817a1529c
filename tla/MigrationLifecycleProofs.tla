------------------------ MODULE MigrationLifecycleProofs -----------------------
(***************************************************************************)
(* The handlers and workers of MigrationLifecycle only ever run the        *)
(* transactions of MigrationStore, so StoreInv holds in every reachable    *)
(* state, for any number of handlers, workers, attempts and keys, with     *)
(* crashes and with claims that raise.                                     *)
(***************************************************************************)
EXTENDS MigrationLifecycle, MigrationStoreProofs

\* The inductive invariant: the rows are consistent and the processes are typed.
LifecycleInv ==
  /\ StoreInv
  /\ requests \in [Requests -> RequestState]
  /\ jobs \in [Tasks -> Nat]
  /\ workers \in [Workers -> WorkerState]

\* The initial state satisfies the inductive invariant.
LEMMA InitLifecycleInv == Init => LifecycleInv
  <1> SUFFICES ASSUME Init PROVE LifecycleInv
    OBVIOUS
  <1>1. StoreInv
    BY StoreInitInv DEF Init
  <1>2. requests \in [Requests -> RequestState]
    BY DEF Init, RequestState
  <1>3. jobs \in [Tasks -> Nat]
    BY DEF Init
  <1>4. workers \in [Workers -> WorkerState]
    BY MaxAttemptsAssumption DEF Init, WorkerState, IdleWorker, Tasks, PublicationTask,
       AttemptIds, AttemptIdOrNull
  <1> QED
    BY <1>1, <1>2, <1>3, <1>4 DEF LifecycleInv

\* A handler that is past its lookup carries a key and a version that clients send.
LEMMA ActiveRequest ==
  ASSUME requests \in [Requests -> RequestState], NEW r \in Requests,
         requests[r].pc # "idle"
  PROVE  requests[r] \in
           [pc : {"checked", "deferring"}, op : Operations, key : Keys,
            expected : Nat, attempt : AttemptIdOrNull]
  BY DEF RequestState, IdleRequest

\* Every step of a handler, one per action, preserves the inductive invariant.
LEMMA RequestStepInv ==
  ASSUME LifecycleInv, NEW r \in Requests, RequestStep(r)
  PROVE  LifecycleInv'
  <1> DEFINE q == requests[r]
  <1> USE DEF LifecycleInv
  <1>1. ASSUME NEW op \in Operations, NEW key \in Keys, Lookup(r, op, key)
        PROVE  LifecycleInv'
    <2>1. StoreInv'
      BY <1>1, StoreUnchangedInv DEF Lookup
    <2>2. migration.version \in Nat /\ records \subseteq IdempotencyRecord
      BY DEF StoreInv, StoreTypeOK, MigrationRow
    <2>3. requests' \in [Requests -> RequestState]
      BY <1>1, <2>2, MaxAttemptsAssumption
         DEF Lookup, RequestState, IdempotencyRecord, AttemptIdOrNull
    <2> QED
      BY <1>1, <2>1, <2>3 DEF Lookup
  <1>2. ASSUME Commit(r) PROVE LifecycleInv'
    <2>1. /\ q.key \in Keys /\ q.expected \in Nat /\ q.op \in Operations
          /\ q.pc = "checked"
      BY <1>2, ActiveRequest DEF Commit
    <2>2. StoreInv'
      <3>1. CASE QueueAttempt(q.key, q.expected)
        BY <2>1, <3>1, QueueAttemptInv
      <3>2. CASE QueuePublication(q.key, q.expected)
        BY <2>1, <3>2, QueuePublicationInv
      <3>3. CASE q.op \in DeveloperActions /\ ApplyDeveloperAction(q.op, q.key, q.expected)
        BY <2>1, <3>3, ApplyDeveloperActionInv
      <3> QED
        BY <1>2, <3>1, <3>2, <3>3 DEF Commit
    <2>3. migration'.current \in AttemptIdOrNull /\ migration.current \in AttemptIdOrNull
      BY <2>2 DEF StoreInv, StoreTypeOK, MigrationRow
    <2>4. requests' \in [Requests -> RequestState]
      <3>1. ASSUME NEW n \in AttemptIdOrNull
            PROVE  [q EXCEPT !.pc = "deferring", !.attempt = n] \in RequestState
        BY <2>1, ActiveRequest DEF RequestState
      <3>2. IdleRequest \in RequestState
        BY DEF RequestState
      <3> QED
        BY <1>2, <2>3, <3>1, <3>2 DEF Commit
    <2> QED
      BY <1>2, <2>2, <2>4 DEF Commit
  <1>3. ASSUME Reject(r) \/ LoseRequest(r) PROVE LifecycleInv'
    <2>1. StoreInv'
      BY <1>3, StoreUnchangedInv DEF Reject, LoseRequest
    <2>2. requests' \in [Requests -> RequestState]
      BY <1>3 DEF Reject, LoseRequest, RequestState
    <2> QED
      BY <1>3, <2>1, <2>2 DEF Reject, LoseRequest
  <1>4. ASSUME Defer(r) PROVE LifecycleInv'
    <2>1. StoreInv'
      BY <1>4, StoreUnchangedInv DEF Defer
    <2>2. requests' \in [Requests -> RequestState]
      BY <1>4 DEF Defer, RequestState
    <2>3. jobs' \in [Tasks -> Nat]
      <3> DEFINE task == TaskOf(q)
      <3>1. jobs' = IF jobs[task] < MaxJobs
                    THEN [jobs EXCEPT ![task] = jobs[task] + 1] ELSE jobs
        BY <1>4 DEF Defer
      <3>2. task \in Tasks
        BY <1>4, ActiveRequest, MaxAttemptsAssumption
           DEF Defer, TaskOf, Tasks, PublicationTask, AttemptIds, AttemptIdOrNull
      <3> HIDE DEF task
      <3>3. jobs[task] + 1 \in Nat
        BY <3>2
      <3> QED
        BY <3>1, <3>2, <3>3
    <2> QED
      BY <1>4, <2>1, <2>2, <2>3 DEF Defer
  <1> QED
    BY <1>1, <1>2, <1>3, <1>4 DEF RequestStep

\* Every step of a worker, one per action, preserves the inductive invariant.
LEMMA WorkerStepInv ==
  ASSUME LifecycleInv, NEW w \in Workers, WorkerStep(w)
  PROVE  LifecycleInv'
  <1> USE DEF LifecycleInv
  <1>1. ASSUME NEW task \in Tasks, Claim(w, task) PROVE LifecycleInv'
    <2>1. StoreInv'
      <3>1. CASE task = PublicationTask
        BY <1>1, <3>1, ClaimPublicationInv DEF Claim
      <3>2. CASE task # PublicationTask
        BY <1>1, <3>2, ClaimAttemptInv DEF Claim, Tasks
      <3> QED
        BY <3>1, <3>2
    <2>2. jobs' \in [Tasks -> Nat]
      BY <1>1 DEF Claim, Takes
    <2>3. publication.attempt \in AttemptIdOrNull
      BY DEF StoreInv, StoreTypeOK, PublicationRow
    <2>4. workers' \in [Workers -> WorkerState]
      BY <1>1, <2>3, MaxAttemptsAssumption
         DEF Claim, WorkerState, Tasks, AttemptIds, AttemptIdOrNull
    <2> QED
      BY <1>1, <2>1, <2>2, <2>4 DEF Claim, Takes
  <1>2. ASSUME NEW task \in Tasks, Skip(w, task) \/ ClaimRaises(w, task)
        PROVE  LifecycleInv'
    <2>1. StoreInv'
      BY <1>2, StoreUnchangedInv DEF Skip, ClaimRaises
    <2>2. jobs' \in [Tasks -> Nat]
      BY <1>2 DEF Skip, ClaimRaises, Takes
    <2>3. workers' \in [Workers -> WorkerState]
      BY <1>2, MaxAttemptsAssumption
         DEF Skip, ClaimRaises, WorkerState, Tasks, PublicationTask, AttemptIds,
             AttemptIdOrNull
    <2> QED
      BY <1>2, <2>1, <2>2, <2>3 DEF Skip, ClaimRaises, Takes
  <1>3. ASSUME NEW recommendation \in DeveloperActions, NEW passed \in BOOLEAN,
               Complete(w, recommendation, passed)
        PROVE  LifecycleInv'
    <2>1. workers[w].attempt \in AttemptIdOrNull /\ workers[w].task \in Tasks
      BY DEF WorkerState
    <2>2. StoreInv'
      <3>1. CASE workers[w].task = PublicationTask
        BY <1>3, <2>1, <3>1, CompletePublicationInv DEF Complete
      <3>2. CASE workers[w].task # PublicationTask
        BY <1>3, <2>1, <3>2, CompleteAttemptInv DEF Complete, Tasks
      <3> QED
        BY <3>1, <3>2
    <2>3. workers' \in [Workers -> WorkerState]
      BY <1>3, MaxAttemptsAssumption
         DEF Complete, WorkerState, IdleWorker, Tasks, AttemptIds, AttemptIdOrNull
    <2> QED
      BY <1>3, <2>2, <2>3 DEF Complete
  <1>4. ASSUME Fail(w) PROVE LifecycleInv'
    <2>1. workers[w].task \in Tasks
      BY DEF WorkerState
    <2>2. StoreInv'
      <3>1. CASE workers[w].task = PublicationTask
        BY <1>4, <3>1, FailPublicationInv DEF Fail
      <3>2. CASE workers[w].task # PublicationTask
        BY <1>4, <2>1, <3>2, FailAttemptInv DEF Fail, Tasks
      <3> QED
        BY <3>1, <3>2
    <2>3. workers' \in [Workers -> WorkerState]
      BY <1>4, MaxAttemptsAssumption
         DEF Fail, WorkerState, IdleWorker, Tasks, AttemptIds, AttemptIdOrNull
    <2> QED
      BY <1>4, <2>2, <2>3 DEF Fail
  <1>5. ASSUME Raise(w) \/ Crash(w) PROVE LifecycleInv'
    <2>1. StoreInv'
      BY <1>5, StoreUnchangedInv DEF Raise, Crash
    <2>2. workers' \in [Workers -> WorkerState]
      BY <1>5, MaxAttemptsAssumption
         DEF Raise, Crash, WorkerState, IdleWorker, Tasks, AttemptIds, AttemptIdOrNull
    <2> QED
      BY <1>5, <2>1, <2>2 DEF Raise, Crash
  <1> QED
    BY <1>1, <1>2, <1>3, <1>4, <1>5 DEF WorkerStep

\* So does every step of the system, and stuttering.
LEMMA NextLifecycleInv == LifecycleInv /\ [Next]_vars => LifecycleInv'
  <1> SUFFICES ASSUME LifecycleInv, [Next]_vars PROVE LifecycleInv'
    OBVIOUS
  <1>1. CASE Next
    BY <1>1, RequestStepInv, WorkerStepInv DEF Next
  <1>2. CASE UNCHANGED vars
    BY <1>2, StoreUnchangedInv DEF vars, LifecycleInv
  <1> QED
    BY <1>1, <1>2

\* The rows stay consistent (StoreInv) and the processes well-formed, for any number
\* of handlers, workers, keys and attempts and with crashes and failing claims.
THEOREM Invariance == Spec => []LifecycleInv
  BY InitLifecycleInv, NextLifecycleInv, PTL DEF Spec

\* Rows and processes keep their types.
THEOREM TypeCorrect == Spec => []TypeOK
  <1>1. LifecycleInv => TypeOK
    BY DEF LifecycleInv, StoreInv, TypeOK
  <1> QED
    BY Invariance, <1>1, PTL

\* Whatever the handlers and workers do, fail at or leave undone, the migration and
\* its current attempt tell the same story.
THEOREM CurrentAttemptAlwaysExplains == Spec => []CurrentAttemptExplainsMigration
  <1>1. LifecycleInv => CurrentAttemptExplainsMigration
    BY DEF LifecycleInv, StoreInv
  <1> QED
    BY Invariance, <1>1, PTL

\* Attempts form one chain that ends at the current attempt.
THEOREM AttemptsAlwaysFormAChain == Spec => []AttemptsFormAChain
  <1>1. LifecycleInv => AttemptsFormAChain
    BY DEF LifecycleInv, StoreInv
  <1> QED
    BY Invariance, <1>1, PTL

\* The JSON that is served is the row that is checked.
THEOREM DataAlwaysMirrorsColumns == Spec => []DataMirrorsColumns
  <1>1. LifecycleInv => DataMirrorsColumns
    BY DEF LifecycleInv, StoreInv
  <1> QED
    BY Invariance, <1>1, PTL

\* A publication is in progress exactly while the migration is opening.
THEOREM PublicationAlwaysFollows == Spec => []PublicationFollowsMigration
  <1>1. LifecycleInv => PublicationFollowsMigration
    BY DEF LifecycleInv, StoreInv
  <1> QED
    BY Invariance, <1>1, PTL

\* Accepted decisions are serialized by the version, and each key is accepted once.
THEOREM DecisionsAlwaysSerialized == Spec => []DecisionsAreSerialized
  <1>1. LifecycleInv => DecisionsAreSerialized
    BY DEF LifecycleInv, StoreInv
  <1> QED
    BY Invariance, <1>1, PTL

--------------------------------------------------------------------------------
(* Action properties *)

\* What a step may do to an attempt: only a live one changes, and one that is not the
\* current attempt changes only when its row is inserted or by itself.
WritesLiveAttempts ==
  \A b \in AttemptIds :
    attempts'[b] # attempts[b] =>
      /\ attempts[b].status \in {"absent", "created", "planning", "generating",
                                 "verifying", "reviewing"}
      /\ \/ b = migration.current
         \/ attempts[b].status = "absent"
         \/ migration' = migration

\* queue_attempt writes a waiting revision or a row that was not there.
LEMMA QueueAttemptWrites ==
  ASSUME NEW key \in Keys, NEW expected \in Nat, StoreInv, QueueAttempt(key, expected)
  PROVE  WritesLiveAttempts
  <1>1. StoreTypeOK /\ migration.current = latest
    BY DEF StoreInv, AttemptsFormAChain
  <1>2. CASE RevisionWaiting
    <2>1. \A b \in AttemptIds \ {migration.current} : attempts'[b] = attempts[b]
      BY <1>1, <1>2 DEF QueueAttempt, QueuedNumber, StoreTypeOK
    <2>2. attempts[migration.current].status = "created"
      BY <1>2 DEF RevisionWaiting
    <2> QED
      BY <2>1, <2>2 DEF WritesLiveAttempts
  <1>3. CASE ~ RevisionWaiting
    <2>1. \A b \in AttemptIds \ {latest + 1} : attempts'[b] = attempts[b]
      BY <1>1, <1>3 DEF QueueAttempt, QueuedNumber, StoreTypeOK
    <2>2. \A b \in AttemptIds : b = latest + 1 => attempts[b].status = "absent"
      BY <1>1 DEF StoreTypeOK, AttemptIds, AttemptIdOrNull
    <2> QED
      BY <2>1, <2>2 DEF WritesLiveAttempts
  <1> QED
    BY <1>2, <1>3

\* A revision writes a row that was not there; the other actions write none.
LEMMA ApplyDeveloperActionWrites ==
  ASSUME NEW action \in DeveloperActions, NEW key \in Keys, NEW expected \in Nat,
         StoreInv, ApplyDeveloperAction(action, key, expected)
  PROVE  WritesLiveAttempts
  <1>1. StoreTypeOK
    BY DEF StoreInv
  <1>2. \A b \in AttemptIds \ {latest + 1} : attempts'[b] = attempts[b]
    <2>1. CASE action = "revise"
      BY <1>1, <2>1 DEF ApplyDeveloperAction, StoreTypeOK
    <2>2. CASE action # "revise"
      BY <2>2 DEF ApplyDeveloperAction
    <2> QED
      BY <2>1, <2>2
  <1>3. \A b \in AttemptIds : b = latest + 1 => attempts[b].status = "absent"
    BY <1>1 DEF StoreTypeOK, AttemptIds, AttemptIdOrNull
  <1> QED
    BY <1>2, <1>3 DEF WritesLiveAttempts

\* A generation worker writes an attempt that is not terminal, and moves the
\* migration only with its current attempt.
LEMMA GenerationWrites ==
  ASSUME NEW a \in AttemptIds, StoreInv,
         \/ ClaimAttempt(a)
         \/ \E recommendation \in DeveloperActions, passed \in BOOLEAN :
              CompleteAttempt(a, recommendation, passed)
         \/ FailAttempt(a)
  PROVE  WritesLiveAttempts
  <1>1. attempts \in [AttemptIds -> AttemptRow]
    BY DEF StoreInv, StoreTypeOK
  <1>2. CASE ClaimAttempt(a)
    BY <1>1, <1>2 DEF ClaimAttempt, CanClaimAttempt, WritesLiveAttempts
  <1>3. ASSUME NEW recommendation \in DeveloperActions, NEW passed \in BOOLEAN,
               CompleteAttempt(a, recommendation, passed)
        PROVE  WritesLiveAttempts
    BY <1>1, <1>3 DEF CompleteAttempt, CanCompleteAttempt, WritesLiveAttempts
  <1>4. CASE FailAttempt(a)
    <2> DEFINE fails == /\ attempts[a].status # "absent"
                        /\ "failed" \in AttemptTable[attempts[a].status]
    <2>1. CASE fails
      <3>1. attempts[a].status \in {"planning", "generating", "verifying", "reviewing"}
        BY <1>1, <2>1, AttemptEdges DEF AttemptRow
      <3>2. \A b \in AttemptIds \ {a} : attempts'[b] = attempts[b]
        BY <1>1, <1>4, <2>1 DEF FailAttempt
      <3>3. migration.current # a => migration' = migration
        BY <1>4, <2>1 DEF FailAttempt
      <3> QED
        BY <3>1, <3>2, <3>3 DEF WritesLiveAttempts
    <2>2. CASE ~ fails
      BY <1>4, <2>2 DEF FailAttempt, storeVars, WritesLiveAttempts
    <2> QED
      BY <2>1, <2>2
  <1> QED
    BY <1>2, <1>3, <1>4

\* No step of the system writes an attempt in any other way.
LEMMA NextWrites == LifecycleInv /\ [Next]_vars => WritesLiveAttempts
  <1> SUFFICES ASSUME LifecycleInv, [Next]_vars PROVE WritesLiveAttempts
    OBVIOUS
  <1> USE DEF LifecycleInv
  <1>1. ASSUME attempts' = attempts PROVE WritesLiveAttempts
    BY <1>1 DEF WritesLiveAttempts
  <1>2. ASSUME NEW r \in Requests, RequestStep(r) PROVE WritesLiveAttempts
    <2>1. CASE Commit(r)
      <3>1. /\ requests[r].key \in Keys /\ requests[r].expected \in Nat
            /\ requests[r].op \in Operations
        BY <2>1, ActiveRequest DEF Commit
      <3> QED
        BY <1>1, <2>1, <3>1, QueueAttemptWrites, ApplyDeveloperActionWrites
           DEF Commit, QueuePublication
    <2>2. CASE ~ Commit(r)
      BY <1>1, <1>2, <2>2
         DEF RequestStep, Lookup, Reject, Defer, LoseRequest, storeVars
    <2> QED
      BY <2>1, <2>2
  <1>3. ASSUME NEW w \in Workers, WorkerStep(w) PROVE WritesLiveAttempts
    <2>1. workers[w].task \in Tasks
      BY DEF WorkerState
    <2>2. ASSUME NEW task \in Tasks, Claim(w, task) PROVE WritesLiveAttempts
      BY <1>1, <2>2, GenerationWrites DEF Claim, ClaimPublication, Tasks
    <2>3. ASSUME NEW task \in Tasks, Skip(w, task) \/ ClaimRaises(w, task)
          PROVE  WritesLiveAttempts
      BY <1>1, <2>3 DEF Skip, ClaimRaises, storeVars
    <2>4. ASSUME NEW recommendation \in DeveloperActions, NEW passed \in BOOLEAN,
                 Complete(w, recommendation, passed)
          PROVE  WritesLiveAttempts
      BY <1>1, <2>1, <2>4, GenerationWrites DEF Complete, CompletePublication, Tasks
    <2>5. CASE Fail(w)
      BY <1>1, <2>1, <2>5, GenerationWrites DEF Fail, FailPublication, Tasks, storeVars
    <2>6. CASE Raise(w) \/ Crash(w)
      BY <1>1, <2>6 DEF Raise, Crash, storeVars
    <2> QED
      BY <1>3, <2>2, <2>3, <2>4, <2>5, <2>6 DEF WorkerStep
  <1>4. CASE UNCHANGED vars
    BY <1>1, <1>4 DEF vars, storeVars
  <1> QED
    BY <1>2, <1>3, <1>4 DEF Next

\* No step of any handler or worker writes a terminal attempt.
THEOREM TerminalAttemptsNeverChange == Spec => TerminalAttemptsAreImmutable
  <1> DEFINE Immutable ==
        \A a \in AttemptIds :
          attempts[a].status \in TerminalAttempt => attempts'[a] = attempts[a]
  <1>1. TerminalAttempt = {"completed", "failed", "cancelled"}
    BY DEF TerminalAttempt, AttemptStates, ATTEMPT_TRANSITIONS
  <1>2. LifecycleInv /\ [Next]_vars => [Immutable]_vars
    BY <1>1, NextWrites DEF WritesLiveAttempts
  <1> QED
    BY Invariance, <1>2, PTL DEF Spec, TerminalAttemptsAreImmutable

\* A superseded attempt may still end, but the migration does not move with it.
THEOREM SupersededWorkersNeverMove == Spec => SupersededWorkersMoveNothing
  <1> DEFINE Still ==
        \A a \in AttemptIds :
          a # migration.current /\ attempts[a].status # "absent"
            /\ attempts'[a] # attempts[a]
          => migration' = migration
  <1>1. LifecycleInv /\ [Next]_vars => [Still]_vars
    BY NextWrites DEF WritesLiveAttempts
  <1> QED
    BY Invariance, <1>1, PTL DEF Spec, SupersededWorkersMoveNothing

--------------------------------------------------------------------------------
(* Every step is a step, or a stutter, of the versioned lifecycle *)

\* No step of any handler or worker moves an entity in any other way.
LEMMA NextMoves == LifecycleInv /\ RowsCountFromZero /\ [Next]_vars => EntitiesMove
  <1> SUFFICES ASSUME LifecycleInv, RowsCountFromZero, [Next]_vars PROVE EntitiesMove
    OBVIOUS
  <1>1. StoreInv /\ requests \in [Requests -> RequestState]
          /\ workers \in [Workers -> WorkerState]
    BY DEF LifecycleInv
  <1>2. ASSUME NEW r \in Requests, RequestStep(r) PROVE EntitiesMove
    <2>1. CASE Commit(r)
      <3>1. /\ requests[r].key \in Keys /\ requests[r].expected \in Nat
            /\ requests[r].op \in Operations
        BY <1>1, <2>1, ActiveRequest DEF Commit
      <3> QED
        BY <1>1, <2>1, <3>1, QueueAttemptFollows, ApplyDeveloperActionFollows,
           PublicationFollows DEF Commit
    <2>2. CASE ~ Commit(r)
      BY <1>2, <2>2, NothingMoves DEF RequestStep, Lookup, Reject, Defer, LoseRequest,
                                     storeVars
    <2> QED
      BY <2>1, <2>2
  <1>3. ASSUME NEW w \in Workers, WorkerStep(w) PROVE EntitiesMove
    <2>1. workers[w].task \in Tasks /\ workers[w].attempt \in AttemptIdOrNull
      BY <1>1 DEF WorkerState
    <2>2. ASSUME NEW task \in Tasks, Claim(w, task) PROVE EntitiesMove
      BY <1>1, <2>2, GenerationFollows, PublicationFollows DEF Claim, Tasks
    <2>3. ASSUME NEW task \in Tasks, Skip(w, task) \/ ClaimRaises(w, task)
          PROVE  EntitiesMove
      BY <2>3, NothingMoves DEF Skip, ClaimRaises, storeVars
    <2>4. ASSUME NEW recommendation \in DeveloperActions, NEW passed \in BOOLEAN,
                 Complete(w, recommendation, passed)
          PROVE  EntitiesMove
      BY <1>1, <2>1, <2>4, GenerationFollows, PublicationFollows DEF Complete, Tasks
    <2>5. CASE Fail(w)
      BY <1>1, <2>1, <2>5, GenerationFollows, PublicationFollows DEF Fail, Tasks
    <2>6. CASE Raise(w) \/ Crash(w)
      BY <2>6, NothingMoves DEF Raise, Crash, storeVars
    <2> QED
      BY <1>3, <2>2, <2>3, <2>4, <2>5, <2>6 DEF WorkerStep
  <1>4. CASE UNCHANGED vars
    BY <1>4, NothingMoves DEF vars, storeVars
  <1> QED
    BY <1>2, <1>3, <1>4 DEF Next

\* Every step of the system moves the entities along their tables, one version for
\* each edge, or leaves them alone.
LEMMA AlwaysMoves == Spec => []RowsCountFromZero /\ [][EntitiesMove]_vars
  <1>1. Init => RowsCountFromZero
    BY StoreStarts DEF Init
  <1>2. RowsCountFromZero /\ LifecycleInv /\ [Next]_vars => RowsCountFromZero'
    BY NextMoves DEF EntitiesMove
  <1> QED
    BY Invariance, NextMoves, <1>1, <1>2, PTL DEF Spec

\* The migration implements the versioned lifecycle of its table.
THEOREM MigrationImplementsItsLifecycle == Spec => MigrationIsVersioned
  <1>1. Init => MigrationEntity!Init
    BY StoreStarts DEF Init
  <1>2. [EntitiesMove]_vars => [MigrationEntity!Next]_(MigrationEntity!vars)
    BY EntitiesStep DEF vars
  <1> QED
    BY AlwaysMoves, <1>1, <1>2, PTL DEF Spec, MigrationIsVersioned, MigrationEntity!Spec

\* So does every attempt, from the moment it is inserted.
THEOREM AttemptsImplementTheirLifecycle == Spec => AttemptsAreVersioned
  <1> DEFINE Steps == \A a \in AttemptIds : [AttemptEntity(a)!Next]_(attempts[a])
  <1>1. Init => \A a \in AttemptIds : AttemptEntity(a)!Init
    BY StoreStarts DEF Init
  <1>2. [EntitiesMove]_vars => [Steps]_storeVars
    BY EntitiesStep DEF vars
  <1> QED
    BY AlwaysMoves, <1>1, <1>2, PTL DEF Spec, AttemptsAreVersioned

--------------------------------------------------------------------------------
(***************************************************************************)
(* Only the transaction that answers a request lets a job wait, and what   *)
(* it has answered is never deleted: as long as the migration has not      *)
(* moved on, the answer of its last move is the one for the waiting job.   *)
(***************************************************************************)

\* Who put the migration where a job waits, and what it was told.
WaitingJobIsAnswered ==
  migration.status \in {"planning", "pr_opening"} =>
    \E answer \in records :
      /\ answer.version = migration.version /\ answer.attempt = migration.current
      /\ answer.op = IF migration.status = "planning" THEN "generate" ELSE "publish"

\* A transaction of a worker does not bring the migration to a waiting job.
LEMMA WorkersLetNothingWait ==
  ASSUME \/ \E a \in AttemptIds : ClaimAttempt(a) \/ FailAttempt(a)
         \/ \E a \in AttemptIds, recommendation \in DeveloperActions, passed \in BOOLEAN :
              CompleteAttempt(a, recommendation, passed)
         \/ \E a, tree, commit, pull : CompletePublication(a, tree, commit, pull)
         \/ ClaimPublication \/ FailPublication
         \/ UNCHANGED storeVars
  PROVE  /\ records' = records
         /\ migration' = migration \/ migration'.status \notin {"planning", "pr_opening"}
  <1>1. CASE \E a \in AttemptIds : ClaimAttempt(a) \/ FailAttempt(a)
    BY <1>1 DEF ClaimAttempt, FailAttempt, MovedMigration, storeVars
  <1>2. CASE \E a \in AttemptIds, recommendation \in DeveloperActions, passed \in BOOLEAN :
               CompleteAttempt(a, recommendation, passed)
    <2>1. PICK a \in AttemptIds, recommendation \in DeveloperActions, passed \in BOOLEAN :
                 CompleteAttempt(a, recommendation, passed)
      BY <1>2
    <2>2. /\ migration'.status = ResultState[recommendation]
          /\ records' = records
      BY <2>1 DEF CompleteAttempt, MovedMigration
    <2> QED
      BY <2>2 DEF ResultState, DeveloperActions
  <1>3. CASE \E a, tree, commit, pull : CompletePublication(a, tree, commit, pull)
    <2>1. PICK a, tree, commit, pull : CompletePublication(a, tree, commit, pull)
      BY <1>3
    <2>2. migration'.status = "pr_opened" /\ records' = records
      BY <2>1 DEF CompletePublication, MovedMigration
    <2> QED
      BY <2>2
  <1>4. CASE ClaimPublication \/ FailPublication \/ UNCHANGED storeVars
    BY <1>4 DEF ClaimPublication, FailPublication, MovedMigration, storeVars
  <1> QED
    BY <1>1, <1>2, <1>3, <1>4

\* A transaction of a handler answers with the version and the attempt it leaves
\* the migration with.
LEMMA HandlersAnswer ==
  ASSUME StoreInv, NEW key \in Keys, NEW expected \in Nat,
         \/ QueueAttempt(key, expected) \/ QueuePublication(key, expected)
         \/ \E action \in DeveloperActions : ApplyDeveloperAction(action, key, expected)
  PROVE  WaitingJobIsAnswered'
  <1>1. CASE QueueAttempt(key, expected)
    <2>1. migration'.version = migration.version + 1 /\ migration'.current = QueuedNumber
          /\ migration'.status = "planning"
      BY <1>1 DEF QueueAttempt, MovedMigration
    <2>2. QueuedAttempt(key, expected) \in records'
      BY <1>1 DEF QueueAttempt
    <2> QED
      BY <2>1, <2>2 DEF WaitingJobIsAnswered, QueuedAttempt, Response
  <1>2. CASE QueuePublication(key, expected)
    <2>1. migration'.version = migration.version + 1 /\ migration'.current = migration.current
          /\ migration'.status = "pr_opening"
      BY <1>2 DEF QueuePublication, MovedMigration
    <2>2. Response("publish", key, expected, migration.version + 1, migration.current)
            \in records'
      BY <1>2 DEF QueuePublication
    <2> QED
      BY <2>1, <2>2 DEF WaitingJobIsAnswered, Response
  <1>3. CASE \E action \in DeveloperActions : ApplyDeveloperAction(action, key, expected)
    <2>1. migration'.status \notin {"planning", "pr_opening"}
      BY <1>3 DEF ApplyDeveloperAction, MovedMigration, ACTION_STATES, DeveloperActions
    <2> QED
      BY <2>1 DEF WaitingJobIsAnswered
  <1> QED
    BY <1>1, <1>2, <1>3

\* No step takes the answer of a waiting job away, or lets a job wait without one.
LEMMA NextKeepsAnswers ==
  LifecycleInv /\ WaitingJobIsAnswered /\ [Next]_vars => WaitingJobIsAnswered'
  <1> SUFFICES ASSUME LifecycleInv, WaitingJobIsAnswered, [Next]_vars
               PROVE  WaitingJobIsAnswered'
    OBVIOUS
  <1> USE DEF LifecycleInv
  <1>1. ASSUME records' = records,
               migration' = migration \/ migration'.status \notin {"planning", "pr_opening"}
        PROVE  WaitingJobIsAnswered'
    BY <1>1 DEF WaitingJobIsAnswered
  <1>2. ASSUME UNCHANGED storeVars PROVE WaitingJobIsAnswered'
    BY <1>1, <1>2 DEF storeVars
  <1>3. ASSUME NEW r \in Requests, RequestStep(r) PROVE WaitingJobIsAnswered'
    <2>1. CASE Commit(r)
      <3>1. /\ requests[r].key \in Keys /\ requests[r].expected \in Nat
            /\ requests[r].op \in Operations
        BY <2>1, ActiveRequest DEF Commit
      <3> QED
        BY <2>1, <3>1, HandlersAnswer DEF Commit
    <2>2. CASE ~ Commit(r)
      BY <1>2, <1>3, <2>2 DEF RequestStep, Lookup, Reject, Defer, LoseRequest
    <2> QED
      BY <2>1, <2>2
  <1>4. ASSUME NEW w \in Workers, WorkerStep(w) PROVE WaitingJobIsAnswered'
    <2>1. workers[w].task \in Tasks
      BY DEF WorkerState
    <2>2. ASSUME NEW task \in Tasks, Claim(w, task) PROVE WaitingJobIsAnswered'
      BY <1>1, <2>2, WorkersLetNothingWait DEF Claim, Tasks
    <2>3. ASSUME NEW task \in Tasks, Skip(w, task) \/ ClaimRaises(w, task)
          PROVE  WaitingJobIsAnswered'
      BY <1>2, <2>3 DEF Skip, ClaimRaises
    <2>4. ASSUME NEW recommendation \in DeveloperActions, NEW passed \in BOOLEAN,
                 Complete(w, recommendation, passed)
          PROVE  WaitingJobIsAnswered'
      BY <1>1, <2>1, <2>4, WorkersLetNothingWait DEF Complete, Tasks
    <2>5. CASE Fail(w)
      BY <1>1, <2>1, <2>5, WorkersLetNothingWait DEF Fail, Tasks
    <2>6. CASE Raise(w) \/ Crash(w)
      BY <1>2, <2>6 DEF Raise, Crash
    <2> QED
      BY <1>4, <2>2, <2>3, <2>4, <2>5, <2>6 DEF WorkerStep
  <1>5. CASE UNCHANGED vars
    BY <1>2, <1>5 DEF vars
  <1> QED
    BY <1>3, <1>4, <1>5 DEF Next

\* Whenever a process dies between its commit and its deferral, the retry of its
\* request finds the answer that names the waiting job, and that job can be claimed.
THEOREM LostJobsAreNeverStranded == Spec => []LostJobsCanBeDeferredAgain
  <1>1. Init => WaitingJobIsAnswered
    BY DEF Init, StoreInit, WaitingJobIsAnswered
  <1>2. LifecycleInv /\ WaitingJobIsAnswered => LostJobsCanBeDeferredAgain
    <2> SUFFICES ASSUME StoreInv, WaitingJobIsAnswered PROVE LostJobsCanBeDeferredAgain
      BY DEF LifecycleInv
    <2>1. CurrentAttemptExplainsMigration /\ PublicationFollowsMigration
      BY DEF StoreInv
    <2>2. ASSUME migration.status = "planning"
          PROVE  /\ migration.current # 0 /\ CanClaimAttempt(migration.current)
      BY <2>1, <2>2 DEF CurrentAttemptExplainsMigration, Explains, CanClaimAttempt
    <2>3. ASSUME publication.status = "queued"
          PROVE  /\ migration.status = "pr_opening"
                 /\ publication.attempt = migration.current
                 /\ Publishable(migration.current)
      BY <2>1, <2>3 DEF CurrentAttemptExplainsMigration, Explains, Publishable,
                        PublicationFollowsMigration
    <2> QED
      BY <2>2, <2>3 DEF WaitingJobIsAnswered, LostJobsCanBeDeferredAgain
  <1> QED
    BY Invariance, NextKeepsAnswers, <1>1, <1>2, PTL DEF Spec

--------------------------------------------------------------------------------
(***************************************************************************)
(* NothingWaitsForNobody, with LifecycleInv, is inductive: a step that     *)
(* moves a row to where a job waits leaves the handler that defers it, one *)
(* that takes the job leaves a worker on it, and a worker leaves only with *)
(* the row moved on.                                                       *)
(***************************************************************************)

\* Of the current attempt, in the state its migration shows.
LEMMA CurrentInProgress ==
  ASSUME StoreInv, migration.status \in {"planning", "generating"}
  PROVE  /\ migration.current \in AttemptIds
         /\ migration.current # PublicationTask
         /\ attempts[migration.current].status = migration.status
         /\ "blocked" \in MIGRATION_TRANSITIONS[migration.status]
         /\ "failed" \in AttemptTable[migration.status]
  <1>1. CurrentAttemptExplainsMigration /\ migration \in MigrationRow
    BY DEF StoreInv, StoreTypeOK
  <1>2. migration.current # 0
    BY <1>1 DEF CurrentAttemptExplainsMigration
  <1>3. migration.current \in AttemptIds
    BY <1>1, <1>2, MaxAttemptsAssumption DEF MigrationRow, AttemptIdOrNull, AttemptIds
  <1>4. attempts[migration.current].status = migration.status
    BY <1>1, <1>2 DEF CurrentAttemptExplainsMigration, Explains
  <1>5. /\ "blocked" \in MIGRATION_TRANSITIONS[migration.status]
        /\ "failed" \in AttemptTable[migration.status]
    BY DEF MIGRATION_TRANSITIONS, AttemptTable, AttemptStates, ATTEMPT_TRANSITIONS
  <1> QED
    BY <1>2, <1>3, <1>4, <1>5 DEF PublicationTask

\* What a step of a handler leaves in its hands or in the queue.
LEMMA HandlersKeepJobs ==
  ASSUME LifecycleInv, ~ Crashes, NEW r \in Requests, RequestStep(r), NEW task \in Tasks
  PROVE  /\ HasJob(task) => HasJob(task)'
         /\ HasWorker(task) => HasWorker(task)'
  <1>1. requests \in [Requests -> RequestState] /\ jobs \in [Tasks -> Nat]
    BY DEF LifecycleInv
  <1>2. HasWorker(task) => HasWorker(task)'
    BY DEF RequestStep, Lookup, Commit, Reject, Defer, LoseRequest, HasWorker
  <1>3. ASSUME HasJob(task), ~ Defer(r) PROVE HasJob(task)'
    <2>1. requests[r].pc # "deferring" /\ jobs' = jobs
      BY <1>3 DEF RequestStep, Lookup, Commit, Reject, LoseRequest
    <2>2. \A s \in Requests \ {r} : requests'[s] = requests[s]
      BY <1>1, <1>3 DEF RequestStep, Lookup, Commit, Reject, LoseRequest
    <2> QED
      BY <1>3, <2>1, <2>2 DEF HasJob
  <1>4. ASSUME HasJob(task), Defer(r) PROVE HasJob(task)'
    <2> DEFINE mine == TaskOf(requests[r])
    <2>1. requests[r].pc = "deferring"
      BY <1>4 DEF Defer
    <2>2. mine \in Tasks
      BY <1>1, <2>1, ActiveRequest, MaxAttemptsAssumption
         DEF TaskOf, Tasks, PublicationTask, AttemptIds, AttemptIdOrNull
    <2>3. /\ jobs' = IF jobs[mine] < MaxJobs
                     THEN [jobs EXCEPT ![mine] = jobs[mine] + 1] ELSE jobs
          /\ requests' = [requests EXCEPT ![r] = IdleRequest]
      BY <1>4 DEF Defer
    <2> HIDE DEF mine
    <2>4. jobs'[mine] > 0 /\ jobs'[task] >= jobs[task]
      BY <1>1, <2>2, <2>3, LifecycleAssumption
    <2>5. CASE jobs[task] > 0
      <3>1. jobs[task] \in Nat /\ jobs'[task] \in Nat
        BY <1>1, <2>2, <2>3
      <3> QED
        BY <2>4, <2>5, <3>1 DEF HasJob
    <2>6. ASSUME NEW s \in Requests, requests[s].pc = "deferring",
                 TaskOf(requests[s]) = task
          PROVE  HasJob(task)'
      <3>1. CASE s = r
        BY <2>4, <2>6, <3>1 DEF HasJob, mine
      <3>2. CASE s # r
        BY <1>1, <2>3, <2>6, <3>2 DEF HasJob
      <3> QED
        BY <3>1, <3>2
    <2> QED
      BY <1>4, <2>5, <2>6 DEF HasJob
  <1> QED
    BY <1>2, <1>3, <1>4

\* A worker that takes a job leaves the other jobs in the queue, and keeps its own
\* in hand unless it skips it.
LEMMA TakingKeepsJobs ==
  ASSUME LifecycleInv, NEW w \in Workers, NEW task \in Tasks, Takes(w, task),
         \/ workers' = workers
         \/ \E pc \in {"running", "failing"} : \E attempt :
              workers' = [workers EXCEPT ![w] = [pc |-> pc, task |-> task, attempt |-> attempt]],
         NEW other \in Tasks
  PROVE  /\ HasWorker(other) => HasWorker(other)'
         /\ other # task /\ HasJob(other) => HasJob(other)'
         /\ workers' # workers => HasWorker(task)'
  <1>1. workers \in [Workers -> WorkerState] /\ jobs \in [Tasks -> Nat]
    BY DEF LifecycleInv
  <1>2. workers[w].pc = "idle" /\ requests' = requests
    BY DEF Takes
  <1>3. other # task => jobs'[other] = jobs[other]
    BY <1>1 DEF Takes
  <1>4. other # task /\ HasJob(other) => HasJob(other)'
    BY <1>2, <1>3 DEF HasJob
  <1>5. CASE workers' = workers
    BY <1>4, <1>5 DEF HasWorker
  <1>6. ASSUME NEW pc \in {"running", "failing"}, NEW attempt,
               workers' = [workers EXCEPT ![w] =
                             [pc |-> pc, task |-> task, attempt |-> attempt]]
        PROVE  (HasWorker(other) => HasWorker(other)') /\ HasWorker(task)'
    <2>1. \A v \in Workers \ {w} : workers'[v] = workers[v]
      BY <1>1, <1>6
    <2>2. workers'[w].pc \in {"running", "failing"} /\ workers'[w].task = task
      BY <1>1, <1>6
    <2> QED
      BY <1>2, <2>1, <2>2 DEF HasWorker
  <1> QED
    BY <1>4, <1>5, <1>6

\* A worker that ends takes only its own task out of somebody's hands.
LEMMA EndingKeepsJobs ==
  ASSUME LifecycleInv, NEW w \in Workers, UNCHANGED <<requests, jobs>>,
         workers' = [workers EXCEPT ![w] = IdleWorker], NEW other \in Tasks
  PROVE  /\ HasJob(other) => HasJob(other)'
         /\ other # workers[w].task /\ HasWorker(other) => HasWorker(other)'
  <1>1. \A v \in Workers \ {w} : workers'[v] = workers[v]
    BY DEF LifecycleInv
  <1> QED
    BY <1>1 DEF HasJob, HasWorker

\* A step that leaves the rows where they are, or moves them out of progress, and
\* nobody's hands empty, lets nothing wait.
LEMMA NothingNewWaits ==
  ASSUME LifecycleInv, NothingWaitsForNobody, ~ Crashes,
         \/ migration'.status = migration.status /\ migration'.current = migration.current
         \/ migration'.status \notin {"planning", "generating"},
         \/ publication'.status = publication.status
         \/ publication'.status \notin {"queued", "publishing"},
         \A task \in Tasks : /\ HasJob(task) => HasJob(task)'
                             /\ HasWorker(task) => HasWorker(task)'
  PROVE  NothingWaitsForNobody'
  <1>1. migration.status \in {"planning", "generating"} => migration.current \in Tasks
    BY CurrentInProgress DEF LifecycleInv, Tasks
  <1>2. PublicationTask \in Tasks
    BY DEF Tasks
  <1> QED
    BY <1>1, <1>2 DEF NothingWaitsForNobody

\* A handler that lets a job wait is the one that will defer it.
LEMMA HandlersLeaveNothing ==
  ASSUME LifecycleInv, NothingWaitsForNobody, ~ Crashes, NEW r \in Requests, RequestStep(r)
  PROVE  NothingWaitsForNobody'
  <1> DEFINE q == requests[r]
  <1>1. \A task \in Tasks : /\ HasJob(task) => HasJob(task)'
                            /\ HasWorker(task) => HasWorker(task)'
    BY HandlersKeepJobs
  <1>2. StoreInv /\ requests \in [Requests -> RequestState]
    BY DEF LifecycleInv
  <1>3. migration.current \in AttemptIdOrNull /\ PublicationTask \in Tasks
    BY <1>2 DEF StoreInv, StoreTypeOK, MigrationRow, Tasks
  <1>4. CASE Commit(r) /\ q.op = "generate"
    <2>1. /\ migration'.status = "planning" /\ publication' = publication
          /\ requests' = [requests EXCEPT ![r] =
                            [q EXCEPT !.pc = "deferring", !.attempt = migration'.current]]
      BY <1>4 DEF Commit, QueueAttempt, MovedMigration, DeveloperActions
    <2>2. requests'[r].pc = "deferring" /\ TaskOf(requests[r])' = migration'.current
      BY <1>2, <1>4, <2>1, ActiveRequest DEF Commit, TaskOf
    <2>3. HasJob(migration.current)'
      BY <2>2 DEF HasJob
    <2> QED
      BY <1>1, <1>3, <2>1, <2>3 DEF NothingWaitsForNobody
  <1>5. CASE Commit(r) /\ q.op = "publish"
    <2>1. /\ QueuePublication(q.key, q.expected)
          /\ requests' = [requests EXCEPT ![r] =
                            [q EXCEPT !.pc = "deferring", !.attempt = migration.current]]
      BY <1>5 DEF Commit, DeveloperActions
    <2>2. publication'.status = "queued"
      <3>1. publication \in PublicationRow
        BY <1>2 DEF StoreInv, StoreTypeOK
      <3> QED
        BY <2>1, <3>1 DEF QueuePublication, PublicationRow
    <2>3. migration'.status = "pr_opening"
      BY <2>1 DEF QueuePublication, MovedMigration
    <2>4. requests'[r].pc = "deferring" /\ TaskOf(requests[r])' = PublicationTask
      BY <1>2, <1>5, <2>1, ActiveRequest DEF Commit, TaskOf
    <2>5. HasJob(PublicationTask)'
      BY <2>4 DEF HasJob
    <2> QED
      BY <2>2, <2>3, <2>5 DEF NothingWaitsForNobody
  <1>6. CASE Commit(r) /\ q.op \in DeveloperActions
    <2>1. migration'.status \notin {"planning", "generating"} /\ publication' = publication
      <3>1. ApplyDeveloperAction(q.op, q.key, q.expected)
        BY <1>6 DEF Commit, DeveloperActions
      <3>2. migration'.status = ACTION_STATES[q.op] /\ publication' = publication
        BY <3>1 DEF ApplyDeveloperAction, MovedMigration
      <3> QED
        BY <1>6, <3>2 DEF ACTION_STATES, DeveloperActions
    <2> QED
      BY <1>1, <2>1, NothingNewWaits
  <1>7. CASE ~ Commit(r)
    <2>1. UNCHANGED storeVars
      BY <1>7 DEF RequestStep, Lookup, Reject, Defer, LoseRequest
    <2> QED
      BY <1>1, <2>1, NothingNewWaits DEF storeVars
  <1> QED
    BY <1>4, <1>5, <1>6, <1>7 DEF Commit

\* A worker that takes a job is on it, unless it has found that it is nobody's any
\* more or, for a publication, its claim raised.
LEMMA TakersLeaveNothing ==
  ASSUME LifecycleInv, NothingWaitsForNobody, ~ Crashes, NEW w \in Workers,
         NEW task \in Tasks, Claim(w, task) \/ Skip(w, task) \/ ClaimRaises(w, task)
  PROVE  NothingWaitsForNobody'
  <1>1. Takes(w, task)
    BY DEF Claim, Skip, ClaimRaises
  <1>2. \/ workers' = workers
        \/ \E pc \in {"running", "failing"} : \E attempt :
             workers' = [workers EXCEPT ![w] = [pc |-> pc, task |-> task, attempt |-> attempt]]
    BY DEF Claim, Skip, ClaimRaises
  <1>3. \A other \in Tasks :
          /\ HasWorker(other) => HasWorker(other)'
          /\ other # task /\ HasJob(other) => HasJob(other)'
          /\ workers' # workers => HasWorker(task)'
    BY <1>1, <1>2, TakingKeepsJobs
  <1>4. StoreInv /\ PublicationTask \in Tasks
    BY DEF LifecycleInv, Tasks
  <1>5. migration.status \in {"planning", "generating"} =>
          /\ migration.current \in Tasks /\ migration.current # PublicationTask
          /\ attempts[migration.current].status = migration.status
    BY <1>4, CurrentInProgress DEF Tasks
  <1>6. workers' = workers \/ HasWorker(task)'
    BY <1>3
  <1>7. CASE Claim(w, task) /\ task = PublicationTask
    <2>1. migration' = migration /\ publication'.status = "publishing" /\ workers' # workers
      <3>1. publication \in PublicationRow /\ workers[w].pc = "idle"
            /\ workers \in [Workers -> WorkerState]
        BY <1>1, <1>4 DEF StoreInv, StoreTypeOK, Takes, LifecycleInv
      <3>2. workers'[w].pc = "running"
        BY <1>7, <3>1 DEF Claim
      <3> QED
        BY <1>7, <3>1, <3>2 DEF Claim, ClaimPublication, PublicationRow
    <2> QED
      BY <1>3, <1>4, <1>5, <1>7, <2>1 DEF NothingWaitsForNobody
  <1>8. CASE Claim(w, task) /\ task # PublicationTask
    <2>1. /\ migration'.status = "generating" /\ migration'.current = task
          /\ publication' = publication
      BY <1>8 DEF Claim, ClaimAttempt, CanClaimAttempt, MovedMigration
    <2>2. HasWorker(task)'
      <3>1. workers[w].pc = "idle" /\ workers \in [Workers -> WorkerState]
        BY <1>1 DEF Takes, LifecycleInv
      <3>2. workers'[w].pc = "running"
        BY <1>8, <3>1 DEF Claim
      <3> QED
        BY <1>6, <3>1, <3>2
    <2>3. HasWorker(migration.current)'
      BY <2>1, <2>2 DEF HasWorker
    <2> QED
      BY <1>3, <1>4, <1>8, <2>1, <2>3 DEF NothingWaitsForNobody
  <1>9. CASE Skip(w, task)
    <2>1. migration' = migration /\ publication' = publication /\ ~ Claimable(task)
      BY <1>9 DEF Skip, storeVars
    <2>2. /\ migration.status = "planning" => task # migration.current
          /\ publication.status = "queued" => task # PublicationTask
      BY <1>5, <2>1 DEF Claimable, CanClaimPublication
    <2> QED
      BY <1>3, <1>4, <1>5, <2>1, <2>2 DEF NothingWaitsForNobody
  <1>10. CASE ClaimRaises(w, task)
    <2>1. migration' = migration /\ publication' = publication
      BY <1>10 DEF ClaimRaises, storeVars
    <2>2. HasWorker(task)'
      <3>1. workers[w].pc = "idle" /\ workers \in [Workers -> WorkerState]
        BY <1>1 DEF Takes, LifecycleInv
      <3>2. workers'[w].pc = "failing"
        BY <1>10, <3>1 DEF ClaimRaises
      <3> QED
        BY <1>6, <3>1, <3>2
    <2>3. task = PublicationTask => ClaimFaults
      BY <1>10 DEF ClaimRaises
    <2> QED
      BY <1>3, <1>4, <1>5, <2>1, <2>2, <2>3 DEF NothingWaitsForNobody
  <1> QED
    BY <1>7, <1>8, <1>9, <1>10

\* A worker that ends has moved on the row that its task is in.
LEMMA EndersLeaveNothing ==
  ASSUME LifecycleInv, NothingWaitsForNobody, ~ Crashes, NEW w \in Workers,
         \/ Fail(w)
         \/ \E recommendation \in DeveloperActions, passed \in BOOLEAN :
              Complete(w, recommendation, passed)
  PROVE  NothingWaitsForNobody'
  <1> DEFINE task == workers[w].task
  <1>1. StoreInv /\ task \in Tasks /\ PublicationTask \in Tasks
    BY DEF LifecycleInv, WorkerState, Tasks
  <1>2. /\ UNCHANGED <<requests, jobs>>
        /\ workers' = [workers EXCEPT ![w] = IdleWorker]
    BY DEF Fail, Complete
  <1>3. \A other \in Tasks :
          /\ HasJob(other) => HasJob(other)'
          /\ other # task /\ HasWorker(other) => HasWorker(other)'
    BY <1>2, EndingKeepsJobs
  <1>4. migration.status \in {"planning", "generating"} =>
          /\ migration.current \in Tasks /\ migration.current # PublicationTask
          /\ attempts[migration.current].status = migration.status
          /\ "blocked" \in MIGRATION_TRANSITIONS[migration.status]
          /\ "failed" \in AttemptTable[migration.status]
    BY <1>1, CurrentInProgress DEF Tasks
  <1> HIDE DEF task
  \* Where the rows moved, or need this worker no more, the others stay in hands.
  <1>5. ASSUME \/ migration' = migration
                  /\ (migration.status \in {"planning", "generating"} =>
                        task # migration.current)
               \/ migration'.status \notin {"planning", "generating"},
               \/ publication' = publication
                  /\ (publication.status = "publishing" => task # PublicationTask)
               \/ publication'.status \notin {"queued", "publishing"}
        PROVE  NothingWaitsForNobody'
    BY <1>1, <1>3, <1>4, <1>5 DEF NothingWaitsForNobody
  <1>6. ASSUME NEW recommendation \in DeveloperActions, NEW passed \in BOOLEAN,
               Complete(w, recommendation, passed)
        PROVE  NothingWaitsForNobody'
    <2>1. CASE task = PublicationTask
      <3>1. publication \in PublicationRow
        BY <1>1 DEF StoreInv, StoreTypeOK
      <3>2. PICK a : CompletePublication(a, a, a, 1)
        BY <1>6, <2>1 DEF Complete, task
      <3>3. migration'.status = "pr_opened"
        BY <3>2 DEF CompletePublication, MovedMigration
      <3>4. publication'.status = "completed"
        BY <3>1, <3>2 DEF CompletePublication, PublicationRow
      <3> QED
        BY <1>5, <3>3, <3>4
    <2>2. CASE task # PublicationTask
      <3>1. CompleteAttempt(task, recommendation, passed)
        BY <1>6, <2>2 DEF Complete, task
      <3>2. migration'.status = ResultState[recommendation] /\ publication' = publication
        BY <3>1 DEF CompleteAttempt, MovedMigration
      <3>3. migration'.status \notin {"planning", "generating"}
        BY <3>2 DEF ResultState, DeveloperActions
      <3> QED
        BY <1>5, <2>2, <3>2, <3>3
    <2> QED
      BY <2>1, <2>2
  <1>7. CASE Fail(w) /\ task = PublicationTask
    <2>1. FailPublication
      BY <1>7 DEF Fail, task
    <2>2. publication \in PublicationRow
      BY <1>1 DEF StoreInv, StoreTypeOK
    <2>3. CASE publication.status = "publishing"
      <3>1. /\ publication'.status = "failed"
            /\ migration' = migration \/ migration'.status = "blocked"
        BY <2>1, <2>2, <2>3 DEF FailPublication, MovedMigration, PublicationRow
      <3> QED
        BY <1>4, <1>5, <1>7, <3>1
    <2>4. CASE publication.status # "publishing"
      <3>1. migration' = migration /\ publication' = publication
        BY <2>1, <2>4 DEF FailPublication, storeVars
      <3> QED
        BY <1>4, <1>5, <1>7, <2>4, <3>1
    <2> QED
      BY <2>3, <2>4
  <1>8. CASE Fail(w) /\ task # PublicationTask
    <2>1. FailAttempt(task)
      BY <1>8 DEF Fail, task
    <2>2. publication' = publication
      BY <2>1 DEF FailAttempt, storeVars
    <2>3. \/ migration' = migration
             /\ (migration.status \in {"planning", "generating"} => task # migration.current)
          \/ migration'.status \notin {"planning", "generating"}
      BY <1>4, <2>1 DEF FailAttempt, MovedMigration, storeVars
    <2> QED
      BY <1>5, <1>8, <2>2, <2>3
  <1> QED
    BY <1>6, <1>7, <1>8

\* No step lets anything wait for nobody.
LEMMA NextLeavesNothing ==
  LifecycleInv /\ NothingWaitsForNobody /\ [Next]_vars => NothingWaitsForNobody'
  <1> SUFFICES ASSUME LifecycleInv, NothingWaitsForNobody, [Next]_vars, ~ Crashes
               PROVE  NothingWaitsForNobody'
    BY DEF NothingWaitsForNobody
  <1>1. ASSUME NEW r \in Requests, RequestStep(r) PROVE NothingWaitsForNobody'
    BY <1>1, HandlersLeaveNothing
  <1>2. ASSUME NEW w \in Workers, WorkerStep(w) PROVE NothingWaitsForNobody'
    <2>1. CASE Raise(w)
      <3>1. \A v \in Workers \ {w} : workers'[v] = workers[v]
        BY <2>1 DEF Raise, LifecycleInv
      <3>2. workers'[w].pc = "failing" /\ workers'[w].task = workers[w].task
        BY <2>1 DEF Raise, LifecycleInv, WorkerState
      <3>3. UNCHANGED <<storeVars, requests, jobs>>
        BY <2>1 DEF Raise
      <3>4. \A task \in Tasks : /\ HasJob(task) => HasJob(task)'
                                /\ HasWorker(task) => HasWorker(task)'
        BY <3>1, <3>2, <3>3 DEF HasJob, HasWorker
      <3> QED
        BY <3>3, <3>4, NothingNewWaits DEF storeVars
    <2> QED
      BY <1>2, <2>1, TakersLeaveNothing, EndersLeaveNothing DEF WorkerStep, Crash
  <1>3. CASE UNCHANGED vars
    BY <1>3, NothingNewWaits DEF vars, storeVars, HasJob, HasWorker
  <1> QED
    BY <1>1, <1>2, <1>3 DEF Next

\* Unless a process dies, whatever the rows show in progress is in somebody's hands:
\* with the fairness of FairSpec, what GenerationEnds and PublicationEnds rest on.
THEOREM NothingIsLeftWaiting == Spec => []NothingWaitsForNobody
  <1>1. Init => NothingWaitsForNobody
    BY DEF Init, StoreInit, NothingWaitsForNobody
  <1> QED
    BY Invariance, NextLeavesNothing, <1>1, PTL DEF Spec

================================================================================
