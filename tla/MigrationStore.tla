---------------------------- MODULE MigrationStore -----------------------------
(***************************************************************************)
(* The PostgreSQL rows of one migration and the transactions that change   *)
(* them: migration_generation/store.py, github_publishing/store.py and     *)
(* apply_developer_action of control_plane/store.py.  Each action is one   *)
(* committed transaction of those files; each CanX is the condition under  *)
(* which the transaction commits a change rather than raising (and rolling *)
(* back).  Who calls them, in which order and with what failures is the    *)
(* business of the modules that extend this one.                           *)
(*                                                                         *)
(* An attempt is identified by its number: numbers are MAX(number) + 1     *)
(* under the migration's row lock and UNIQUE (migration, number).          *)
(***************************************************************************)
EXTENDS Naturals, LifecycleTables

CONSTANTS
  Keys,        \* idempotency keys clients send
  MaxAttempts  \* bound: attempts one migration may have

ASSUME MaxAttemptsAssumption == MaxAttempts \in Nat \ {0}

\* Git objects built for attempt a (its tree, its commit) are written as a: they are
\* content-addressed and the commit's date is the evidence's completed_at.
VARIABLES
  migration,    \* the row of migrations, with the JSON copy in its data column
  attempts,     \* migration_attempts, by number; "absent" where there is no row
  latest,       \* MAX(number) over migration_attempts
  publication,  \* the row of pull_request_records
  records       \* idempotency_records of this migration's operations

storeVars == <<migration, attempts, latest, publication, records>>

AttemptIds == 1 .. MaxAttempts
AttemptIdOrNull == 0 .. MaxAttempts  \* 0 is NULL

Recommendations == {"none", "approve", "revise", "snooze", "decline"}
DeveloperActions == {"approve", "revise", "snooze", "decline"}
Operations == DeveloperActions \cup {"generate", "publish"}
PublicationStates == {"absent", "queued", "publishing", "completed", "failed"}

\* The table an attempt follows, with the INSERT that brings it into being.
AttemptTable ==
  [s \in AttemptStates \cup {"absent"} |->
     IF s = "absent" THEN {"created"} ELSE ATTEMPT_TRANSITIONS[s]]

--------------------------------------------------------------------------------
(* Rows *)

MigrationRow ==
  [status : MigrationStates, version : Nat, current : AttemptIdOrNull,
   data : [status : MigrationStates, version : Nat, current : AttemptIdOrNull]]

AttemptRow ==
  [status : AttemptStates \cup {"absent"}, version : Nat,
   previous : AttemptIdOrNull, key : Keys \cup {"none"},
   instructions : BOOLEAN, recommendation : Recommendations, passed : BOOLEAN]

PublicationRow ==
  [status : PublicationStates, attempt : AttemptIdOrNull,
   tree : AttemptIdOrNull, commit : AttemptIdOrNull, head : AttemptIdOrNull,
   pull : Nat, check : BOOLEAN]

IdempotencyRecord ==
  [op : Operations, key : Keys, expected : Nat, version : Nat,
   attempt : AttemptIdOrNull]

NoAttemptRow ==
  [status |-> "absent", version |-> 0, previous |-> 0, key |-> "none",
   instructions |-> FALSE, recommendation |-> "none", passed |-> FALSE]

\* A new row, before any transition: version has DEFAULT 1.
CreatedAttempt(key, previous, instructions) ==
  [status |-> "created", version |-> 1, previous |-> previous, key |-> key,
   instructions |-> instructions, recommendation |-> "none", passed |-> FALSE]

\* Mutation: one version per transaction, however many edges it takes.
MovedMigration_Once(row, status, hops) ==
  [status |-> status, version |-> row.version + 1, current |-> row.current,
   data |-> [status |-> status, version |-> row.version + 1,
             current |-> row.data.current]]

\* Both places a migration's lifecycle is stored: the columns and the data JSON.
MovedMigration(row, status, hops) ==
  [status |-> status, version |-> row.version + hops, current |-> row.current,
   data |-> [status |-> status, version |-> row.version + hops,
             current |-> row.data.current]]

\* Mutation: one version per transaction, however many edges it takes.
MovedAttempt_Once(row, status, hops) ==
  [row EXCEPT !.status = status, !.version = row.version + 1]

MovedAttempt(row, status, hops) ==
  [row EXCEPT !.status = status, !.version = row.version + hops]

StoreInit ==
  /\ migration =
       [status |-> "queued", version |-> 1, current |-> 0,
        data |-> [status |-> "queued", version |-> 1, current |-> 0]]
  /\ attempts = [a \in AttemptIds |-> NoAttemptRow]
  /\ latest = 0
  /\ publication =
       [status |-> "absent", attempt |-> 0, tree |-> 0, commit |-> 0,
        head |-> 0, pull |-> 0, check |-> FALSE]
  /\ records = {}

--------------------------------------------------------------------------------
(* Requests: queue_attempt, apply_developer_action, queue_publication *)

Recorded(op, key) == \E r \in records : r.op = op /\ r.key = key

\* UNIQUE (workspace, migration, idempotency_key) of migration_attempts.
KeyOfAnAttempt(key) == \E a \in AttemptIds : attempts[a].key = key

\* Room under the bound, and no UNIQUE violation, for one more attempt.
CanInsertAttempt(key) ==
  /\ latest < MaxAttempts
  /\ ~ KeyOfAnAttempt(key)

Response(op, key, expected, version, attempt) ==
  [op |-> op, key |-> key, expected |-> expected, version |-> version,
   attempt |-> attempt]

\* A revision waiting to be generated: queue_attempt takes it over.
RevisionWaiting ==
  /\ migration.current # 0
  /\ attempts[migration.current].status = "created"

QueuedNumber == IF RevisionWaiting THEN migration.current ELSE latest + 1

\* Mutation: the answer names the attempt the migration had before.
QueuedAttempt_Before(key, expected) ==
  Response("generate", key, expected, migration.version + 1, migration.current)

\* What queue_attempt answers, now and to every retry.
QueuedAttempt(key, expected) ==
  Response("generate", key, expected, migration.version + 1, QueuedNumber)

CanQueueAttempt(key, expected) ==
  /\ ValidTransition(MIGRATION_TRANSITIONS, migration.status, "planning",
                     migration.version, expected)
  /\ RevisionWaiting \/ CanInsertAttempt(key)
  /\ ~ Recorded("generate", key)  \* primary key of idempotency_records

QueueAttempt(key, expected) ==
  LET number == QueuedNumber
      row    == IF RevisionWaiting THEN attempts[migration.current]
                ELSE CreatedAttempt(key, migration.current, FALSE)
      moved  == MovedMigration(migration, "planning", 1)
  IN  /\ CanQueueAttempt(key, expected)
      /\ attempts' = [attempts EXCEPT ![number] = MovedAttempt(row, "planning", 1)]
      /\ latest' = IF RevisionWaiting THEN latest ELSE latest + 1
      /\ migration' =
           [moved EXCEPT !.current = number,
                         !.data = [moved.data EXCEPT !.current = number]]
      /\ records' = records \cup {QueuedAttempt(key, expected)}
      /\ UNCHANGED publication

ACTION_STATES ==
  [approve |-> "approved", revise |-> "needs_revision",
   snooze |-> "snoozed", decline |-> "declined"]

CanApplyDeveloperAction(action, key, expected) ==
  /\ ValidTransition(MIGRATION_TRANSITIONS, migration.status,
                     ACTION_STATES[action], migration.version, expected)
  /\ action = "revise" => CanInsertAttempt(key)
  /\ ~ Recorded(action, key)

\* Mutation: a revision does not become the current attempt.
CurrentAfter_Unmoved(action) == migration.data.current

\* The new current attempt is written from the data JSON, not from the column.
CurrentAfter(action) ==
  IF action = "revise" THEN latest + 1 ELSE migration.data.current

ApplyDeveloperAction(action, key, expected) ==
  LET number == CurrentAfter(action)
      moved  == MovedMigration(migration, ACTION_STATES[action], 1)
  IN  /\ CanApplyDeveloperAction(action, key, expected)
      /\ IF action = "revise"
         THEN /\ attempts' =
                   [attempts EXCEPT ![latest + 1] = CreatedAttempt(key, latest, TRUE)]
              /\ latest' = latest + 1
         ELSE UNCHANGED <<attempts, latest>>
      /\ migration' =
           [moved EXCEPT !.current = number,
                         !.data = [moved.data EXCEPT !.current = number]]
      /\ records' = records \cup
           {Response(action, key, expected, migration.version + 1, number)}
      /\ UNCHANGED publication

\* The evidence a publication needs: completed, recommended, every check passed.
Publishable(a) ==
  /\ attempts[a].status = "completed"
  /\ attempts[a].recommendation = "approve"
  /\ attempts[a].passed

\* Mutation: the evidence of the current attempt is not looked at.
CanQueuePublication_AnyAttempt(key, expected) ==
  /\ ValidTransition(MIGRATION_TRANSITIONS, migration.status, "pr_opening",
                     migration.version, expected)
  /\ migration.current # 0
  /\ ~ Recorded("publish", key)

CanQueuePublication(key, expected) ==
  /\ ValidTransition(MIGRATION_TRANSITIONS, migration.status, "pr_opening",
                     migration.version, expected)
  /\ migration.current # 0
  /\ Publishable(migration.current)
  /\ ~ Recorded("publish", key)

\* Mutation: a new attempt inherits the objects of the old one.
Kept_Always(a, value, cleared) == value

\* A checkpoint survives only a new publication of the same attempt.
Kept(a, value, cleared) == IF publication.attempt = a THEN value ELSE cleared

\* One record per migration.  A new attempt clears the objects built for the
\* old one and keeps the branch, the remote head and the pull request.
QueuePublication(key, expected) ==
  LET a == migration.current
  IN  /\ CanQueuePublication(key, expected)
      /\ publication' =
           [publication EXCEPT
              !.status = "queued", !.attempt = a,
              !.tree = Kept(a, publication.tree, 0),
              !.commit = Kept(a, publication.commit, 0),
              !.check = Kept(a, publication.check, FALSE)]
      /\ migration' = MovedMigration(migration, "pr_opening", 1)
      /\ records' = records \cup
           {Response("publish", key, expected, migration.version + 1, a)}
      /\ UNCHANGED <<attempts, latest>>

--------------------------------------------------------------------------------
(* The generation worker: claim_attempt, complete_attempt, fail_attempt *)

CanClaimAttempt(a) ==
  /\ attempts[a].status = "planning"
  /\ migration.current = a
  /\ migration.status = "planning"

ClaimAttempt(a) ==
  /\ CanClaimAttempt(a)
  /\ attempts' = [attempts EXCEPT ![a] = MovedAttempt(attempts[a], "generating", 1)]
  /\ migration' = MovedMigration(migration, "generating", 1)
  /\ UNCHANGED <<latest, publication, records>>

\* Where each recommendation leaves the migration.
ResultState ==
  [approve |-> "ready", revise |-> "needs_revision",
   snooze |-> "blocked", decline |-> "blocked"]

\* Mutation: an approval does not need its checks.
CanCompleteAttempt_Unchecked(a, recommendation, passed) ==
  /\ migration.current = a
  /\ attempts[a].status = "generating"
  /\ migration.status = "generating"

\* Mutation: the migration may belong to another attempt by now.
CanCompleteAttempt_Superseded(a, recommendation, passed) ==
  /\ recommendation = "approve" => passed
  /\ attempts[a].status = "generating"
  /\ migration.status = "generating"

CanCompleteAttempt(a, recommendation, passed) ==
  /\ recommendation = "approve" => passed
  /\ migration.current = a
  /\ attempts[a].status = "generating"
  /\ migration.status = "generating"

\* generating -> verifying -> reviewing -> completed in one transaction, and the
\* migration generating -> verifying -> result.
CompleteAttempt(a, recommendation, passed) ==
  /\ CanCompleteAttempt(a, recommendation, passed)
  /\ attempts' =
       [attempts EXCEPT ![a] =
          [MovedAttempt(attempts[a], "completed", 3) EXCEPT
             !.recommendation = recommendation, !.passed = passed]]
  /\ migration' = MovedMigration(migration, ResultState[recommendation], 2)
  /\ UNCHANGED <<latest, publication, records>>

\* Mutation: the attempt fails and the migration is left where it was.
FailAttempt_LeavesMigration(a) ==
  IF attempts[a].status # "absent" /\ "failed" \in AttemptTable[attempts[a].status]
  THEN /\ attempts' = [attempts EXCEPT ![a] = MovedAttempt(attempts[a], "failed", 1)]
       /\ UNCHANGED <<migration, latest, publication, records>>
  ELSE UNCHANGED storeVars

\* The attempt fails if its state allows it, whoever asks; the migration follows
\* only if this attempt is still its current one.
FailAttempt(a) ==
  IF attempts[a].status # "absent" /\ "failed" \in AttemptTable[attempts[a].status]
  THEN /\ attempts' = [attempts EXCEPT ![a] = MovedAttempt(attempts[a], "failed", 1)]
       /\ migration' =
            IF /\ migration.current = a
               /\ "blocked" \in MIGRATION_TRANSITIONS[migration.status]
            THEN MovedMigration(migration, "blocked", 1)
            ELSE migration
       /\ UNCHANGED <<latest, publication, records>>
  ELSE UNCHANGED storeVars

--------------------------------------------------------------------------------
(* The publication worker: claim_publication, DatabasePublicationProgress, *)
(* complete_publication, fail_publication                                  *)

\* Mutation: a publication in progress is claimed again.
CanClaimPublication_Twice == publication.status \in {"queued", "publishing"}

CanClaimPublication == publication.status = "queued"

ClaimPublication ==
  /\ CanClaimPublication
  /\ publication' = [publication EXCEPT !.status = "publishing"]
  /\ UNCHANGED <<migration, attempts, latest, records>>

\* _record: one checkpoint field, written only while the record is publishing.
\* Zero rows updated is not an error.
RecordProgress(row) ==
  /\ publication' = IF publication.status = "publishing" THEN row ELSE publication
  /\ UNCHANGED <<migration, attempts, latest, records>>

CanCompletePublication(a) ==
  /\ publication.status = "publishing"
  /\ migration.current = a
  /\ migration.status = "pr_opening"

\* The result overwrites every checkpoint: head is the commit just published.
CompletePublication(a, tree, commit, pull) ==
  /\ CanCompletePublication(a)
  /\ publication' =
       [publication EXCEPT !.status = "completed", !.tree = tree, !.commit = commit,
                           !.head = commit, !.pull = pull, !.check = TRUE]
  /\ migration' = MovedMigration(migration, "pr_opened", 1)
  /\ UNCHANGED <<attempts, latest, records>>

\* Mutation: only a publication nobody claimed yet can fail.
FailPublication_OnlyQueued ==
  IF publication.status = "queued"
  THEN /\ publication' = [publication EXCEPT !.status = "failed"]
       /\ migration' = MovedMigration(migration, "blocked", 1)
       /\ UNCHANGED <<attempts, latest, records>>
  ELSE UNCHANGED storeVars

\* Mutation: the publication fails and the migration is left opening.
FailPublication_LeavesMigration ==
  IF publication.status = "publishing"
  THEN /\ publication' = [publication EXCEPT !.status = "failed"]
       /\ UNCHANGED <<migration, attempts, latest, records>>
  ELSE UNCHANGED storeVars

FailPublication ==
  IF publication.status = "publishing"
  THEN /\ publication' = [publication EXCEPT !.status = "failed"]
       /\ migration' = IF migration.status = "pr_opening"
                       THEN MovedMigration(migration, "blocked", 1)
                       ELSE migration
       /\ UNCHANGED <<attempts, latest, records>>
  ELSE UNCHANGED storeVars

--------------------------------------------------------------------------------
(* Properties of the rows, whoever runs the transactions *)

\* The rows have their types, attempts are numbered 1..latest with no gap, and
\* numbering follows the MAX(number) + 1 of queue_attempt and revise.
StoreTypeOK ==
  /\ migration \in MigrationRow
  /\ attempts \in [AttemptIds -> AttemptRow]
  /\ latest \in AttemptIdOrNull
  /\ publication \in PublicationRow
  /\ records \subseteq IdempotencyRecord
  /\ \A a \in AttemptIds : attempts[a].status = "absent" <=> a > latest

\* What the state of the current attempt must be for each state of the migration.
Explains(row) ==
  LET s == migration.status
  IN  /\ s \in {"planning", "generating"} => row.status = s
      /\ s \in {"ready", "pr_opening", "pr_opened", "approved", "snoozed", "declined"}
            => /\ row.status = "completed"
               /\ row.recommendation = "approve"
               /\ row.passed
      /\ s = "needs_revision"
            => \/ row.status = "created"
               \/ row.status = "completed" /\ row.recommendation = "revise"
      /\ s = "blocked"
            => \/ row.status = "failed"
               \/ row.status = "completed" /\ row.recommendation \in {"snooze", "decline"}
               \/ /\ row.status = "completed"
                  /\ publication.status = "failed"
                  /\ publication.attempt = migration.current
      /\ s \notin {"queued", "verifying", "completed"}

\* A migration and its current attempt always tell the same story, although they
\* are two rows and seven transactions move them: in particular nothing is ever
\* ready, opening, opened, approved, snoozed or declined on an attempt that did
\* not complete with an approve recommendation and every check passed.
CurrentAttemptExplainsMigration ==
  IF migration.current = 0
  THEN migration.status = "queued"
  ELSE Explains(attempts[migration.current])

\* The current attempt is the newest one, and each attempt's previous_attempt_id
\* is the attempt before it, whether queue_attempt (current_attempt_id) or
\* apply_developer_action (newest number) wrote it.  Only the current attempt may be
\* waiting or planning: a superseded one can still be generating (revise is legal
\* from "generating"), but never more.
AttemptsFormAChain ==
  /\ migration.current = latest
  /\ \A a \in AttemptIds : a <= latest => attempts[a].previous = a - 1
  /\ \A a \in AttemptIds :
       a < latest => attempts[a].status \in {"generating", "completed", "failed"}

\* The status, version and current attempt that the API serves from the data JSON
\* are those of the columns that the transactions check.
DataMirrorsColumns ==
  migration.data = [status |-> migration.status, version |-> migration.version,
                    current |-> migration.current]

\* The publication is in progress exactly while the migration is opening its pull
\* request, and for the migration's current attempt; an opened or approved
\* migration has a completed publication of its current attempt.
PublicationFollowsMigration ==
  /\ publication.status \in {"queued", "publishing"} <=> migration.status = "pr_opening"
  /\ migration.status \in {"pr_opening", "pr_opened", "approved"}
        => publication.attempt = migration.current
  /\ migration.status \in {"pr_opened", "approved"} => publication.status = "completed"

\* Optimistic concurrency: a decision is accepted only against the version its
\* client read, two accepted decisions never read the same version, and an
\* idempotency key is accepted once per operation.
DecisionsAreSerialized ==
  /\ \A r \in records : r.version = r.expected + 1 /\ r.version <= migration.version
  /\ \A r, s \in records :
       r # s => r.version # s.version /\ <<r.op, r.key>> # <<s.op, s.key>>

\* A job is deferred after its transaction has committed and is lost when the
\* process dies in between.  While a generation or a publication waits, the answer
\* that a retry of its request gets is there, is the answer of the migration's last
\* move, and names the attempt that the job deferred again can claim.
LostJobsCanBeDeferredAgain ==
  /\ migration.status = "planning" =>
       \E r \in records : /\ r.op = "generate" /\ r.version = migration.version
                          /\ r.attempt # 0 /\ CanClaimAttempt(r.attempt)
  /\ publication.status = "queued" =>
       \E r \in records : /\ r.op = "publish" /\ r.version = migration.version
                          /\ r.attempt = publication.attempt /\ Publishable(r.attempt)

\* The inductive invariant.
StoreInv ==
  /\ StoreTypeOK
  /\ CurrentAttemptExplainsMigration
  /\ AttemptsFormAChain
  /\ DataMirrorsColumns
  /\ PublicationFollowsMigration
  /\ DecisionsAreSerialized

--------------------------------------------------------------------------------
(* What the rows promise whoever moves them *)

\* The two entities implement the versioned lifecycle their tables publish.
MigrationEntity ==
  INSTANCE VersionedLifecycle WITH
    Transitions <- MIGRATION_TRANSITIONS, Start <- "queued", StartVersion <- 1,
    status <- migration.status, version <- migration.version

AttemptEntity(a) ==
  INSTANCE VersionedLifecycle WITH
    Transitions <- AttemptTable, Start <- "absent", StartVersion <- 0,
    status <- attempts[a].status, version <- attempts[a].version

\* Every transaction, the ones that jump over states included, follows the edges
\* of MIGRATION_TRANSITIONS and adds one to the version for each of them, so a
\* client's expected_version identifies one moment of the migration's life.
MigrationIsVersioned == MigrationEntity!Spec

\* The same for every attempt and ATTEMPT_TRANSITIONS.
AttemptsAreVersioned ==
  /\ \A a \in AttemptIds : AttemptEntity(a)!Init
  /\ [][\A a \in AttemptIds : [AttemptEntity(a)!Next]_(attempts[a])]_storeVars

================================================================================
