------------------------- MODULE MigrationStoreProofs --------------------------
(***************************************************************************)
(* StoreInv is preserved by every transaction of MigrationStore, for every *)
(* number of attempts and every set of idempotency keys.                   *)
(***************************************************************************)
EXTENDS MigrationStore, TLAPS

\* The states with an edge into a given state of a migration.
LEMMA MigrationEdges ==
  ASSUME NEW s \in MigrationStates
  PROVE  /\ "planning" \in MIGRATION_TRANSITIONS[s]
              <=> s \in {"queued", "needs_revision", "blocked"}
         /\ "pr_opening" \in MIGRATION_TRANSITIONS[s] <=> s \in {"ready", "blocked"}
         /\ "needs_revision" \in MIGRATION_TRANSITIONS[s]
              <=> s \in {"generating", "verifying", "ready", "pr_opened"}
         /\ "snoozed" \in MIGRATION_TRANSITIONS[s] <=> s \in {"ready", "pr_opened"}
         /\ "declined" \in MIGRATION_TRANSITIONS[s] <=> s \in {"ready", "pr_opened"}
         /\ "approved" \in MIGRATION_TRANSITIONS[s] <=> s = "pr_opened"
         /\ "blocked" \in MIGRATION_TRANSITIONS[s]
              <=> s \in {"planning", "generating", "verifying", "pr_opening"}
  BY DEF MigrationStates, MIGRATION_TRANSITIONS

\* The attempts that can fail.
LEMMA AttemptEdges ==
  ASSUME NEW s \in AttemptStates
  PROVE  "failed" \in AttemptTable[s]
           <=> s \in {"planning", "generating", "verifying", "reviewing"}
  BY DEF AttemptStates, AttemptTable, ATTEMPT_TRANSITIONS

\* The initial rows.
LEMMA StoreInitInv == StoreInit => StoreInv
  <1> SUFFICES ASSUME StoreInit PROVE StoreInv
    OBVIOUS
  <1> USE MaxAttemptsAssumption DEF StoreInit, AttemptIds, AttemptIdOrNull
  <1>1. StoreTypeOK
    BY DEF StoreTypeOK, MigrationRow, MigrationStates, AttemptRow, AttemptStates,
           NoAttemptRow, Recommendations, PublicationRow, PublicationStates
  <1>2. CurrentAttemptExplainsMigration
    BY DEF CurrentAttemptExplainsMigration
  <1>3. AttemptsFormAChain
    BY DEF AttemptsFormAChain
  <1>4. DataMirrorsColumns
    BY DEF DataMirrorsColumns
  <1>5. PublicationFollowsMigration
    BY DEF PublicationFollowsMigration
  <1>6. DecisionsAreSerialized
    BY DEF DecisionsAreSerialized
  <1> QED
    BY <1>1, <1>2, <1>3, <1>4, <1>5, <1>6 DEF StoreInv

--------------------------------------------------------------------------------
(* Requests *)

\* A decision keeps the records serialized: its version is the migration's next one.
LEMMA RecordedDecision ==
  ASSUME StoreTypeOK, DecisionsAreSerialized,
         NEW op \in Operations, NEW key \in Keys, NEW n \in AttemptIdOrNull,
         ~ Recorded(op, key), migration'.version = migration.version + 1,
         records' = records \cup
           {Response(op, key, migration.version, migration.version + 1, n)}
  PROVE  records' \subseteq IdempotencyRecord /\ DecisionsAreSerialized'
  <1>1. migration.version \in Nat
    BY DEF StoreTypeOK, MigrationRow
  <1>2. records' \subseteq IdempotencyRecord
    BY <1>1 DEF StoreTypeOK, IdempotencyRecord, Response
  <1>3. DecisionsAreSerialized'
    BY <1>1 DEF DecisionsAreSerialized, Response, Recorded, StoreTypeOK,
                IdempotencyRecord
  <1> QED
    BY <1>2, <1>3

\* Room for one more attempt, or the waiting revision: the number queue_attempt uses
\* is that of the newest attempt after the transaction.
LEMMA QueueAttemptInv ==
  ASSUME NEW key \in Keys, NEW expected \in Nat, StoreInv, QueueAttempt(key, expected)
  PROVE  StoreInv'
  <1> DEFINE n == QueuedNumber
             old == attempts[migration.current]
             row == IF RevisionWaiting THEN old
                    ELSE CreatedAttempt(key, migration.current, FALSE)
  <1> USE MaxAttemptsAssumption DEF StoreInv, AttemptIds, AttemptIdOrNull
  <1>1. /\ StoreTypeOK /\ migration.current = latest
        /\ migration.status \in {"queued", "needs_revision", "blocked"}
        /\ migration.version = expected
        /\ ~ Recorded("generate", key)
    <2>1. migration.status \in MigrationStates
      BY DEF StoreTypeOK, MigrationRow
    <2> QED
      BY <2>1, MigrationEdges DEF QueueAttempt, CanQueueAttempt, ValidTransition,
                                  AttemptsFormAChain
  <1>2. /\ n \in AttemptIds /\ n = latest'
        /\ ~ RevisionWaiting => n = latest + 1 /\ latest' = latest + 1
        /\ RevisionWaiting => n = latest /\ latest' = latest /\ old.status = "created"
    BY <1>1 DEF QueueAttempt, CanQueueAttempt, CanInsertAttempt, QueuedNumber,
                RevisionWaiting, StoreTypeOK
  <1>3. /\ row \in AttemptRow
        /\ row.previous = IF RevisionWaiting THEN old.previous ELSE latest
    BY <1>1, <1>2 DEF StoreTypeOK, AttemptRow, CreatedAttempt, AttemptStates,
                      Recommendations, RevisionWaiting
  <1>4. /\ attempts' = [attempts EXCEPT ![n] = MovedAttempt(row, "planning", 1)]
        /\ migration' = [MovedMigration(migration, "planning", 1) EXCEPT
                            !.current = n,
                            !.data = [MovedMigration(migration, "planning", 1).data
                                        EXCEPT !.current = n]]
        /\ publication' = publication
        /\ records' = records \cup
             {Response("generate", key, expected, migration.version + 1, n)}
    BY DEF QueueAttempt, QueuedAttempt
  <1> HIDE DEF n, row
  <1>5. /\ attempts' \in [AttemptIds -> AttemptRow]
        /\ attempts'[n].status = "planning"
        /\ attempts'[n].previous = row.previous
        /\ \A a \in AttemptIds \ {n} : attempts'[a] = attempts[a]
    <2>1. /\ MovedAttempt(row, "planning", 1) \in AttemptRow
          /\ MovedAttempt(row, "planning", 1).status = "planning"
          /\ MovedAttempt(row, "planning", 1).previous = row.previous
      <3>1. row.version + 1 \in Nat /\ "planning" \in AttemptStates
        BY <1>3 DEF AttemptRow, AttemptStates
      <3> QED
        BY <1>3, <3>1 DEF MovedAttempt, AttemptRow
    <2> QED
      BY <1>1, <1>2, <1>4, <2>1 DEF StoreTypeOK
  <1>6. /\ migration' \in MigrationRow
        /\ migration'.status = "planning" /\ migration'.current = n
        /\ migration'.version = migration.version + 1
        /\ migration'.data = [status |-> "planning", version |-> migration.version + 1,
                              current |-> n]
    <2>1. migration' = [status |-> "planning", version |-> migration.version + 1,
                        current |-> n,
                        data |-> [status |-> "planning",
                                  version |-> migration.version + 1, current |-> n]]
      BY <1>4 DEF MovedMigration
    <2>2. migration.version + 1 \in Nat /\ "planning" \in MigrationStates
      BY <1>1 DEF StoreTypeOK, MigrationRow, MigrationStates
    <2> QED
      BY <1>2, <2>1, <2>2 DEF MigrationRow
  <1>7. StoreTypeOK'
    <2>1. \A a \in AttemptIds : attempts'[a].status = "absent" <=> a > latest'
      BY <1>1, <1>2, <1>5 DEF StoreTypeOK
    <2>2. records' \subseteq IdempotencyRecord
      BY <1>1, <1>2, <1>4 DEF StoreTypeOK, IdempotencyRecord, Response, Operations,
                              MigrationRow
    <2> QED
      BY <1>1, <1>2, <1>4, <1>5, <1>6, <2>1, <2>2 DEF StoreTypeOK
  <1>8. CurrentAttemptExplainsMigration'
    BY <1>2, <1>5, <1>6 DEF CurrentAttemptExplainsMigration, Explains
  <1>9. AttemptsFormAChain'
    <2>1. \A a \in AttemptIds : a <= latest' => attempts'[a].previous = a - 1
      BY <1>1, <1>2, <1>3, <1>5 DEF AttemptsFormAChain, StoreTypeOK
    <2>2. ~ RevisionWaiting /\ latest # 0 =>
             attempts[latest].status \in {"completed", "failed"}
      BY <1>1 DEF CurrentAttemptExplainsMigration, Explains, RevisionWaiting
    <2>3. \A a \in AttemptIds :
             a < latest' => attempts'[a].status \in {"generating", "completed", "failed"}
      BY <1>1, <1>2, <1>5, <2>2 DEF AttemptsFormAChain, StoreTypeOK
    <2> QED
      BY <1>2, <1>6, <2>1, <2>3 DEF AttemptsFormAChain
  <1>10. DataMirrorsColumns'
    BY <1>6 DEF DataMirrorsColumns
  <1>11. PublicationFollowsMigration'
    BY <1>1, <1>4, <1>6 DEF PublicationFollowsMigration
  <1>12. DecisionsAreSerialized'
    BY <1>1, <1>4, <1>6 DEF DecisionsAreSerialized, Response, Recorded, StoreTypeOK,
                            IdempotencyRecord, MigrationRow
  <1> QED
    BY <1>7, <1>8, <1>9, <1>10, <1>11, <1>12

\* A revision is numbered after the newest attempt and waits for its generation; the
\* other actions leave the attempts alone.
LEMMA ApplyDeveloperActionInv ==
  ASSUME NEW action \in DeveloperActions, NEW key \in Keys, NEW expected \in Nat,
         StoreInv, ApplyDeveloperAction(action, key, expected)
  PROVE  StoreInv'
  <1> DEFINE t == ACTION_STATES[action]
             n == CurrentAfter(action)
  <1> USE MaxAttemptsAssumption DEF StoreInv, AttemptIds, AttemptIdOrNull
  <1>1. /\ StoreTypeOK /\ migration \in MigrationRow /\ migration.status \in MigrationStates
        /\ migration.current = latest /\ migration.data.current = latest
        /\ migration.version = expected
        /\ ~ Recorded(action, key)
    BY DEF ApplyDeveloperAction, CanApplyDeveloperAction, ValidTransition,
           AttemptsFormAChain, DataMirrorsColumns, StoreTypeOK, MigrationRow
  <1>2. /\ t \in MigrationStates /\ t \in MIGRATION_TRANSITIONS[migration.status]
        /\ t \in {"approved", "needs_revision", "snoozed", "declined"}
        /\ t = "needs_revision" <=> action = "revise"
    BY DEF ApplyDeveloperAction, CanApplyDeveloperAction, ValidTransition,
           DeveloperActions, ACTION_STATES, MigrationStates
  <1>3. /\ migration.status \in {"generating", "ready", "pr_opened"}
        /\ migration.status = "generating" => action = "revise"
        /\ t = "approved" => migration.status = "pr_opened"
        /\ latest # 0
    BY <1>1, <1>2, MigrationEdges DEF CurrentAttemptExplainsMigration, Explains
  <1>4. /\ n \in AttemptIds /\ n = latest'
        /\ action = "revise" => n = latest + 1
        /\ action # "revise" => n = latest
    <2>1. CASE action = "revise"
      <3>1. latest < MaxAttempts /\ latest' = latest + 1
        BY <2>1 DEF ApplyDeveloperAction, CanApplyDeveloperAction, CanInsertAttempt
      <3>2. n = latest + 1
        BY <2>1 DEF CurrentAfter
      <3>3. latest \in 0 .. MaxAttempts
        BY <1>1 DEF StoreTypeOK
      <3> HIDE DEF n
      <3> QED
        BY <2>1, <3>1, <3>2, <3>3
    <2>2. CASE action # "revise"
      <3>1. n = latest /\ latest' = latest
        BY <1>1, <2>2 DEF CurrentAfter, ApplyDeveloperAction
      <3>2. latest \in 0 .. MaxAttempts
        BY <1>1 DEF StoreTypeOK
      <3> HIDE DEF n
      <3> QED
        BY <1>3, <2>2, <3>1, <3>2
    <2> QED
      BY <2>1, <2>2
  <1>a. /\ action = "revise" => attempts' = [attempts EXCEPT
                                   ![latest + 1] = CreatedAttempt(key, latest, TRUE)]
        /\ action # "revise" => attempts' = attempts
    BY DEF ApplyDeveloperAction
  <1>5. /\ migration' = [MovedMigration(migration, t, 1) EXCEPT
                            !.current = n,
                            !.data = [MovedMigration(migration, t, 1).data
                                        EXCEPT !.current = n]]
        /\ publication' = publication
        /\ records' = records \cup
             {Response(action, key, expected, migration.version + 1, n)}
    BY DEF ApplyDeveloperAction
  <1> HIDE DEF t, n
  <1>6. /\ migration' \in MigrationRow
        /\ migration'.status = t /\ migration'.current = n
        /\ migration'.version = migration.version + 1
        /\ migration'.data = [status |-> t, version |-> migration.version + 1,
                              current |-> n]
    <2>1. migration' = [status |-> t, version |-> migration.version + 1, current |-> n,
                        data |-> [status |-> t, version |-> migration.version + 1,
                                  current |-> n]]
      BY <1>5 DEF MovedMigration
    <2>2. migration.version + 1 \in Nat
      BY <1>1 DEF MigrationRow
    <2> QED
      BY <1>2, <1>4, <2>1, <2>2 DEF MigrationRow
  <1>7. /\ attempts' \in [AttemptIds -> AttemptRow]
        /\ \A a \in AttemptIds : a <= latest => attempts'[a] = attempts[a]
        /\ \A a \in AttemptIds : a > latest' => attempts'[a] = attempts[a]
        /\ action = "revise" => /\ attempts'[n].status = "created"
                                /\ attempts'[n].previous = latest
    <2>1. CreatedAttempt(key, latest, TRUE) \in AttemptRow
      BY <1>1 DEF CreatedAttempt, AttemptRow, AttemptStates, Recommendations, StoreTypeOK
    <2>2. /\ CreatedAttempt(key, latest, TRUE).status = "created"
          /\ CreatedAttempt(key, latest, TRUE).previous = latest
      BY DEF CreatedAttempt
    <2>3. CASE action = "revise"
      <3>1. attempts \in [AttemptIds -> AttemptRow] /\ latest \in Nat
        BY <1>1 DEF StoreTypeOK
      <3>2. attempts' = [attempts EXCEPT ![latest + 1] = CreatedAttempt(key, latest, TRUE)]
        BY <1>a, <2>3
      <3>3. n = latest + 1 /\ latest' = latest + 1 /\ n \in AttemptIds
        BY <1>4, <2>3
      <3>4. latest + 1 \in AttemptIds
        BY <3>3
      <3>5. /\ attempts' \in [AttemptIds -> AttemptRow]
            /\ \A a \in AttemptIds \ {latest + 1} : attempts'[a] = attempts[a]
            /\ attempts'[latest + 1].status = "created"
            /\ attempts'[latest + 1].previous = latest
        BY <3>1, <3>2, <3>4, <2>1, <2>2
      <3> QED
        BY <3>1, <3>3, <3>5
    <2>4. CASE action # "revise"
      BY <1>1, <1>4, <1>a, <2>4 DEF StoreTypeOK
    <2> QED
      BY <2>3, <2>4
  <1>8. records' \subseteq IdempotencyRecord /\ DecisionsAreSerialized'
    BY <1>1, <1>4, <1>5, <1>6, RecordedDecision DEF Operations
  <1>9. StoreTypeOK'
    <2>1. \A a \in AttemptIds : attempts'[a].status = "absent" <=> a > latest'
      BY <1>1, <1>4, <1>7 DEF StoreTypeOK
    <2> QED
      BY <1>1, <1>4, <1>5, <1>6, <1>7, <1>8, <2>1 DEF StoreTypeOK
  <1>10. CurrentAttemptExplainsMigration'
    <2>1. CASE action = "revise"
      BY <2>1, <1>2, <1>4, <1>6, <1>7 DEF CurrentAttemptExplainsMigration, Explains
    <2>2. CASE action # "revise"
      BY <2>2, <1>1, <1>2, <1>3, <1>4, <1>6, <1>a
         DEF CurrentAttemptExplainsMigration, Explains
    <2> QED
      BY <2>1, <2>2
  <1>11. AttemptsFormAChain'
    <2>1. attempts[latest].status \in {"generating", "completed"}
      BY <1>1, <1>3 DEF CurrentAttemptExplainsMigration, Explains
    <2>2. \A a \in AttemptIds : a <= latest' => attempts'[a].previous = a - 1
      <3>1. ASSUME NEW a \in AttemptIds, a <= latest', a > latest
            PROVE  action = "revise" /\ a = n
        BY <1>1, <1>4, <3>1 DEF StoreTypeOK
      <3> QED
        <4>1. ASSUME NEW a \in AttemptIds, a <= latest', a <= latest
              PROVE  attempts'[a].previous = a - 1
          BY <1>1, <1>7, <4>1 DEF AttemptsFormAChain
        <4>2. ASSUME NEW a \in AttemptIds, a <= latest', a > latest
              PROVE  attempts'[a].previous = a - 1
          <5>1. a = n /\ action = "revise" /\ n = latest + 1 /\ latest \in Nat
            BY <1>1, <1>4, <3>1, <4>2 DEF StoreTypeOK
          <5> QED
            BY <1>7, <5>1
        <4> QED
          BY <1>1, <4>1, <4>2 DEF StoreTypeOK
    <2>3. \A a \in AttemptIds :
             a < latest' => attempts'[a].status \in {"generating", "completed", "failed"}
      <3>1. ASSUME NEW a \in AttemptIds, a < latest' PROVE a <= latest
        BY <1>1, <1>4, <3>1 DEF StoreTypeOK
      <3> QED
        BY <1>1, <1>7, <2>1, <3>1 DEF AttemptsFormAChain, StoreTypeOK
    <2> QED
      BY <1>4, <1>6, <2>2, <2>3 DEF AttemptsFormAChain
  <1>12. DataMirrorsColumns'
    BY <1>6 DEF DataMirrorsColumns
  <1>13. PublicationFollowsMigration'
    BY <1>1, <1>2, <1>3, <1>4, <1>5, <1>6 DEF PublicationFollowsMigration
  <1> QED
    BY <1>8, <1>9, <1>10, <1>11, <1>12, <1>13

\* Publishing leaves the attempts alone; the record is of the current attempt.
LEMMA QueuePublicationInv ==
  ASSUME NEW key \in Keys, NEW expected \in Nat,
         StoreInv, QueuePublication(key, expected)
  PROVE  StoreInv'
  <1> USE MaxAttemptsAssumption DEF StoreInv, AttemptIds, AttemptIdOrNull
  <1>1. /\ StoreTypeOK /\ migration \in MigrationRow /\ migration.status \in MigrationStates
        /\ migration.version = expected /\ migration.current # 0
        /\ migration.current = latest
        /\ Publishable(latest) /\ ~ Recorded("publish", key)
    BY DEF QueuePublication, CanQueuePublication, ValidTransition, StoreTypeOK,
           MigrationRow, AttemptsFormAChain
  <1>2. migration.status \in {"ready", "blocked"}
    BY <1>1, MigrationEdges DEF QueuePublication, CanQueuePublication, ValidTransition
  <1>3. /\ migration' = MovedMigration(migration, "pr_opening", 1)
        /\ attempts' = attempts /\ latest' = latest
        /\ records' = records \cup
             {Response("publish", key, expected, migration.version + 1, latest)}
    BY <1>1 DEF QueuePublication
  <1>4. publication' \in PublicationRow
    <2> DEFINE tree == Kept(latest, publication.tree, 0)
               commit == Kept(latest, publication.commit, 0)
               check == Kept(latest, publication.check, FALSE)
    <2>1. publication' = [publication EXCEPT !.status = "queued", !.attempt = latest,
                            !.tree = tree, !.commit = commit, !.check = check]
      BY <1>1 DEF QueuePublication
    <2>2. publication \in PublicationRow /\ latest \in 0 .. MaxAttempts
      BY <1>1 DEF StoreTypeOK
    <2>3. tree \in 0 .. MaxAttempts /\ commit \in 0 .. MaxAttempts
      BY <2>2 DEF Kept, PublicationRow
    <2>4. check \in BOOLEAN
      BY <2>2 DEF Kept, PublicationRow
    <2> HIDE DEF tree, commit, check
    <2> QED
      BY <2>1, <2>2, <2>3, <2>4 DEF PublicationRow, PublicationStates
  <1>5. publication'.status = "queued" /\ publication'.attempt = latest
    BY <1>1 DEF QueuePublication, StoreTypeOK, PublicationRow
  <1>6. /\ migration' \in MigrationRow
        /\ migration'.status = "pr_opening" /\ migration'.current = latest
        /\ migration'.version = migration.version + 1
        /\ DataMirrorsColumns'
    <2>1. migration' = [status |-> "pr_opening", version |-> migration.version + 1,
                        current |-> latest,
                        data |-> [status |-> "pr_opening",
                                  version |-> migration.version + 1, current |-> latest]]
      BY <1>1, <1>3 DEF MovedMigration, DataMirrorsColumns
    <2>2. migration.version + 1 \in Nat /\ "pr_opening" \in MigrationStates
      BY <1>1 DEF MigrationRow, MigrationStates
    <2>3. latest \in 0 .. MaxAttempts
      BY <1>1 DEF StoreTypeOK
    <2>4. migration' \in MigrationRow
      BY <2>1, <2>2, <2>3 DEF MigrationRow
    <2>5. DataMirrorsColumns'
      BY <2>1 DEF DataMirrorsColumns
    <2> QED
      BY <2>1, <2>4, <2>5
  <1>7. records' \subseteq IdempotencyRecord /\ DecisionsAreSerialized'
    BY <1>1, <1>3, <1>6, RecordedDecision DEF Operations, StoreTypeOK
  <1>8. StoreTypeOK'
    BY <1>1, <1>3, <1>4, <1>6, <1>7 DEF StoreTypeOK
  <1>9. CurrentAttemptExplainsMigration'
    BY <1>1, <1>3, <1>6 DEF CurrentAttemptExplainsMigration, Explains, Publishable
  <1>10. AttemptsFormAChain'
    BY <1>3, <1>6 DEF AttemptsFormAChain
  <1>11. PublicationFollowsMigration'
    BY <1>5, <1>6 DEF PublicationFollowsMigration
  <1> QED
    BY <1>6, <1>7, <1>8, <1>9, <1>10, <1>11

--------------------------------------------------------------------------------
(* Workers *)

\* A transaction of a worker records no decision and never lowers the version.
LEMMA RecordsKept ==
  ASSUME StoreTypeOK, DecisionsAreSerialized, records' = records,
         migration'.version \in Nat, migration'.version >= migration.version
  PROVE  records' \subseteq IdempotencyRecord /\ DecisionsAreSerialized'
  BY DEF StoreTypeOK, DecisionsAreSerialized, MigrationRow, IdempotencyRecord

\* A worker moves the migration without changing its current attempt.
LEMMA MigrationMoved ==
  ASSUME migration \in MigrationRow, DataMirrorsColumns,
         NEW s \in MigrationStates, NEW hops \in Nat,
         migration' = MovedMigration(migration, s, hops)
  PROVE  /\ migration' \in MigrationRow /\ DataMirrorsColumns'
         /\ migration'.status = s /\ migration'.current = migration.current
         /\ migration'.version = migration.version + hops
  <1>1. migration' = [status |-> s, version |-> migration.version + hops,
                      current |-> migration.current,
                      data |-> [status |-> s, version |-> migration.version + hops,
                                current |-> migration.current]]
    BY DEF MovedMigration, DataMirrorsColumns
  <1>2. migration.version + hops \in Nat
    BY DEF MigrationRow
  <1>3. migration' \in MigrationRow
    BY <1>1, <1>2 DEF MigrationRow
  <1>4. DataMirrorsColumns'
    BY <1>1 DEF DataMirrorsColumns
  <1> QED
    BY <1>1, <1>3, <1>4

\* One attempt moves; its number, predecessor and instructions stay.
LEMMA AttemptMoved ==
  ASSUME attempts \in [AttemptIds -> AttemptRow], NEW a \in AttemptIds,
         NEW s \in AttemptStates, NEW hops \in Nat,
         attempts' = [attempts EXCEPT ![a] = MovedAttempt(attempts[a], s, hops)]
  PROVE  /\ attempts' \in [AttemptIds -> AttemptRow]
         /\ attempts'[a].status = s /\ attempts'[a].previous = attempts[a].previous
         /\ \A b \in AttemptIds \ {a} : attempts'[b] = attempts[b]
  <1>1. attempts[a] \in AttemptRow
    OBVIOUS
  <1>2. attempts[a].version + hops \in Nat
    BY <1>1 DEF AttemptRow
  <1>3. /\ MovedAttempt(attempts[a], s, hops) \in AttemptRow
        /\ MovedAttempt(attempts[a], s, hops).status = s
        /\ MovedAttempt(attempts[a], s, hops).previous = attempts[a].previous
    BY <1>1, <1>2 DEF MovedAttempt, AttemptRow
  <1> QED
    BY <1>3

\* The parts of StoreInv that a worker's move of attempt a leaves to be shown.
LEMMA WorkerMove ==
  ASSUME StoreInv, NEW a \in AttemptIds, NEW s \in AttemptStates \ {"absent"},
         a <= latest, attempts' \in [AttemptIds -> AttemptRow],
         attempts'[a].status = s, attempts'[a].previous = attempts[a].previous,
         \A b \in AttemptIds \ {a} : attempts'[b] = attempts[b],
         a < latest => s \in {"generating", "completed", "failed"},
         latest' = latest, records' = records,
         publication' = publication,
         migration' \in MigrationRow, migration'.current = migration.current,
         migration'.version >= migration.version
  PROVE  StoreTypeOK' /\ AttemptsFormAChain' /\ DecisionsAreSerialized'
  <1> USE DEF StoreInv
  <1>1. records' \subseteq IdempotencyRecord /\ DecisionsAreSerialized'
    BY RecordsKept DEF MigrationRow
  <1>2. \A b \in AttemptIds : attempts'[b].status = "absent" <=> b > latest'
    BY DEF StoreTypeOK, AttemptIds, AttemptIdOrNull, AttemptStates
  <1>3. StoreTypeOK'
    BY <1>1, <1>2 DEF StoreTypeOK
  <1>4. AttemptsFormAChain'
    BY DEF AttemptsFormAChain
  <1> QED
    BY <1>1, <1>3, <1>4

\* claim_attempt moves the current attempt and its migration together, from planning
\* to generating.
LEMMA ClaimAttemptInv ==
  ASSUME NEW a \in AttemptIds, StoreInv, ClaimAttempt(a)
  PROVE  StoreInv'
  <1> USE DEF StoreInv
  <1>1. /\ StoreTypeOK /\ migration \in MigrationRow
        /\ attempts \in [AttemptIds -> AttemptRow]
        /\ migration.current = a /\ latest = a /\ migration.status = "planning"
    BY DEF StoreTypeOK, ClaimAttempt, CanClaimAttempt, AttemptsFormAChain
  <1>2. /\ attempts' = [attempts EXCEPT ![a] = MovedAttempt(attempts[a], "generating", 1)]
        /\ migration' = MovedMigration(migration, "generating", 1)
        /\ latest' = latest /\ publication' = publication /\ records' = records
    BY DEF ClaimAttempt
  <1>3. /\ attempts' \in [AttemptIds -> AttemptRow]
        /\ attempts'[a].status = "generating"
        /\ attempts'[a].previous = attempts[a].previous
        /\ \A b \in AttemptIds \ {a} : attempts'[b] = attempts[b]
    BY <1>1, <1>2, AttemptMoved DEF AttemptStates
  <1>4. /\ migration' \in MigrationRow /\ DataMirrorsColumns'
        /\ migration'.status = "generating" /\ migration'.current = a
        /\ migration'.version = migration.version + 1
    BY <1>1, <1>2, MigrationMoved DEF MigrationStates
  <1>5. migration'.version >= migration.version
    BY <1>1, <1>4 DEF MigrationRow
  <1>6. StoreTypeOK' /\ AttemptsFormAChain' /\ DecisionsAreSerialized'
    BY <1>1, <1>2, <1>3, <1>4, <1>5, WorkerMove DEF AttemptStates, AttemptIds
  <1>7. CurrentAttemptExplainsMigration'
    BY <1>3, <1>4 DEF CurrentAttemptExplainsMigration, Explains, AttemptIds
  <1>8. PublicationFollowsMigration'
    BY <1>1, <1>2, <1>4 DEF PublicationFollowsMigration
  <1> QED
    BY <1>4, <1>6, <1>7, <1>8

\* complete_attempt leaves the migration in a state its recommendation explains.
LEMMA CompleteAttemptInv ==
  ASSUME NEW a \in AttemptIds, NEW recommendation \in DeveloperActions,
         NEW passed \in BOOLEAN, StoreInv, CompleteAttempt(a, recommendation, passed)
  PROVE  StoreInv'
  <1> USE DEF StoreInv
  <1>1. /\ StoreTypeOK /\ migration \in MigrationRow
        /\ attempts \in [AttemptIds -> AttemptRow]
        /\ migration.current = a /\ latest = a /\ migration.status = "generating"
        /\ recommendation = "approve" => passed
    BY DEF StoreTypeOK, CompleteAttempt, CanCompleteAttempt, AttemptsFormAChain
  <1>2. /\ migration' = MovedMigration(migration, ResultState[recommendation], 2)
        /\ latest' = latest /\ publication' = publication /\ records' = records
    BY DEF CompleteAttempt
  <1>3. /\ attempts' \in [AttemptIds -> AttemptRow]
        /\ attempts'[a].status = "completed"
        /\ attempts'[a].previous = attempts[a].previous
        /\ attempts'[a].recommendation = recommendation
        /\ attempts'[a].passed = passed
        /\ \A b \in AttemptIds \ {a} : attempts'[b] = attempts[b]
    <2> DEFINE row == [attempts[a] EXCEPT
                         !.status = "completed", !.version = attempts[a].version + 3,
                         !.recommendation = recommendation, !.passed = passed]
    <2>1. attempts' = [attempts EXCEPT ![a] = row]
      BY <1>1 DEF CompleteAttempt, MovedAttempt
    <2>2. attempts[a] \in AttemptRow /\ attempts[a].version + 3 \in Nat
      BY <1>1 DEF AttemptRow
    <2>3. /\ row \in AttemptRow /\ row.status = "completed"
          /\ row.previous = attempts[a].previous
          /\ row.recommendation = recommendation /\ row.passed = passed
      BY <2>2 DEF AttemptRow, AttemptStates, Recommendations, DeveloperActions
    <2> HIDE DEF row
    <2> QED
      BY <1>1, <2>1, <2>3
  <1>4. /\ migration' \in MigrationRow /\ DataMirrorsColumns'
        /\ migration'.status = ResultState[recommendation] /\ migration'.current = a
        /\ migration'.version = migration.version + 2
    <2>1. ResultState[recommendation] \in MigrationStates
      BY DEF ResultState, DeveloperActions, MigrationStates
    <2> QED
      BY <1>1, <1>2, <2>1, MigrationMoved
  <1>5. migration'.version >= migration.version
    BY <1>1, <1>4 DEF MigrationRow
  <1>6. StoreTypeOK' /\ AttemptsFormAChain' /\ DecisionsAreSerialized'
    BY <1>1, <1>2, <1>3, <1>4, <1>5, WorkerMove DEF AttemptStates, AttemptIds
  <1>7. CurrentAttemptExplainsMigration'
    BY <1>1, <1>3, <1>4
       DEF CurrentAttemptExplainsMigration, Explains, ResultState, DeveloperActions,
           AttemptIds
  <1>8. PublicationFollowsMigration'
    BY <1>1, <1>2, <1>4
       DEF PublicationFollowsMigration, ResultState, DeveloperActions
  <1> QED
    BY <1>4, <1>6, <1>7, <1>8

\* The attempt that fails is generating or planning; if it is the current one the
\* migration is in that same state and is blocked with it.
LEMMA FailAttemptInv ==
  ASSUME NEW a \in AttemptIds, StoreInv, FailAttempt(a)
  PROVE  StoreInv'
  <1> USE DEF StoreInv
  <1> DEFINE fails == /\ attempts[a].status # "absent"
                      /\ "failed" \in AttemptTable[attempts[a].status]
             blocks == /\ migration.current = a
                       /\ "blocked" \in MIGRATION_TRANSITIONS[migration.status]
  <1>1. /\ StoreTypeOK /\ migration \in MigrationRow /\ migration.status \in MigrationStates
        /\ attempts \in [AttemptIds -> AttemptRow] /\ latest \in AttemptIdOrNull
        /\ migration.current = latest
    BY DEF StoreTypeOK, MigrationRow, AttemptsFormAChain
  <1>2. CASE ~ fails
    <2>1. UNCHANGED storeVars
      BY <1>2 DEF FailAttempt
    <2> QED
      BY <2>1 DEF storeVars, StoreTypeOK, CurrentAttemptExplainsMigration, Explains,
                  AttemptsFormAChain, DataMirrorsColumns, PublicationFollowsMigration,
                  DecisionsAreSerialized
  <1>3. CASE fails
    <2>1. /\ attempts' = [attempts EXCEPT ![a] = MovedAttempt(attempts[a], "failed", 1)]
          /\ migration' = IF blocks THEN MovedMigration(migration, "blocked", 1)
                          ELSE migration
          /\ latest' = latest /\ publication' = publication /\ records' = records
      BY <1>3 DEF FailAttempt
    <2>2. /\ attempts' \in [AttemptIds -> AttemptRow]
          /\ attempts'[a].status = "failed"
          /\ attempts'[a].previous = attempts[a].previous
          /\ \A b \in AttemptIds \ {a} : attempts'[b] = attempts[b]
      BY <1>1, <2>1, AttemptMoved DEF AttemptStates
    <2>3. attempts[a].status \in {"planning", "generating", "verifying", "reviewing"}
      BY <1>1, <1>3, AttemptEdges DEF AttemptRow
    <2>4. a <= latest
      BY <1>1, <2>3 DEF StoreTypeOK, AttemptIds, AttemptIdOrNull
    <2>5. migration.current = a => migration.status \in {"planning", "generating"}
      <3> SUFFICES ASSUME migration.current = a
                   PROVE  migration.status \in {"planning", "generating"}
        OBVIOUS
      <3>1. Explains(attempts[a])
        BY DEF CurrentAttemptExplainsMigration, AttemptIds
      <3> QED
        BY <1>1, <2>3, <3>1 DEF Explains, MigrationStates
    <2>6. CASE blocks
      <3>1. /\ migration' \in MigrationRow /\ DataMirrorsColumns'
            /\ migration'.status = "blocked" /\ migration'.current = a
            /\ migration'.version = migration.version + 1
        BY <1>1, <2>1, <2>6, MigrationMoved DEF MigrationStates
      <3>2. migration'.version >= migration.version
        BY <1>1, <3>1 DEF MigrationRow
      <3>3. StoreTypeOK' /\ AttemptsFormAChain' /\ DecisionsAreSerialized'
        BY <2>1, <2>2, <2>4, <2>6, <3>1, <3>2, WorkerMove DEF AttemptStates
      <3>4. CurrentAttemptExplainsMigration'
        BY <2>2, <3>1 DEF CurrentAttemptExplainsMigration, Explains, AttemptIds
      <3>5. PublicationFollowsMigration'
        BY <2>1, <2>5, <2>6, <3>1 DEF PublicationFollowsMigration
      <3> QED
        BY <3>1, <3>3, <3>4, <3>5
    <2>7. CASE ~ blocks
      <3>1. migration' = migration
        BY <2>1, <2>7
      <3>2. migration.current # a
        BY <1>1, <2>5, <2>7, MigrationEdges
      <3>3. migration'.version >= migration.version
        BY <1>1, <3>1 DEF MigrationRow
      <3>4. StoreTypeOK' /\ AttemptsFormAChain' /\ DecisionsAreSerialized'
        BY <1>1, <2>1, <2>2, <2>4, <3>1, <3>3, WorkerMove DEF AttemptStates
      <3>5. CurrentAttemptExplainsMigration'
        BY <1>1, <2>1, <2>2, <3>1, <3>2
           DEF CurrentAttemptExplainsMigration, Explains, AttemptIds, AttemptIdOrNull
      <3>6. DataMirrorsColumns' /\ PublicationFollowsMigration'
        BY <2>1, <3>1 DEF DataMirrorsColumns, PublicationFollowsMigration
      <3> QED
        BY <3>4, <3>5, <3>6
    <2> QED
      BY <2>6, <2>7
  <1> QED
    BY <1>2, <1>3

\* claim_publication moves the record only; it stays in progress.
LEMMA ClaimPublicationInv ==
  ASSUME StoreInv, ClaimPublication
  PROVE  StoreInv'
  <1> USE DEF StoreInv
  <1>1. /\ publication.status = "queued" /\ publication \in PublicationRow
        /\ publication' = [publication EXCEPT !.status = "publishing"]
        /\ UNCHANGED <<migration, attempts, latest, records>>
    BY DEF ClaimPublication, CanClaimPublication, StoreTypeOK
  <1>2. /\ publication' \in PublicationRow /\ publication'.status = "publishing"
        /\ publication'.attempt = publication.attempt
    BY <1>1 DEF PublicationRow, PublicationStates
  <1>3. migration.status = "pr_opening"
    BY <1>1 DEF PublicationFollowsMigration
  <1>4. StoreTypeOK' /\ AttemptsFormAChain' /\ DataMirrorsColumns'
    BY <1>1, <1>2 DEF StoreTypeOK, AttemptsFormAChain, DataMirrorsColumns
  <1>5. DecisionsAreSerialized'
    BY <1>1 DEF DecisionsAreSerialized
  <1>6. CurrentAttemptExplainsMigration'
    BY <1>1, <1>3 DEF CurrentAttemptExplainsMigration, Explains
  <1>7. PublicationFollowsMigration'
    BY <1>1, <1>2, <1>3 DEF PublicationFollowsMigration
  <1> QED
    BY <1>4, <1>5, <1>6, <1>7

\* Any publication that ends: the record leaves "publishing" and the migration leaves
\* "pr_opening", opened if the record is completed and blocked if it failed.
LEMMA PublicationEndsInv ==
  ASSUME StoreInv, migration.status = "pr_opening",
         publication' \in PublicationRow, publication'.attempt = publication.attempt,
         UNCHANGED <<attempts, latest, records>>,
         \/ /\ publication'.status = "completed"
            /\ migration' = MovedMigration(migration, "pr_opened", 1)
         \/ /\ publication'.status = "failed"
            /\ migration' = MovedMigration(migration, "blocked", 1)
  PROVE  StoreInv'
  <1> USE DEF StoreInv
  <1>1. migration \in MigrationRow
    BY DEF StoreTypeOK
  <1>2. /\ migration' \in MigrationRow /\ DataMirrorsColumns'
        /\ migration'.current = migration.current
        /\ migration'.version = migration.version + 1
        /\ \/ publication'.status = "completed" /\ migration'.status = "pr_opened"
           \/ publication'.status = "failed" /\ migration'.status = "blocked"
    <2>1. CASE publication'.status = "completed"
      BY <1>1, <2>1, MigrationMoved DEF MigrationStates
    <2>2. CASE publication'.status = "failed"
      BY <1>1, <2>2, MigrationMoved DEF MigrationStates
    <2> QED
      BY <2>1, <2>2
  <1>3. records' \subseteq IdempotencyRecord /\ DecisionsAreSerialized'
    <2>1. migration'.version \in Nat /\ migration'.version >= migration.version
      BY <1>1, <1>2 DEF MigrationRow
    <2> QED
      BY <2>1, RecordsKept
  <1>4. StoreTypeOK' /\ AttemptsFormAChain'
    BY <1>2, <1>3 DEF StoreTypeOK, AttemptsFormAChain
  <1>5. publication.attempt = migration.current
    BY DEF PublicationFollowsMigration
  <1>6. CurrentAttemptExplainsMigration'
    BY <1>2, <1>5 DEF CurrentAttemptExplainsMigration, Explains
  <1>7. PublicationFollowsMigration'
    BY <1>2, <1>5 DEF PublicationFollowsMigration
  <1> QED
    BY <1>2, <1>3, <1>4, <1>6, <1>7

\* complete_publication ends the publication and opens the migration's pull request.
LEMMA CompletePublicationInv ==
  ASSUME NEW a \in AttemptIdOrNull, NEW tree \in AttemptIdOrNull,
         NEW commit \in AttemptIdOrNull, NEW pull \in Nat,
         StoreInv, CompletePublication(a, tree, commit, pull)
  PROVE  StoreInv'
  <1>1. publication \in PublicationRow /\ migration.status = "pr_opening"
    BY DEF StoreInv, StoreTypeOK, CompletePublication, CanCompletePublication
  <1>2. publication' = [publication EXCEPT
                          !.status = "completed", !.tree = tree, !.commit = commit,
                          !.head = commit, !.pull = pull, !.check = TRUE]
    BY DEF CompletePublication
  <1>3. /\ publication' \in PublicationRow /\ publication'.status = "completed"
        /\ publication'.attempt = publication.attempt
    BY <1>1, <1>2 DEF PublicationRow, PublicationStates
  <1> QED
    BY <1>1, <1>3, PublicationEndsInv DEF CompletePublication

\* fail_publication ends the publication and blocks the migration, or does nothing.
LEMMA FailPublicationInv ==
  ASSUME StoreInv, FailPublication
  PROVE  StoreInv'
  <1>1. CASE publication.status = "publishing"
    <2>1. publication \in PublicationRow /\ migration.status = "pr_opening"
      BY <1>1 DEF StoreInv, StoreTypeOK, PublicationFollowsMigration
    <2>2. /\ publication' = [publication EXCEPT !.status = "failed"]
          /\ migration' = MovedMigration(migration, "blocked", 1)
          /\ UNCHANGED <<attempts, latest, records>>
      BY <1>1, <2>1 DEF FailPublication
    <2>3. /\ publication' \in PublicationRow /\ publication'.status = "failed"
          /\ publication'.attempt = publication.attempt
      BY <2>1, <2>2 DEF PublicationRow, PublicationStates
    <2> QED
      BY <2>1, <2>2, <2>3, PublicationEndsInv
  <1>2. CASE publication.status # "publishing"
    <2>1. UNCHANGED storeVars
      BY <1>2 DEF FailPublication
    <2> QED
      BY <2>1 DEF storeVars, StoreInv, StoreTypeOK, CurrentAttemptExplainsMigration,
                  Explains, AttemptsFormAChain, DataMirrorsColumns,
                  PublicationFollowsMigration, DecisionsAreSerialized
  <1> QED
    BY <1>1, <1>2

\* A step that leaves the rows alone.
LEMMA StoreUnchangedInv ==
  ASSUME StoreInv, UNCHANGED storeVars
  PROVE  StoreInv'
  BY DEF storeVars, StoreInv, StoreTypeOK, CurrentAttemptExplainsMigration, Explains,
         AttemptsFormAChain, DataMirrorsColumns, PublicationFollowsMigration,
         DecisionsAreSerialized

\* record_progress writes one checkpoint of a publication in progress, whatever it is.
LEMMA RecordProgressInv ==
  ASSUME NEW row \in PublicationRow, row.status = publication.status,
         row.attempt = publication.attempt, StoreInv, RecordProgress(row)
  PROVE  StoreInv'
  <1> USE DEF StoreInv
  <1>1. /\ publication' \in PublicationRow
        /\ publication'.status = publication.status
        /\ publication'.attempt = publication.attempt
        /\ UNCHANGED <<migration, attempts, latest, records>>
    BY DEF RecordProgress, StoreTypeOK
  <1>2. StoreTypeOK' /\ AttemptsFormAChain' /\ DataMirrorsColumns' /\ DecisionsAreSerialized'
    BY <1>1 DEF StoreTypeOK, AttemptsFormAChain, DataMirrorsColumns,
                DecisionsAreSerialized
  <1>3. CurrentAttemptExplainsMigration'
    BY <1>1 DEF CurrentAttemptExplainsMigration, Explains
  <1>4. PublicationFollowsMigration'
    BY <1>1 DEF PublicationFollowsMigration
  <1> QED
    BY <1>2, <1>3, <1>4

--------------------------------------------------------------------------------
(* What no transaction takes back *)

\* Decisions stay recorded, a completed attempt is final, and the migration never
\* changes without a new version.
RowsAdvance ==
  /\ records \subseteq records'
  /\ \A a \in AttemptIds : attempts[a].status = "completed" => attempts'[a] = attempts[a]
  /\ migration' = migration \/ migration'.version > migration.version

\* A step that leaves the rows alone, or only moves the publication.
LEMMA RowsStand ==
  ASSUME UNCHANGED <<migration, attempts, records>>
  PROVE  RowsAdvance
  BY DEF RowsAdvance

\* The attempt that queue_attempt moves is new or waits for its generation.
LEMMA QueueAttemptAdvances ==
  ASSUME StoreInv, NEW key \in Keys, NEW expected \in Nat, QueueAttempt(key, expected)
  PROVE  RowsAdvance
  <1>1. /\ migration.version \in Nat /\ latest \in AttemptIdOrNull
        /\ attempts \in [AttemptIds -> AttemptRow]
    BY DEF StoreInv, StoreTypeOK, MigrationRow
  <1>2. \A a \in AttemptIds : attempts[a].status = "completed" => a # QueuedNumber
    BY <1>1 DEF StoreInv, StoreTypeOK, QueuedNumber, RevisionWaiting, AttemptIds,
                AttemptIdOrNull
  <1>3. migration'.version = migration.version + 1
    BY DEF QueueAttempt, MovedMigration
  <1>4. /\ records \subseteq records'
        /\ \A a \in AttemptIds \ {QueuedNumber} : attempts'[a] = attempts[a]
    BY <1>1 DEF QueueAttempt
  <1> QED
    BY <1>1, <1>2, <1>3, <1>4 DEF RowsAdvance

\* A revision is a new attempt; the other actions touch none.
LEMMA ApplyDeveloperActionAdvances ==
  ASSUME StoreInv, NEW action \in DeveloperActions, NEW key \in Keys,
         NEW expected \in Nat, ApplyDeveloperAction(action, key, expected)
  PROVE  /\ RowsAdvance /\ publication' = publication
         /\ migration.version = expected /\ migration'.version > migration.version
         /\ migration'.status = ACTION_STATES[action]
  <1>1. /\ migration.version \in Nat /\ latest \in AttemptIdOrNull
        /\ attempts \in [AttemptIds -> AttemptRow]
    BY DEF StoreInv, StoreTypeOK, MigrationRow
  <1>2. \A a \in AttemptIds : attempts[a].status = "completed" => a # latest + 1
    BY <1>1 DEF StoreInv, StoreTypeOK, AttemptIds, AttemptIdOrNull
  <1>3. /\ migration'.version = migration.version + 1
        /\ migration'.status = ACTION_STATES[action]
    BY DEF ApplyDeveloperAction, MovedMigration
  <1>4. /\ records \subseteq records' /\ publication' = publication
        /\ migration.version = expected
        /\ \A a \in AttemptIds \ {latest + 1} : attempts'[a] = attempts[a]
    BY <1>1 DEF ApplyDeveloperAction, CanApplyDeveloperAction, ValidTransition
  <1> QED
    BY <1>1, <1>2, <1>3, <1>4 DEF RowsAdvance

\* queue_publication moves the migration and records the attempt it publishes.
LEMMA QueuePublicationAdvances ==
  ASSUME StoreInv, NEW key \in Keys, NEW expected \in Nat,
         QueuePublication(key, expected)
  PROVE  /\ RowsAdvance /\ migration'.version > migration.version
         /\ \E r \in records' : r.op = "publish" /\ r.attempt = migration.current
  <1>1. migration.version \in Nat
    BY DEF StoreInv, StoreTypeOK, MigrationRow
  <1>2. /\ migration'.version = migration.version + 1 /\ attempts' = attempts
        /\ records' = records \cup
             {Response("publish", key, expected, migration.version + 1, migration.current)}
    BY DEF QueuePublication, MovedMigration
  <1> DEFINE r == Response("publish", key, expected, migration.version + 1,
                           migration.current)
  <1>3. r \in records' /\ r.op = "publish" /\ r.attempt = migration.current
    BY <1>2 DEF Response
  <1> HIDE DEF r
  <1>4. RowsAdvance /\ migration'.version > migration.version
    BY <1>1, <1>2 DEF RowsAdvance
  <1> QED
    BY <1>3, <1>4

\* The generation worker moves an attempt that is not completed yet.
LEMMA GenerationAdvances ==
  ASSUME StoreInv, NEW a \in AttemptIds,
         \/ ClaimAttempt(a)
         \/ \E recommendation \in DeveloperActions, passed \in BOOLEAN :
              CompleteAttempt(a, recommendation, passed)
         \/ FailAttempt(a)
  PROVE  RowsAdvance
  <1>1. /\ migration.version \in Nat /\ attempts \in [AttemptIds -> AttemptRow]
    BY DEF StoreInv, StoreTypeOK, MigrationRow
  <1>2. CASE ClaimAttempt(a)
    BY <1>1, <1>2 DEF ClaimAttempt, CanClaimAttempt, MovedMigration, RowsAdvance
  <1>3. CASE \E recommendation \in DeveloperActions, passed \in BOOLEAN :
               CompleteAttempt(a, recommendation, passed)
    <2>1. PICK recommendation \in DeveloperActions, passed \in BOOLEAN :
            CompleteAttempt(a, recommendation, passed)
      BY <1>3
    <2>2. /\ attempts[a].status = "generating" /\ records' = records
          /\ \A b \in AttemptIds \ {a} : attempts'[b] = attempts[b]
      BY <1>1, <2>1 DEF CompleteAttempt, CanCompleteAttempt
    <2>3. migration'.version = migration.version + 2
      BY <2>1 DEF CompleteAttempt, MovedMigration
    <2> QED
      BY <1>1, <2>2, <2>3 DEF RowsAdvance
  <1>4. CASE FailAttempt(a)
    <2>1. CASE UNCHANGED storeVars
      BY <2>1, RowsStand DEF storeVars
    <2>2. CASE ~ UNCHANGED storeVars
      <3>1. /\ attempts[a].status # "absent"
            /\ "failed" \in AttemptTable[attempts[a].status]
            /\ \A b \in AttemptIds \ {a} : attempts'[b] = attempts[b]
            /\ records' = records
            /\ migration' \in {migration, MovedMigration(migration, "blocked", 1)}
        BY <1>1, <1>4, <2>2 DEF FailAttempt
      <3>2. attempts[a].status # "completed"
        BY <1>1, <3>1, AttemptEdges DEF AttemptRow
      <3> QED
        BY <1>1, <3>1, <3>2 DEF RowsAdvance, MovedMigration
    <2> QED
      BY <2>1, <2>2
  <1> QED
    BY <1>2, <1>3, <1>4

\* Ending a publication moves the migration or leaves it.
LEMMA PublicationAdvances ==
  ASSUME StoreInv,
         \/ FailPublication
         \/ \E a, tree, commit \in AttemptIdOrNull, pull \in Nat :
              CompletePublication(a, tree, commit, pull)
  PROVE  RowsAdvance
  <1>1. migration.version \in Nat
    BY DEF StoreInv, StoreTypeOK, MigrationRow
  <1>2. CASE FailPublication
    BY <1>1, <1>2 DEF FailPublication, storeVars, MovedMigration, RowsAdvance
  <1>3. CASE \E a, tree, commit \in AttemptIdOrNull, pull \in Nat :
               CompletePublication(a, tree, commit, pull)
    <2>1. PICK a, tree, commit \in AttemptIdOrNull, pull \in Nat :
            CompletePublication(a, tree, commit, pull)
      BY <1>3
    <2>2. migration'.version = migration.version + 1 /\ attempts' = attempts
          /\ records' = records
      BY <2>1 DEF CompletePublication, MovedMigration
    <2> QED
      BY <1>1, <2>2 DEF RowsAdvance
  <1> QED
    BY <1>2, <1>3

--------------------------------------------------------------------------------
(* Every transaction is a step, or a stutter, of the versioned lifecycle *)

\* The version of an attempt counts from its insertion.
RowsCountFromZero ==
  \A a \in AttemptIds : attempts[a].status = "absent" => attempts[a].version = 0

MigrationMoves == migration' = migration \/ MigrationEntity!Next

AttemptsMove == \A a \in AttemptIds : attempts'[a] = attempts[a] \/ AttemptEntity(a)!Next

EntitiesMove == MigrationMoves /\ AttemptsMove /\ RowsCountFromZero'

\* A migration that takes one edge of its table takes a step of the lifecycle.
LEMMA MigrationTakesAnEdge ==
  ASSUME NEW status \in MIGRATION_TRANSITIONS[migration.status],
         migration'.status = status, migration'.version = migration.version + 1
  PROVE  MigrationMoves
  BY DEF MigrationMoves, MigrationEntity!Next, MigrationEntity!After

\* A transaction that leaves the attempts alone moves none of them.
LEMMA AttemptsStand ==
  ASSUME attempts' = attempts, RowsCountFromZero
  PROVE  AttemptsMove /\ RowsCountFromZero'
  BY DEF AttemptsMove, RowsCountFromZero

\* An attempt that takes one edge of its table, the only one to be written.
LEMMA AttemptTakesAnEdge ==
  ASSUME attempts \in [AttemptIds -> AttemptRow], RowsCountFromZero,
         NEW a \in AttemptIds, NEW status \in AttemptTable[attempts[a].status],
         attempts' = [attempts EXCEPT ![a] = MovedAttempt(attempts[a], status, 1)],
         status # "absent"
  PROVE  AttemptsMove /\ RowsCountFromZero'
  <1>1. /\ attempts'[a].status = status
        /\ attempts'[a].version = attempts[a].version + 1
        /\ \A b \in AttemptIds \ {a} : attempts'[b] = attempts[b]
    BY DEF MovedAttempt, AttemptRow
  <1>2. AttemptEntity(a)!Next
    BY <1>1 DEF AttemptEntity!Next, AttemptEntity!After
  <1> QED
    BY <1>1, <1>2 DEF AttemptsMove, RowsCountFromZero

\* queue_attempt: a waiting revision is planned, or a row is inserted and planned.
LEMMA QueueAttemptFollows ==
  ASSUME StoreInv, RowsCountFromZero, NEW key \in Keys, NEW expected \in Nat,
         QueueAttempt(key, expected)
  PROVE  EntitiesMove
  <1>1. /\ StoreTypeOK /\ migration.current = latest
        /\ migration \in MigrationRow /\ attempts \in [AttemptIds -> AttemptRow]
    BY DEF StoreInv, AttemptsFormAChain, StoreTypeOK
  <1>2. MigrationMoves
    <2>1. /\ "planning" \in MIGRATION_TRANSITIONS[migration.status]
          /\ migration'.status = "planning"
          /\ migration'.version = migration.version + 1
      BY <1>1 DEF QueueAttempt, CanQueueAttempt, ValidTransition, MovedMigration
    <2> QED
      BY <2>1, MigrationTakesAnEdge
  <1>3. CASE RevisionWaiting
    <2>1. /\ migration.current \in AttemptIds
          /\ attempts[migration.current].status = "created"
          /\ "planning" \in AttemptTable["created"]
      BY <1>1, <1>3 DEF RevisionWaiting, MigrationRow, AttemptIds, AttemptIdOrNull,
                        AttemptTable, ATTEMPT_TRANSITIONS, AttemptStates
    <2>2. attempts' = [attempts EXCEPT ![migration.current] =
                         MovedAttempt(attempts[migration.current], "planning", 1)]
      BY <1>3 DEF QueueAttempt, QueuedNumber
    <2>3. AttemptsMove /\ RowsCountFromZero'
      BY <1>1, <2>1, <2>2, AttemptTakesAnEdge
    <2> QED
      BY <1>2, <2>3 DEF EntitiesMove
  <1>4. CASE ~ RevisionWaiting
    <2>1. PICK n \in AttemptIds : /\ n = latest + 1 /\ attempts[n].status = "absent"
                                 /\ attempts[n].version = 0
      BY <1>1, <1>4, MaxAttemptsAssumption
         DEF StoreTypeOK, QueueAttempt, CanQueueAttempt, CanInsertAttempt, AttemptIds,
             AttemptIdOrNull, RowsCountFromZero
    <2>2. /\ attempts'[n].status = "planning" /\ attempts'[n].version = 2
          /\ \A b \in AttemptIds \ {n} : attempts'[b] = attempts[b]
      BY <1>1, <1>4, <2>1 DEF QueueAttempt, QueuedNumber, CreatedAttempt, MovedAttempt
    <2>3. "created" \in AttemptTable["absent"] /\ "planning" \in AttemptTable["created"]
      BY DEF AttemptTable, ATTEMPT_TRANSITIONS, AttemptStates
    <2>4. AttemptEntity(n)!Next
      BY <2>1, <2>2, <2>3 DEF AttemptEntity!Next, AttemptEntity!After
    <2>5. AttemptsMove /\ RowsCountFromZero'
      BY <2>2, <2>4 DEF AttemptsMove, RowsCountFromZero
    <2> QED
      BY <1>2, <2>5 DEF EntitiesMove
  <1> QED
    BY <1>3, <1>4

\* apply_developer_action: one edge of the migration, and a revision is inserted.
LEMMA ApplyDeveloperActionFollows ==
  ASSUME StoreInv, RowsCountFromZero, NEW action \in DeveloperActions, NEW key \in Keys,
         NEW expected \in Nat, ApplyDeveloperAction(action, key, expected)
  PROVE  EntitiesMove
  <1>1. StoreTypeOK /\ attempts \in [AttemptIds -> AttemptRow]
    BY DEF StoreInv, StoreTypeOK
  <1>2. MigrationMoves
    <2>1. /\ ACTION_STATES[action] \in MIGRATION_TRANSITIONS[migration.status]
          /\ migration'.status = ACTION_STATES[action]
          /\ migration'.version = migration.version + 1
      BY DEF ApplyDeveloperAction, CanApplyDeveloperAction, ValidTransition,
             MovedMigration
    <2> QED
      BY <2>1, MigrationTakesAnEdge
  <1>3. AttemptsMove /\ RowsCountFromZero'
    <2>1. CASE action = "revise"
      <3>1. PICK n \in AttemptIds : /\ n = latest + 1 /\ attempts[n].status = "absent"
                                   /\ attempts[n].version = 0
        BY <1>1, <2>1, MaxAttemptsAssumption
           DEF StoreTypeOK, ApplyDeveloperAction, CanApplyDeveloperAction,
               CanInsertAttempt, AttemptIds, AttemptIdOrNull, RowsCountFromZero
      <3>2. /\ attempts'[n].status = "created" /\ attempts'[n].version = 1
            /\ \A b \in AttemptIds \ {n} : attempts'[b] = attempts[b]
        BY <1>1, <2>1, <3>1 DEF ApplyDeveloperAction, CreatedAttempt
      <3>3. "created" \in AttemptTable["absent"]
        BY DEF AttemptTable
      <3>4. AttemptEntity(n)!Next
        BY <3>1, <3>2, <3>3 DEF AttemptEntity!Next, AttemptEntity!After
      <3> QED
        BY <3>2, <3>4 DEF AttemptsMove, RowsCountFromZero
    <2>2. CASE action # "revise"
      BY <2>2, AttemptsStand DEF ApplyDeveloperAction
    <2> QED
      BY <2>1, <2>2
  <1> QED
    BY <1>2, <1>3 DEF EntitiesMove

\* claim_attempt, complete_attempt and fail_attempt.
LEMMA GenerationFollows ==
  ASSUME StoreInv, RowsCountFromZero, NEW a \in AttemptIds,
         \/ ClaimAttempt(a)
         \/ \E recommendation \in DeveloperActions, passed \in BOOLEAN :
              CompleteAttempt(a, recommendation, passed)
         \/ FailAttempt(a)
  PROVE  EntitiesMove
  <1>1. attempts \in [AttemptIds -> AttemptRow] /\ migration \in MigrationRow
    BY DEF StoreInv, StoreTypeOK
  <1> USE DEF EntitiesMove
  <1>2. CASE ClaimAttempt(a)
    <2>1. /\ "generating" \in MIGRATION_TRANSITIONS[migration.status]
          /\ "generating" \in AttemptTable[attempts[a].status]
      BY <1>2 DEF ClaimAttempt, CanClaimAttempt, MIGRATION_TRANSITIONS, AttemptTable,
                  ATTEMPT_TRANSITIONS, AttemptStates
    <2>2. MigrationMoves
      BY <1>2, <2>1, MigrationTakesAnEdge DEF ClaimAttempt, MovedMigration
    <2>3. AttemptsMove /\ RowsCountFromZero'
      BY <1>1, <1>2, <2>1, AttemptTakesAnEdge DEF ClaimAttempt
    <2> QED
      BY <2>2, <2>3
  <1>3. ASSUME NEW recommendation \in DeveloperActions, NEW passed \in BOOLEAN,
               CompleteAttempt(a, recommendation, passed)
        PROVE  EntitiesMove
    <2>1. MigrationMoves
      <3>1. /\ migration.status = "generating"
            /\ migration'.status = ResultState[recommendation]
            /\ migration'.version = migration.version + 2
        BY <1>3 DEF CompleteAttempt, CanCompleteAttempt, MovedMigration
      <3>2. /\ "verifying" \in MIGRATION_TRANSITIONS["generating"]
            /\ ResultState[recommendation] \in MIGRATION_TRANSITIONS["verifying"]
        BY DEF MIGRATION_TRANSITIONS, ResultState, DeveloperActions
      <3> QED
        BY <3>1, <3>2 DEF MigrationMoves, MigrationEntity!Next, MigrationEntity!After
    <2>2. /\ attempts[a].status = "generating" /\ attempts'[a].status = "completed"
          /\ attempts'[a].version = attempts[a].version + 3
          /\ \A b \in AttemptIds \ {a} : attempts'[b] = attempts[b]
      BY <1>1, <1>3 DEF CompleteAttempt, CanCompleteAttempt, MovedAttempt, AttemptRow
    <2>3. /\ "verifying" \in AttemptTable["generating"]
          /\ "reviewing" \in AttemptTable["verifying"]
          /\ "completed" \in AttemptTable["reviewing"]
      BY DEF AttemptTable, ATTEMPT_TRANSITIONS, AttemptStates
    <2>4. AttemptEntity(a)!Next
      BY <2>2, <2>3 DEF AttemptEntity!Next, AttemptEntity!After
    <2> QED
      BY <2>1, <2>2, <2>4 DEF AttemptsMove, RowsCountFromZero
  <1>4. CASE FailAttempt(a)
    <2> DEFINE fails == /\ attempts[a].status # "absent"
                        /\ "failed" \in AttemptTable[attempts[a].status]
    <2>1. CASE fails
      <3>1. MigrationMoves
        <4>1. CASE migration' = migration
          BY <4>1 DEF MigrationMoves
        <4>2. CASE migration' # migration
          BY <1>4, <2>1, <4>2, MigrationTakesAnEdge DEF FailAttempt, MovedMigration
        <4> QED
          BY <4>1, <4>2
      <3>2. AttemptsMove /\ RowsCountFromZero'
        BY <1>1, <1>4, <2>1, AttemptTakesAnEdge DEF FailAttempt
      <3> QED
        BY <3>1, <3>2
    <2>2. CASE ~ fails
      BY <1>4, <2>2, AttemptsStand DEF FailAttempt, storeVars, MigrationMoves
    <2> QED
      BY <2>1, <2>2
  <1> QED
    BY <1>2, <1>3, <1>4

\* The transactions of a publication move the migration by one edge, and no attempt.
LEMMA PublicationFollows ==
  ASSUME StoreInv, RowsCountFromZero,
         \/ \E key \in Keys, expected \in Nat : QueuePublication(key, expected)
         \/ ClaimPublication
         \/ \E a, tree, commit \in AttemptIdOrNull, pull \in Nat :
              CompletePublication(a, tree, commit, pull)
         \/ FailPublication
  PROVE  EntitiesMove
  <1>1. AttemptsMove /\ RowsCountFromZero'
    BY AttemptsStand DEF QueuePublication, ClaimPublication, CompletePublication,
                         FailPublication, storeVars
  <1>2. /\ "pr_opened" \in MIGRATION_TRANSITIONS["pr_opening"]
        /\ "blocked" \in MIGRATION_TRANSITIONS["pr_opening"]
    BY DEF MIGRATION_TRANSITIONS
  <1>3. MigrationMoves
    <2>1. ASSUME NEW key \in Keys, NEW expected \in Nat, QueuePublication(key, expected)
          PROVE  MigrationMoves
      BY <2>1, MigrationTakesAnEdge
         DEF QueuePublication, CanQueuePublication, ValidTransition, MovedMigration
    <2>2. ASSUME NEW a \in AttemptIdOrNull, NEW tree \in AttemptIdOrNull,
                 NEW commit \in AttemptIdOrNull, NEW pull \in Nat,
                 CompletePublication(a, tree, commit, pull)
          PROVE  MigrationMoves
      BY <1>2, <2>2, MigrationTakesAnEdge
         DEF CompletePublication, CanCompletePublication, MovedMigration
    <2>3. CASE FailPublication
      <3>1. CASE migration' = migration
        BY <3>1 DEF MigrationMoves
      <3>2. CASE migration' # migration
        BY <1>2, <2>3, <3>2, MigrationTakesAnEdge
           DEF FailPublication, storeVars, MovedMigration
      <3> QED
        BY <3>1, <3>2
    <2>4. CASE ClaimPublication
      BY <2>4 DEF ClaimPublication, MigrationMoves
    <2> QED
      BY <2>1, <2>2, <2>3, <2>4
  <1> QED
    BY <1>1, <1>3 DEF EntitiesMove

\* A step that leaves the two tables alone.
LEMMA NothingMoves ==
  ASSUME RowsCountFromZero, UNCHANGED <<migration, attempts>>
  PROVE  EntitiesMove
  BY AttemptsStand DEF EntitiesMove, MigrationMoves

\* The first rows are those the lifecycles start with.
LEMMA StoreStarts ==
  ASSUME StoreInit
  PROVE  /\ MigrationEntity!Init /\ RowsCountFromZero
         /\ \A a \in AttemptIds : AttemptEntity(a)!Init
  BY DEF StoreInit, NoAttemptRow, RowsCountFromZero, MigrationEntity!Init,
         AttemptEntity!Init

\* A system that moves the entities so, or leaves the rows alone, implements the two.
LEMMA EntitiesStep ==
  ASSUME EntitiesMove \/ UNCHANGED storeVars
  PROVE  /\ [MigrationEntity!Next]_(MigrationEntity!vars)
         /\ [\A a \in AttemptIds : [AttemptEntity(a)!Next]_(attempts[a])]_storeVars
  BY DEF EntitiesMove, MigrationMoves, AttemptsMove, MigrationEntity!vars, storeVars

================================================================================
