CONSTANTS
  k1 = k1
  k2 = k2
  r1 = r1
  r2 = r2
  w1 = w1
  w2 = w2
  Keys = {k1, k2}
  Requests = {r1, r2}
  Workers = {w1, w2}
  MaxAttempts = 2
  MaxJobs = 1
  ClaimFaults = FALSE
  Crashes = TRUE
SPECIFICATION Spec
SYMMETRY Interchangeable
INVARIANTS
  CurrentAttemptExplainsMigration
  AttemptsFormAChain
  PublicationFollowsMigration
  DecisionsAreSerialized
  LostJobsCanBeDeferredAgain
PROPERTIES
  SupersededWorkersMoveNothing
  MigrationIsVersioned
  AttemptsAreVersioned
CHECK_DEADLOCK FALSE
