CONSTANTS
  k1 = k1
  k2 = k2
  w1 = w1
  w2 = w2
  h1 = h1
  Keys = {k1, k2}
  Publishers = {w1, w2}
  Handlers = {h1}
  MaxAttempts = 2
  MaxPulls = 2
  MaxJobs = 1
  People = FALSE
  LostReplies = TRUE
  Crashes = TRUE
  ClaimFaults = TRUE
SPECIFICATION OwnerSpec
SYMMETRY Interchangeable
INVARIANTS
  CompletedPublicationIsItsAttempt
  CheckpointsAreOfThisAttempt
  OneDraftPerMigration
CHECK_DEADLOCK FALSE
