CONSTANTS
  k1 = k1
  k2 = k2
  r1 = r1
  w1 = w1
  Keys = {k1, k2}
  Requests = {r1}
  Workers = {w1}
  MaxAttempts = 2
  MaxJobs = 1
  ClaimFaults = TRUE
  Crashes = FALSE
SPECIFICATION FairSpec
INVARIANTS
  NothingWaitsForNobody
PROPERTIES
  GenerationEnds
CHECK_DEADLOCK FALSE
