CONSTANTS
  k1 = k1
  k2 = k2
  w1 = w1
  h1 = h1
  Keys = {k1, k2}
  Publishers = {w1}
  Handlers = {h1}
  MaxAttempts = 2
  MaxPulls = 1
  MaxJobs = 1
  People = TRUE
  LostReplies = TRUE
  Crashes = TRUE
  ClaimFaults = TRUE
SPECIFICATION FairOwnerSpec
INVARIANT
  OnlyApprovedCommitsAreOnTheBranch
PROPERTIES
  OverwritesOnlyUnseenPushes
  DecisionsAreSynchronized
  PublicationEnds
CHECK_DEADLOCK FALSE
