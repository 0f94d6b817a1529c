CONSTANTS
  s1 = s1
  k1 = k1
  k2 = k2
  o1 = o1
  r1 = r1
  w1 = w1
  w2 = w2
  calm = calm
  affected = affected
  Source = s1
  Sources = {s1}
  Feeds = {s1}
  Syncs = {k1, k2}
  SourceOf <- OnlySource
  Operations = {o1}
  Repositories = {r1}
  LostObjects = FALSE
  Crashes = TRUE
  Analysts = {w1, w2}
  Snapshots = {calm, affected}
  Affecting = {affected}
  ClaimFaults = TRUE
SPECIFICATION FairSpec
INVARIANTS
  AnalysedOnce
PROPERTIES
  JobsAreDecidedOnce
  JobsAreInHands
  EveryJobIsAnalysed
