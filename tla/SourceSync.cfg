CONSTANTS
  s1 = s1
  s2 = s2
  k1 = k1
  k2 = k2
  k3 = k3
  o1 = o1
  o2 = o2
  r1 = r1
  Sources = {s1, s2}
  Feeds = {s2}
  Syncs = {k1, k2, k3}
  SourceOf <- TwoSources
  Operations = {o1}
  Repositories = {r1}
  LostObjects = TRUE
  Crashes = TRUE
SPECIFICATION HealthSpec
SYMMETRY Interchangeable
INVARIANTS
  ProviderFollowsItsSources
  HealthIsConsistent
  NothingChangesUnnoticed
