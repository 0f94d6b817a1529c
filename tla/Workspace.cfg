CONSTANTS
  k1 = k1
  k2 = k2
  k3 = k3
  Keys = {k1, k2, k3}
  MaxAttempts = 2
  MaxPolls = 1
  i1 = i1
  i2 = i2
  i3 = i3
  NoItem = NoItem
  HistoryItems = {i1, i2, i3}
  Filters <- MCFilters
  MaxOlder = 2
  MaxKey = 6
  PageSize = 2
  t1 = t1
  t2 = t2
  Tabs = {t1, t2}
  Pages = {"/migrations", "/history"}
  MaxLogins = 2
  MaxSessions = 2
SPECIFICATION WorkspaceSpec
INVARIANTS
  OffersAreLegal
  DetailIsOfSelected
  InboxListsEverything
  SignInsDoNotMix
PROPERTIES
  DecisionsAreInformed
  ProgressEnds
CHECK_DEADLOCK FALSE
