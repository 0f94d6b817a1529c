CONSTANTS
  s1 = s1
  s2 = s2
  NoScope = NoScope
  Scopes = {s1, s2}
  MaxEpoch = 1
  MaxBriefs = 2
  MaxOverlap = 2
  poll = poll
  BrowserPolls = {poll}
SPECIFICATION BriefSpec
INVARIANTS
  NoBriefIsStranded
PROPERTIES
  BriefProgressEnds
CHECK_DEADLOCK FALSE
