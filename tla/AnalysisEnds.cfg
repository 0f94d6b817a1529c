CONSTANTS
  p1 = p1
  p2 = p2
  NoPull = NoPull
  PullRequests = {p1, p2}
  MaxReviews = 1
  poll = poll
  BrowserPolls = {poll}
  MaxOverlap = 2
  Lists <- MCLists
SPECIFICATION ReviewSpec
PROPERTIES
  AnalysisEnds
CHECK_DEADLOCK FALSE
