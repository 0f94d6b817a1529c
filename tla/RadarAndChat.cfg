CONSTANTS
  p1 = p1
  p2 = p2
  NoPull = NoPull
  PullRequests = {p1, p2}
  MaxReviews = 2
  Lists <- MCLists
  q1 = q1
  q2 = q2
  Questions = {q1, q2}
  MaxExchanges = 2
  ThreadLimit = 2
  poll = poll
  BrowserPolls = {poll}
  MaxOverlap = 2
SPECIFICATION RadarAndChatSpec
INVARIANTS
  OverviewIsItsCurrentReview
PROPERTIES
  ReviewProgressEnds
  ChatWaitEnds
CHECK_DEADLOCK FALSE
