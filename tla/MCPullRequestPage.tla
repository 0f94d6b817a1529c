----------------------------- MODULE MCPullRequestPage -----------------------------
(* Two pull requests, one of which may leave the list that GitHub gives.             *)
EXTENDS PullRequestPage

CONSTANTS p1, p2, poll

MCLists == {{p2}, {p1, p2}}

================================================================================
