------------------------------ MODULE RadarAndChat ------------------------------
(***************************************************************************)
(* Two pages that follow jobs of the model: the radar of pull requests, or *)
(* Ask Delta, whichever was navigated to.                                  *)
(***************************************************************************)
EXTENDS PullRequestPage, AskDelta

VARIABLE route    \* what was navigated to

radarAndChatVars == <<route, reviewVars, askVars>>

RadarAndChatInit ==
  /\ route \in {"/pull-requests", "/intelligence"}
  /\ ReviewInit /\ AskInit

RadarRoute ==
  /\ route = "/pull-requests" /\ ReviewNext
  /\ UNCHANGED <<route, askVars>>

ChatRoute ==
  /\ route = "/intelligence" /\ AskNext
  /\ UNCHANGED <<route, reviewVars>>

RadarAndChatNext == RadarRoute \/ ChatRoute

\* Whatever was not navigated to stays as it starts, where nothing that fairness asks for
\* is enabled: a page acts on what the user or a load has put there.
RadarAndChatSpec ==
  /\ RadarAndChatInit /\ [][RadarAndChatNext]_radarAndChatVars
  /\ ReviewFairness /\ AskFairness

================================================================================
