-------------------------------- MODULE MCBriefPage --------------------------------
(* Two scopes to brief on, in a workspace that changes once.                         *)
EXTENDS BriefPage

CONSTANTS s1, s2, poll

================================================================================
