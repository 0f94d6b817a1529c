--------------------------------- MODULE Browser ---------------------------------
(***************************************************************************)
(* What the intelligence pages of the frontend share: they all show the    *)
(* result of a job that they ask for with a POST and then poll, on a timer *)
(* and without aborting the polls, while its status is "queued" or         *)
(* "running".  A window bounds how many requests it has under way.         *)
(***************************************************************************)
EXTENDS Naturals, FiniteSets

CONSTANTS
  BrowserPolls,   \* the polls one page may have under way
  MaxOverlap      \* bound: requests already under way when the user acts

ASSUME BrowserAssumption ==
  /\ IsFiniteSet(BrowserPolls)
  /\ "selected" \notin BrowserPolls /\ "saved" \notin BrowserPolls
  /\ MaxOverlap \in Nat

JobStatuses == {"queued", "running", "ready", "failed"}

\* The statuses that a page polls on.
Working == {"queued", "running"}

Count(b) == IF b THEN 1 ELSE 0

================================================================================
