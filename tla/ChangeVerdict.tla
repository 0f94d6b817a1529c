----------------------------- MODULE ChangeVerdict ------------------------------
(***************************************************************************)
(* What the analysis of a change in a repository promises, without syncs,  *)
(* queue, copies or workers: the question is put once, taken up once and   *)
(* answered at most once, by whoever took it up, also when somebody else   *)
(* has given it up meanwhile.  No answer is ever changed, and what follows *)
(* from it is there as soon as it is.                                      *)
(***************************************************************************)

CONSTANTS
  Verdicts,  \* the answers there are
  Affected   \* those that call for a migration

VARIABLES
  status,    \* where the question stands
  verdicts,  \* its answer, if there is one
  migrates   \* whether it has its migration

verdictVars == <<status, verdicts, migrates>>

Init == status = "absent" /\ verdicts = {} /\ migrates = FALSE

Ask == status = "absent" /\ status' = "queued" /\ UNCHANGED <<verdicts, migrates>>

TakeUp == status = "queued" /\ status' = "analyzing" /\ UNCHANGED <<verdicts, migrates>>

GiveUp == status = "analyzing" /\ status' = "failed" /\ UNCHANGED <<verdicts, migrates>>

Answer(d) ==
  /\ \/ status = "analyzing" /\ status' = "completed"
     \/ status = "failed" /\ status' = "failed"
  /\ verdicts = {} /\ verdicts' = {d}
  /\ migrates' = (d \in Affected)

Next == Ask \/ TakeUp \/ GiveUp \/ \E d \in Verdicts : Answer(d)

Spec == Init /\ [][Next]_verdictVars

================================================================================
