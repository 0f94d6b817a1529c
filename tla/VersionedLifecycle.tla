-------------------------- MODULE VersionedLifecycle ---------------------------
(***************************************************************************)
(* What a versioned entity promises whoever reads it: it only moves along  *)
(* the edges of its published lifecycle, and its version number counts the *)
(* edges it has taken.  One transaction may take up to three edges (a      *)
(* finished generation passes through "verifying" and "reviewing" without  *)
(* ever being stored there).                                               *)
(***************************************************************************)
EXTENDS Naturals

CONSTANTS
  Transitions,  \* [state -> set of states]
  Start,        \* the state an entity starts in
  StartVersion  \* and its first version

VARIABLES status, version

vars == <<status, version>>

\* The states one edge away from a state of S.
After(S) == UNION {Transitions[s] : s \in S}

Init ==
  /\ status = Start
  /\ version = StartVersion

Next ==
  \/ /\ status' \in After({status})
     /\ version' = version + 1
  \/ /\ status' \in After(After({status}))
     /\ version' = version + 2
  \/ /\ status' \in After(After(After({status})))
     /\ version' = version + 3

Spec == Init /\ [][Next]_vars

================================================================================
