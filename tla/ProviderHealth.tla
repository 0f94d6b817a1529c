----------------------------- MODULE ProviderHealth -----------------------------
(***************************************************************************)
(* What the status of a provider is worth.  A transaction that commits the *)
(* health of a source writes the provider's status too, from the statuses  *)
(* of the other sources as it read them.  The locks order transactions of  *)
(* one source only: one of another source may commit after the read, and   *)
(* the status is then of sources that are no longer so.                    *)
(*                                                                         *)
(* Two history variables added to SourceSync tell when that has happened.  *)
(***************************************************************************)
EXTENDS SourceSync

ASSUME HealthAssumption == Sources # {}

VARIABLES
  overtaken,  \* the transactions since whose read another one has committed
  misled      \* whether such a one was the last to write the provider's status

healthVars == <<syncVars, overtaken, misled>>

HealthInit == SyncInit /\ overtaken = {} /\ misled = FALSE

OpenBeside(y) == {z \in Syncs \ {y} : sync[z].open}

\* y's commit overtakes every transaction that is open beside it.
CommitOvertakes(y) ==
  /\ Commit(y)
  /\ overtaken' = (overtaken \ {y}) \cup OpenBeside(y)
  /\ misled' = (y \in overtaken)

HealthNext ==
  \/ QuietStep /\ UNCHANGED <<overtaken, misled>>
  \/ \E y \in Syncs : CommitOvertakes(y)

HealthSpec == HealthInit /\ [][HealthNext]_healthVars

--------------------------------------------------------------------------------
(* Properties *)

\* The status the API shows for a provider is that of its sources together,
\* whatever syncs run, fail, roll back or die, unless it was written by a
\* transaction that another one of the provider had overtaken; the next one
\* that is not overtaken puts it right.
ProviderFollowsItsSources ==
  ~ misled =>
    /\ provider = "active" <=> \A s \in Sources : sources[s].status = "healthy"
    /\ provider = "degraded" <=>
         \E s \in Sources : sources[s].status \in {"degraded", "failing"}

================================================================================
