--------------------------- MODULE PublicationOwner ---------------------------
(***************************************************************************)
(* Whose publication it is.  claim_publication gives a record to the run   *)
(* that moved it to publishing, but publish_migration_draft answers any    *)
(* exception, one of its own claim included, with fail_publication, which  *)
(* asks for the record's status and not for the run: the record of a run   *)
(* at work may be failed by another one, queued again and claimed, and the *)
(* first run goes on, unaware.                                             *)
(*                                                                         *)
(* History variables added to DraftPublishing tell when that happened, and *)
(* whether the forgotten run has written anything since, and whether the   *)
(* run that a record waits for has died.                                   *)
(***************************************************************************)
EXTENDS DraftPublishing

VARIABLES
  disowned,  \* the runs at work on a record that another run has failed
  strayed,   \* whether such a run has changed the record or the repository
  forsaken   \* whether the run of the publication in progress has died

ownerVars == <<vars, disowned, strayed, forsaken>>

OwnerInit == Init /\ disowned = {} /\ strayed = FALSE /\ forsaken = FALSE

\* The runs whose claim succeeded and that have not ended.
Claimants == {w \in Publishers : publishers[w].record.status = "publishing"}

\* The failure of a record disowns every run at work on it but the one that failed
\* it, which ends in the same step.
RecordFails == publication.status = "publishing" /\ publication'.status = "failed"

\* A disowned run goes on, short of the failure it ends in, and it leaves a trace.
Strays ==
  \E w \in disowned :
    /\ publishers'[w] # publishers[w] /\ ~ At(w, "failing")
    /\ <<publication, github>>' # <<publication, github>>

RunsAreTold ==
  /\ PublishersLive
  /\ disowned' = IF RecordFails THEN Claimants' ELSE disowned \cap Claimants'
  /\ strayed' = (strayed \/ Strays)
  /\ forsaken' = (forsaken /\ publication'.status = "publishing")

DeathIsTold(w) ==
  /\ Crash(w)
  /\ disowned' = disowned \ {w}
  /\ forsaken' = (forsaken \/ w \in Claimants \ disowned)
  /\ UNCHANGED strayed

OwnerNext == RunsAreTold \/ \E w \in Publishers : DeathIsTold(w)

OwnerSpec == OwnerInit /\ [][OwnerNext]_ownerVars

FairOwnerSpec == OwnerSpec /\ Fairness

--------------------------------------------------------------------------------
(* Properties *)

\* Whatever was interrupted and resumed before, a completed publication put the
\* commit of the attempt it was queued for on the branch, opened a pull request and
\* attached a check to that same commit, unless a run went on writing after another
\* one had failed the record under it.
CompletedPublicationIsItsAttempt ==
  ~ strayed /\ publication.status = "completed" =>
    /\ publication.tree = publication.attempt
    /\ publication.commit = publication.attempt
    /\ publication.head = publication.attempt
    /\ publication.pull # 0 /\ github.pulls[publication.pull].state # "none"
    /\ publication.check

\* Every checkpoint names an object that exists and belongs to the attempt being
\* published, so that a resumed run that trusts it builds on nothing stale, unless a
\* run wrote after another one had failed the record under it.
CheckpointsAreOfThisAttempt ==
  /\ publication.pull # 0 => github.pulls[publication.pull].state # "none"
  /\ ~ strayed =>
       /\ publication.tree \in {0, publication.attempt}
       /\ publication.commit \in {0, publication.tree}
       /\ publication.check => publication.commit = publication.attempt

\* Once a pull request is recorded no other one is opened for the migration, whatever
\* was lost, retried or revised, unless by a run that another one had failed the
\* record under.
OneDraftPerMigration ==
  ~ strayed /\ publication.pull # 0 =>
    \A n \in Pulls : n > publication.pull => github.pulls[n] = NoPull

\* A publication that was claimed ends, completed or failed, whatever GitHub, people
\* and other jobs do meanwhile, unless the process of its own run dies.
PublicationEnds ==
  publication.status = "publishing" ~> publication.status # "publishing" \/ forsaken

================================================================================
