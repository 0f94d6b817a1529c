-------------------------------- MODULE BriefPage --------------------------------
(***************************************************************************)
(* The AI briefing page (WorkspaceIntelligence of MigrationWorkspace.tsx,  *)
(* lib/intelligence.ts) over the briefs and the jobs of                    *)
(* workspace_intelligence.  A brief is stored under the digest of what it  *)
(* is about: the scope the user selects (a job and repositories) and the   *)
(* state of the workspace, which changes under it.                         *)
(*                                                                         *)
(* As on the radar, the effect that follows the selection aborts its GET;  *)
(* polls and POSTs land whatever is selected by then.  The workspace is    *)
(* assumed to hold something to brief on (a selected repository).          *)
(***************************************************************************)
EXTENDS Browser

CONSTANTS
  Scopes, NoScope,   \* what can be selected; NoScope: no repository
  MaxEpoch,          \* bound: changes of the workspace
  MaxBriefs          \* bound: briefs queued, and deferred again while they are

ASSUME BriefAssumption ==
  /\ NoScope \notin Scopes
  /\ MaxEpoch \in Nat
  /\ MaxBriefs \in Nat

VARIABLES
  briefs,        \* workspace_ai_briefs: status by digest
  epoch,         \* the state of the workspace
  briefJobs,     \* jobs waiting, by digest
  briefWorkers,  \* workers that claimed a digest and are working on it
  abandoned,     \* digests of a job that was never deferred, or whose worker died
  queuedBriefs,  \* how many briefs were queued, or deferred again, so far
  desk,          \* the state hooks of the page
  deskLoad,      \* is the GET of the selection under way
  deskPolls,     \* the polls under way
  briefPost      \* the POST under way

briefRows == <<briefs, briefJobs, briefWorkers, abandoned, queuedBriefs>>
deskVars == <<desk, deskLoad, deskPolls, briefPost>>
briefVars == <<briefRows, epoch, deskVars>>

Epochs == 0 .. MaxEpoch
Digests == Scopes \X Epochs
ScopeOrNone == Scopes \cup {NoScope}

BriefStatus == JobStatuses \cup {"not_generated"}
BriefOnScreen == BriefStatus \cup {"null"}

NoPoll == [state |-> "idle", scope |-> NoScope, reply |-> "null"]
NoBriefPost ==
  [state |-> "idle", scope |-> NoScope, refresh |-> FALSE, digest |-> 0, reply |-> "null"]

\* fetchMe is under way when the page opens: nothing is selected yet.
FreshDesk == [me |-> FALSE, scope |-> NoScope, response |-> "null", loading |-> FALSE,
              generating |-> FALSE]

BriefInit ==
  /\ briefs = [d \in Digests |-> "not_generated"]
  /\ epoch = 0
  /\ briefJobs = [d \in Digests |-> 0]
  /\ briefWorkers = [d \in Digests |-> 0]
  /\ abandoned = {}
  /\ queuedBriefs = 0
  /\ desk = FreshDesk
  /\ deskLoad = FALSE
  /\ deskPolls = [s \in BrowserPolls |-> NoPoll]
  /\ briefPost = NoBriefPost

--------------------------------------------------------------------------------
(* workspace_intelligence: store, router and task *)

\* workspace_snapshot: a digest of the scope and of what is stored about it.
Digest(scope) == <<scope, epoch>>

WorkspaceChanges ==
  /\ epoch < MaxEpoch
  /\ epoch' = epoch + 1
  /\ UNCHANGED <<briefRows, deskVars>>

\* queue_brief: the row as it is, or queued again.
KeepsBrief(d, refresh) == briefs[d] # "not_generated" /\ ~ refresh

QueueBrief(d) ==
  /\ queuedBriefs < MaxBriefs
  /\ queuedBriefs' = queuedBriefs + 1
  /\ briefs' = [briefs EXCEPT ![d] = "queued"]

\* Mutation: a job is deferred for a new row only.
Deferred_NewRows(d, refresh) == IF refresh THEN briefJobs ELSE [briefJobs EXCEPT ![d] = @ + 1]

Deferred(d, refresh) == [briefJobs EXCEPT ![d] = @ + 1]

\* claim_brief: a job whose brief is not queued is skipped.
ClaimBrief(d) ==
  /\ briefJobs[d] > 0
  /\ briefJobs' = [briefJobs EXCEPT ![d] = @ - 1]
  /\ IF briefs[d] = "queued"
     THEN /\ briefs' = [briefs EXCEPT ![d] = "running"]
          /\ briefWorkers' = [briefWorkers EXCEPT ![d] = @ + 1]
     ELSE UNCHANGED <<briefs, briefWorkers>>
  /\ UNCHANGED <<abandoned, queuedBriefs, epoch>>

CompleteBrief(d) ==
  /\ briefWorkers[d] > 0
  /\ briefWorkers' = [briefWorkers EXCEPT ![d] = @ - 1]
  /\ briefs' = [briefs EXCEPT ![d] = IF @ = "running" THEN "ready" ELSE @]
  /\ UNCHANGED <<briefJobs, abandoned, queuedBriefs, epoch>>

\* fail_brief, whatever became of the row meanwhile.
FailBrief(d) ==
  /\ briefWorkers[d] > 0
  /\ briefWorkers' = [briefWorkers EXCEPT ![d] = @ - 1]
  /\ briefs' = [briefs EXCEPT ![d] = "failed"]
  /\ UNCHANGED <<briefJobs, abandoned, queuedBriefs, epoch>>

\* The claim raises: the task fails the brief all the same.
ClaimBriefRaises(d) ==
  /\ briefJobs[d] > 0
  /\ briefJobs' = [briefJobs EXCEPT ![d] = @ - 1]
  /\ briefs' = [briefs EXCEPT ![d] = "failed"]
  /\ UNCHANGED <<briefWorkers, abandoned, queuedBriefs, epoch>>

BriefWorkerDies(d) ==
  /\ briefWorkers[d] > 0
  /\ briefWorkers' = [briefWorkers EXCEPT ![d] = @ - 1]
  /\ abandoned' = abandoned \cup {d}
  /\ UNCHANGED <<briefs, briefJobs, queuedBriefs, epoch>>

\* Another window refreshes the brief of what it has selected: its POST commits and
\* defers.
OtherWindowRefreshes(scope) ==
  /\ QueueBrief(Digest(scope))
  /\ briefJobs' = Deferred(Digest(scope), TRUE)
  /\ UNCHANGED <<briefWorkers, abandoned, epoch>>

BriefWorkersStep ==
  /\ \E d \in Digests : ClaimBrief(d) \/ CompleteBrief(d) \/ FailBrief(d) \/ ClaimBriefRaises(d)
  /\ UNCHANGED deskVars

BriefSurroundings ==
  /\ \/ \E d \in Digests : BriefWorkerDies(d)
     \/ \E scope \in Scopes : OtherWindowRefreshes(scope)
  /\ UNCHANGED deskVars

--------------------------------------------------------------------------------
(* The page: the selection and its brief *)

\* Bounds: how many requests are under way when the user acts.
DeskUnderWay ==
  Cardinality({s \in BrowserPolls : deskPolls[s].state # "idle"})
    + Count(deskLoad) + Count(briefPost.state # "idle")

DeskQuiet == DeskUnderWay = 0
DeskCanOverlap == DeskUnderWay < MaxOverlap

\* The effect of a selection: abort the last GET, whose finally ends the loading, and
\* send another unless no repository is selected.
Reloaded(scope) ==
  /\ desk' = [desk EXCEPT !.scope = scope, !.loading = ~ deskLoad]
  /\ deskLoad' = (scope # NoScope)

\* fetchMe: the first accessible repository, which may be none, is selected without
\* "loading".
LandMe(scope) ==
  /\ ~ desk.me
  /\ desk' = [desk EXCEPT !.me = TRUE, !.scope = scope]
  /\ deskLoad' = (scope # NoScope)
  /\ UNCHANGED <<briefRows, epoch, deskPolls, briefPost>>

\* toggleRepository, another job, "Select all".
SelectScope(scope) ==
  /\ desk.me /\ scope # desk.scope /\ DeskCanOverlap
  /\ Reloaded(scope)
  /\ UNCHANGED <<briefRows, epoch, deskPolls, briefPost>>

\* The job already selected, or a twenty-first repository: "loading" is set, nothing is
\* selected anew and nothing is fetched.
SelectSame ==
  /\ desk.me /\ DeskQuiet
  /\ desk' = [desk EXCEPT !.loading = TRUE]
  /\ UNCHANGED <<briefRows, epoch, deskLoad, deskPolls, briefPost>>

\* "Clear selection".
ClearScope ==
  /\ DeskQuiet
  /\ desk.scope # NoScope
  /\ desk' = [desk EXCEPT !.scope = NoScope, !.loading = IF deskLoad THEN FALSE ELSE @]
  /\ deskLoad' = FALSE
  /\ UNCHANGED <<briefRows, epoch, deskPolls, briefPost>>

LandBrief(delivered) ==
  /\ deskLoad
  /\ desk' = [desk EXCEPT !.response = IF delivered THEN briefs[Digest(desk.scope)] ELSE @,
                          !.loading = FALSE]
  /\ deskLoad' = FALSE
  /\ UNCHANGED <<briefRows, epoch, deskPolls, briefPost>>

\* Mutation: the page polls only until a worker has claimed the brief.
PollsBrief_WhileQueued == desk.response = "queued"

PollsBrief == desk.response \in Working

PollBrief(s) ==
  /\ PollsBrief
  /\ deskPolls[s].state = "idle"
  /\ deskPolls' = [deskPolls EXCEPT ![s] = [NoPoll EXCEPT !.state = "sent", !.scope = desk.scope]]
  /\ UNCHANGED <<briefRows, epoch, desk, deskLoad, briefPost>>

\* get_brief; 422 when no repository is selected.
ReadBrief(s) ==
  /\ deskPolls[s].state = "sent"
  /\ deskPolls' = [deskPolls EXCEPT
       ![s].state = "answered",
       ![s].reply = IF deskPolls[s].scope = NoScope THEN "null"
                    ELSE briefs[Digest(deskPolls[s].scope)]]
  /\ UNCHANGED <<briefRows, epoch, desk, deskLoad, briefPost>>

\* A poll is shown whatever is selected by now.
LandBriefPoll(s) ==
  LET reply == deskPolls[s].reply
  IN  /\ deskPolls[s].state = "answered" /\ reply # "null"
      /\ desk' = [desk EXCEPT !.response = reply, !.generating = @ /\ reply \in Working]
      /\ deskPolls' = [deskPolls EXCEPT ![s] = NoPoll]
      /\ UNCHANGED <<briefRows, epoch, deskLoad, briefPost>>

BriefPollFails(s) ==
  /\ deskPolls[s].state = "answered"
  /\ desk' = [desk EXCEPT !.generating = FALSE]
  /\ deskPolls' = [deskPolls EXCEPT ![s] = NoPoll]
  /\ UNCHANGED <<briefRows, epoch, deskLoad, briefPost>>

--------------------------------------------------------------------------------
(* The page: generate *)

briefIsWorking == desk.generating \/ desk.response \in Working

\* "Generate briefing" and "Refresh briefing".
GenerateBrief ==
  /\ desk.scope # NoScope /\ desk.response # "null"
  /\ ~ briefIsWorking /\ ~ desk.loading /\ DeskQuiet
  /\ briefPost.state = "idle"
  /\ desk' = [desk EXCEPT !.generating = TRUE]
  /\ briefPost' = [NoBriefPost EXCEPT !.state = "sent", !.scope = desk.scope,
                                     !.refresh = (desk.response = "ready")]
  /\ UNCHANGED <<briefRows, epoch, deskLoad, deskPolls>>

\* generate_brief: queue_brief looks for the row without a lock,
BriefLooksUp ==
  /\ briefPost.state = "sent"
  /\ ~ KeepsBrief(Digest(briefPost.scope), briefPost.refresh)
  /\ briefPost' = [briefPost EXCEPT !.state = "queueing", !.digest = epoch]
  /\ UNCHANGED <<briefRows, epoch, desk, deskLoad, deskPolls>>

\* and writes it whatever it is by then.
BriefCommits ==
  /\ briefPost.state = "queueing"
  /\ QueueBrief(<<briefPost.scope, briefPost.digest>>)
  /\ briefPost' = [briefPost EXCEPT !.state = "deferring"]
  /\ UNCHANGED <<briefJobs, briefWorkers, abandoned, epoch, desk, deskLoad, deskPolls>>

\* A brief that is there already answers for itself, and is not always in progress; if
\* it is still queued, a job is deferred once more.
BriefKept ==
  LET d     == Digest(briefPost.scope)
      again == briefs[d] = "queued"
  IN  /\ briefPost.state = "sent"
      /\ KeepsBrief(d, briefPost.refresh)
      /\ again => queuedBriefs < MaxBriefs
      /\ queuedBriefs' = queuedBriefs + Count(again)
      /\ briefJobs' = IF again THEN Deferred(d, briefPost.refresh) ELSE briefJobs
      /\ briefPost' = [NoBriefPost EXCEPT !.state = "answered", !.reply = briefs[d]]
      /\ UNCHANGED <<briefs, briefWorkers, abandoned, epoch, desk, deskLoad, deskPolls>>

\* 422, 503, no connection, or a statement or a deferral that raises.
BriefRefused ==
  /\ briefPost.state \in {"sent", "queueing"}
  /\ briefPost' = [NoBriefPost EXCEPT !.state = "answered", !.reply = "null"]
  /\ UNCHANGED <<briefRows, epoch, desk, deskLoad, deskPolls>>

\* The job is deferred after the commit: it, or the answer, may be lost.
BriefDefers(deferred) ==
  LET d == <<briefPost.scope, briefPost.digest>>
  IN  /\ briefPost.state = "deferring"
      /\ briefJobs' = IF deferred THEN Deferred(d, briefPost.refresh) ELSE briefJobs
      /\ abandoned' = IF deferred THEN abandoned ELSE abandoned \cup {d}
      /\ briefPost' = [NoBriefPost EXCEPT !.state = "answered",
                                         !.reply = IF deferred THEN "queued" ELSE "null"]
      /\ UNCHANGED <<briefs, briefWorkers, queuedBriefs, epoch, desk, deskLoad, deskPolls>>

\* setResponse, which leaves "generating" to the polls; an error ends it.
LandBriefPost(delivered) ==
  LET ok == delivered /\ briefPost.reply # "null"
  IN  /\ briefPost.state = "answered"
      /\ desk' = [desk EXCEPT !.response = IF ok THEN briefPost.reply ELSE @,
                              !.generating = @ /\ ok]
      /\ briefPost' = NoBriefPost
      /\ UNCHANGED <<briefRows, epoch, deskLoad, deskPolls>>

--------------------------------------------------------------------------------

BriefPollMoves(s) == PollBrief(s) \/ ReadBrief(s) \/ LandBriefPoll(s) \/ BriefPollFails(s)

BriefPostMoves ==
  \/ BriefLooksUp \/ BriefCommits \/ BriefKept \/ BriefRefused
  \/ \E deferred \in BOOLEAN : BriefDefers(deferred)
  \/ \E delivered \in BOOLEAN : LandBriefPost(delivered)

DeskNext ==
  \/ \E scope \in ScopeOrNone : LandMe(scope) \/ SelectScope(scope)
  \/ SelectSame \/ ClearScope
  \/ \E delivered \in BOOLEAN : LandBrief(delivered)
  \/ \E s \in BrowserPolls : BriefPollMoves(s)
  \/ GenerateBrief \/ BriefPostMoves

BriefNext == DeskNext \/ BriefWorkersStep \/ BriefSurroundings \/ WorkspaceChanges

\* The queue hands out every job and workers end it; a POST or a load of the page is
\* answered in the end, or fails; the interval fires, is answered, and not every answer is
\* lost.
BriefFairness ==
  /\ WF_briefVars(BriefWorkersStep)
  /\ WF_briefVars(BriefPostMoves)
  /\ WF_briefVars(\E delivered \in BOOLEAN : LandBrief(delivered))
  /\ \A s \in BrowserPolls : WF_briefVars(BriefPollMoves(s)) /\ SF_briefVars(LandBriefPoll(s))

BriefSpec == BriefInit /\ [][BriefNext]_briefVars /\ BriefFairness

--------------------------------------------------------------------------------
(* Properties *)

BriefTypeOK ==
  /\ briefs \in [Digests -> BriefStatus]
  /\ epoch \in Epochs
  /\ briefJobs \in [Digests -> Nat]
  /\ briefWorkers \in [Digests -> Nat]
  /\ abandoned \subseteq Digests
  /\ queuedBriefs \in 0 .. MaxBriefs
  /\ desk \in [me : BOOLEAN, scope : ScopeOrNone, response : BriefOnScreen, loading : BOOLEAN,
               generating : BOOLEAN]
  /\ deskLoad \in BOOLEAN
  /\ deskPolls \in [BrowserPolls -> [state : {"idle", "sent", "answered"}, scope : ScopeOrNone,
                                   reply : BriefOnScreen]]
  /\ briefPost \in [state : {"idle", "sent", "queueing", "deferring", "answered"},
                    scope : ScopeOrNone,
                    refresh : BOOLEAN, digest : Epochs, reply : BriefOnScreen]

\* The POST that queued the brief has not deferred its job yet.
BeingDeferred(d) == briefPost.state = "deferring" /\ d = <<briefPost.scope, briefPost.digest>>

\* However refreshes, claims and results of one brief interleave, a brief that says it
\* is queued has a job that will claim it, and one that says it is running has a worker,
\* unless a job was never deferred or a worker died: a second refresh, a job that is
\* skipped or a result that is dropped never leaves a brief in progress with nobody on it.
NoBriefIsStranded ==
  \A d \in Digests \ abandoned :
    /\ briefs[d] = "queued" => briefJobs[d] > 0 \/ BeingDeferred(d)
    /\ briefs[d] = "running" => briefWorkers[d] > 0

\* "Generating...": the button that would generate one is disabled.
ShowsBriefInProgress == desk.scope # NoScope /\ briefIsWorking

\* "generating" was set for a POST and is cleared by polls only: the brief ended where
\* none saw it end, and there is nothing under way that could clear it.
BriefForgotten == desk.generating /\ desk.response \notin Working /\ DeskQuiet

\* A page that shows a brief in progress, of the selected scope or left over from
\* another one, comes to show that it has ended, unless its job was lost or "generating"
\* was left set.
BriefProgressEnds ==
  ShowsBriefInProgress ~>
    (~ ShowsBriefInProgress \/ Digest(desk.scope) \in abandoned \/ BriefForgotten)

================================================================================
