----------------------------- MODULE PullRequestPage -----------------------------
(***************************************************************************)
(* The pull request radar (PullRequestIntelligence of                      *)
(* MigrationWorkspace.tsx, lib/pullRequests.ts) over the rows and the jobs *)
(* of pull_request_intelligence: one row per pull request, one attempt per *)
(* review.                                                                 *)
(*                                                                         *)
(* An effect and the cleanup of the one before it belong to the step that  *)
(* changes what they depend on.  Only the effect that follows the          *)
(* selection aborts its request: answers of polls, of saved reviews and of *)
(* POSTs are taken for the selected pull request, whichever they are of.   *)
(* Polls, whose answers race with the selection, are read before they      *)
(* land; the other GETs are read as they land.  The list of saved reviews  *)
(* is left out: any attempt may be opened.                                 *)
(***************************************************************************)
EXTENDS Browser

CONSTANTS
  PullRequests, NoPull,
  Lists,            \* what GET /pull-requests may find
  MaxReviews        \* bound: attempts

ASSUME PullRequestAssumption ==
  /\ NoPull \notin PullRequests
  /\ Lists \subseteq SUBSET PullRequests
  /\ MaxReviews \in Nat

VARIABLES
  overviews,     \* pull_request_ai_overviews, by pull request
  reviews,       \* pull_request_ai_overview_attempts, by order of creation
  reviewTasks,   \* the job of each attempt, and what its worker is doing
  radar,         \* the state hooks of the page
  radarFetches,  \* its GETs under way
  reviewPost     \* its POST under way

reviewVars == <<overviews, reviews, reviewTasks, radar, radarFetches, reviewPost>>

ReviewIds == 1 .. MaxReviews
ReviewIdOrNull == 0 .. MaxReviews
PullOrNull == PullRequests \cup {NoPull}

OverviewStatus == JobStatuses \cup {"not_generated"}

\* What decides of a PullRequestOverviewResponse is its status; "null" is no overview
\* yet, or an answer that is an error.
OverviewOnScreen == OverviewStatus \cup {"null"}

NoReview == [pull |-> NoPull, status |-> "absent"]

\* The GET of the selected overview, that of a saved review, and the polls.
SelectedSlot == "selected"
SavedSlot == "saved"
RadarSlots == {SelectedSlot, SavedSlot} \cup BrowserPolls

NoRadarFetch == [state |-> "idle", pull |-> NoPull, attempt |-> 0, reply |-> "null"]
NoPost ==
  [state |-> "idle", heard |-> FALSE, pull |-> NoPull, refresh |-> FALSE, attempt |-> 0,
   reply |-> "null"]

\* The list is being read from GitHub when the page opens.
FreshRadar ==
  [listing |-> TRUE, listed |-> {}, key |-> NoPull, overview |-> "null",
   overviewLoading |-> FALSE, generating |-> FALSE]

ReviewInit ==
  /\ overviews = [p \in PullRequests |-> [status |-> "not_generated", attempt |-> 0]]
  /\ reviews = [a \in ReviewIds |-> NoReview]
  /\ reviewTasks = [a \in ReviewIds |-> "none"]
  /\ radar = FreshRadar
  /\ radarFetches = [s \in RadarSlots |-> NoRadarFetch]
  /\ reviewPost = NoPost

--------------------------------------------------------------------------------
(* pull_request_intelligence: store, router and task *)

\* queue_overview: the row as it is, or a new attempt that becomes the current one.
KeepsOverview(p, refresh) == overviews[p].attempt # 0 /\ ~ refresh

QueueReview(p, a) ==
  /\ reviews[a].status = "absent"
  /\ \A b \in 1 .. a - 1 : reviews[b].status # "absent"
  /\ reviews' = [reviews EXCEPT ![a] = [pull |-> p, status |-> "queued"]]
  /\ overviews' = [overviews EXCEPT ![p] = [status |-> "queued", attempt |-> a]]

\* The row follows its attempt only while it is the current one.
OverviewAfter(a, from, status) ==
  LET p == reviews[a].pull
  IN  IF overviews[p].attempt = a /\ overviews[p].status \in from
      THEN [overviews EXCEPT ![p].status = status]
      ELSE overviews

\* claim_overview, by the worker that was handed the job.
ClaimReview(a) ==
  /\ reviewTasks[a] = "queued"
  /\ reviews[a].status \in {"queued", "running"}
  /\ reviews' = [reviews EXCEPT ![a].status = "running"]
  /\ overviews' = OverviewAfter(a, OverviewStatus, "running")
  /\ reviewTasks' = [reviewTasks EXCEPT ![a] = "claimed"]

\* Mutation: the row is completed by whichever attempt ends first.
CompletedOverview_AnyAttempt(a) ==
  LET p == reviews[a].pull
  IN  IF overviews[p].status = "running" THEN [overviews EXCEPT ![p].status = "ready"]
      ELSE overviews

CompletedOverview(a) == OverviewAfter(a, {"running"}, "ready")

CompleteReview(a) ==
  /\ reviewTasks[a] = "claimed"
  /\ reviews' = [reviews EXCEPT ![a].status = IF @ = "running" THEN "ready" ELSE @]
  /\ overviews' = CompletedOverview(a)
  /\ reviewTasks' = [reviewTasks EXCEPT ![a] = "done"]

\* fail_overview, also when the claim itself raised.
FailReview(a) ==
  /\ reviewTasks[a] \in {"queued", "claimed"}
  /\ reviews' = [reviews EXCEPT ![a].status = "failed"]
  /\ overviews' = OverviewAfter(a, OverviewStatus, "failed")
  /\ reviewTasks' = [reviewTasks EXCEPT ![a] = "done"]

\* The worker process dies: nothing hands its job out again.
ReviewerDies(a) ==
  /\ reviewTasks[a] = "claimed"
  /\ reviewTasks' = [reviewTasks EXCEPT ![a] = "lost"]
  /\ UNCHANGED <<overviews, reviews>>

ReviewWorkers ==
  /\ \E a \in ReviewIds : ClaimReview(a) \/ CompleteReview(a) \/ FailReview(a)
  /\ UNCHANGED <<radar, radarFetches, reviewPost>>

ReviewWorkerDies ==
  /\ \E a \in ReviewIds : ReviewerDies(a)
  /\ UNCHANGED <<radar, radarFetches, reviewPost>>

--------------------------------------------------------------------------------
(* The page: the list and the selection *)

\* The item of the list with the selected key.
SelectedPull == IF radar.key \in radar.listed THEN radar.key ELSE NoPull

\* The effect of a selection (a new object, even of the same pull request): abort the
\* last GET, whose finally clears overviewLoading, and send another.
AbortedLoading(loading) ==
  IF radarFetches[SelectedSlot].state = "idle" THEN loading ELSE FALSE

Reselected(fetches, p) ==
  [fetches EXCEPT ![SelectedSlot] =
     IF p = NoPull THEN NoRadarFetch ELSE [NoRadarFetch EXCEPT !.state = "sent", !.pull = p]]

\* The answer of GET /pull-requests: on opening, the first item is selected; on a
\* refresh, only if the selected one is gone.
KeyAmong(found, first) ==
  IF radar.key \in found THEN radar.key ELSE IF found = {} THEN NoPull ELSE first

LandList(found, first) ==
  LET key   == KeyAmong(found, first)
      moved == SelectedPull # NoPull \/ key # NoPull
  IN  /\ radar.listing
      /\ found # {} => first \in found
      /\ radar' = [radar EXCEPT !.listing = FALSE, !.listed = found, !.key = key,
                                !.overviewLoading = IF moved THEN AbortedLoading(@) ELSE @]
      /\ radarFetches' = IF moved THEN Reselected(radarFetches, key) ELSE radarFetches
      /\ UNCHANGED <<overviews, reviews, reviewTasks, reviewPost>>

\* Bounds: how many requests are under way when the user acts.
UnderWay ==
  Cardinality({s \in RadarSlots : radarFetches[s].state # "idle"})
    + Count(reviewPost.state # "idle")

Quiet == UnderWay = 0
CanOverlap == UnderWay < MaxOverlap

ListFails ==
  /\ radar.listing
  /\ radar' = [radar EXCEPT !.listing = FALSE]
  /\ UNCHANGED <<overviews, reviews, reviewTasks, radarFetches, reviewPost>>

RefreshList ==
  /\ ~ radar.listing /\ Quiet
  /\ radar' = [radar EXCEPT !.listing = TRUE]
  /\ UNCHANGED <<overviews, reviews, reviewTasks, radarFetches, reviewPost>>

\* selectPullRequest; clicking the selected one again clears the panel and fetches
\* nothing, since the key stays the same.
SelectPull(p) ==
  /\ ~ radar.listing /\ p \in radar.listed /\ CanOverlap
  /\ radar' = [radar EXCEPT !.overview = "null", !.key = p,
                            !.overviewLoading = IF p = radar.key THEN TRUE
                                                ELSE AbortedLoading(TRUE)]
  /\ radarFetches' = IF p = radar.key THEN radarFetches ELSE Reselected(radarFetches, p)
  /\ UNCHANGED <<overviews, reviews, reviewTasks, reviewPost>>

--------------------------------------------------------------------------------
(* The page: reading overviews *)

\* Mutation: the page polls only until a worker has claimed the review.
PollsReview_WhileQueued == SelectedPull # NoPull /\ radar.overview = "queued"

PollsReview == SelectedPull # NoPull /\ radar.overview \in Working

PollReview(s) ==
  /\ PollsReview
  /\ radarFetches[s].state = "idle"
  /\ radarFetches' = [radarFetches EXCEPT
                        ![s] = [NoRadarFetch EXCEPT !.state = "sent", !.pull = SelectedPull]]
  /\ UNCHANGED <<overviews, reviews, reviewTasks, radar, reviewPost>>

isWorking == radar.generating \/ radar.overview \in Working

\* openOverviewAttempt: one of the saved reviews on the page.
OpenReview(a) ==
  /\ ~ radar.listing /\ SelectedPull # NoPull /\ ~ isWorking /\ Quiet
  /\ reviews[a].status # "absent"
  /\ radarFetches[SavedSlot].state = "idle"
  /\ radar' = [radar EXCEPT !.overviewLoading = TRUE]
  /\ radarFetches' = [radarFetches EXCEPT
                        ![SavedSlot] = [NoRadarFetch EXCEPT !.state = "sent",
                                          !.pull = SelectedPull, !.attempt = a]]
  /\ UNCHANGED <<overviews, reviews, reviewTasks, reviewPost>>

\* get_overview, and get_overview_attempt (404 when it is another pull request's).
OverviewRead(f) ==
  IF f.attempt = 0 THEN overviews[f.pull].status
  ELSE IF reviews[f.attempt].pull = f.pull THEN reviews[f.attempt].status ELSE "null"

ReadPoll(s) ==
  /\ radarFetches[s].state = "sent"
  /\ radarFetches' = [radarFetches EXCEPT ![s].state = "answered", ![s].attempt = 0,
                                          ![s].reply = OverviewRead(radarFetches[s])]
  /\ UNCHANGED <<overviews, reviews, reviewTasks, radar, reviewPost>>

\* The selected overview, or a saved review, is read and shown.  An error, a timeout or
\* a connection lost is a message.
LandOverview(s, delivered) ==
  LET reply == IF delivered THEN OverviewRead(radarFetches[s]) ELSE "null"
  IN  /\ radarFetches[s].state = "sent"
      /\ radar' = [radar EXCEPT !.overview = IF reply = "null" THEN @ ELSE reply,
                                !.overviewLoading = FALSE]
      /\ radarFetches' = [radarFetches EXCEPT ![s] = NoRadarFetch]
      /\ UNCHANGED <<overviews, reviews, reviewTasks, reviewPost>>

\* setPullRequests replaces the item of the pull request the answer is of: if that is
\* the selected one, the page selects a new object.
Replaced(fetches, p) ==
  IF p = SelectedPull THEN Reselected(fetches, p) ELSE fetches

LoadingAfter(p) ==
  IF p = SelectedPull THEN AbortedLoading(radar.overviewLoading) ELSE radar.overviewLoading

\* A poll is shown whatever is selected by now.
LandReviewPoll(s) ==
  LET f == radarFetches[s]
  IN  /\ f.state = "answered"
      /\ radar' = [radar EXCEPT !.overview = f.reply,
                                !.generating = @ /\ f.reply \in Working,
                                !.overviewLoading = LoadingAfter(f.pull)]
      /\ radarFetches' = [Replaced(radarFetches, f.pull) EXCEPT ![s] = NoRadarFetch]
      /\ UNCHANGED <<overviews, reviews, reviewTasks, reviewPost>>

ReviewPollFails(s) ==
  /\ radarFetches[s].state = "answered"
  /\ radar' = [radar EXCEPT !.generating = FALSE]
  /\ radarFetches' = [radarFetches EXCEPT ![s] = NoRadarFetch]
  /\ UNCHANGED <<overviews, reviews, reviewTasks, reviewPost>>

--------------------------------------------------------------------------------
(* The page: analyze *)

\* "Generate AI overview", "Run another review" and "Try again".
Analyze(refresh) ==
  /\ ~ radar.listing /\ SelectedPull # NoPull
  /\ ~ isWorking /\ ~ radar.overviewLoading /\ CanOverlap
  /\ \/ refresh = (radar.overview = "ready")
     \/ refresh /\ radar.overview = "failed"
  /\ reviewPost.state = "idle"
  /\ radar' = [radar EXCEPT !.generating = TRUE]
  /\ reviewPost' = [NoPost EXCEPT !.state = "sent", !.heard = TRUE, !.pull = SelectedPull,
                                  !.refresh = refresh]
  /\ UNCHANGED <<overviews, reviews, reviewTasks, radarFetches>>

PostAnswered(reply) ==
  IF reviewPost.heard
  THEN [NoPost EXCEPT !.state = "answered", !.heard = TRUE, !.pull = reviewPost.pull,
                      !.reply = reply]
  ELSE NoPost

\* generate_overview, up to the commit of queue_overview.
PostCommits(a) ==
  /\ reviewPost.state = "sent"
  /\ ~ KeepsOverview(reviewPost.pull, reviewPost.refresh)
  /\ QueueReview(reviewPost.pull, a)
  /\ reviewPost' = [reviewPost EXCEPT !.state = "deferring", !.refresh = FALSE, !.attempt = a]
  /\ UNCHANGED <<reviewTasks, radar, radarFetches>>

PostKeeps ==
  /\ reviewPost.state = "sent"
  /\ KeepsOverview(reviewPost.pull, reviewPost.refresh)
  /\ reviewPost' = PostAnswered(overviews[reviewPost.pull].status)
  /\ UNCHANGED <<overviews, reviews, reviewTasks, radar, radarFetches>>

\* 404, 503, or no connection.
PostRefused ==
  /\ reviewPost.state = "sent"
  /\ reviewPost' = PostAnswered("null")
  /\ UNCHANGED <<overviews, reviews, reviewTasks, radar, radarFetches>>

\* The job is deferred after the commit: it, or the answer, may be lost.
PostDefers(deferred) ==
  /\ reviewPost.state = "deferring"
  /\ reviewTasks' = [reviewTasks EXCEPT
                       ![reviewPost.attempt] = IF deferred THEN "queued" ELSE "lost"]
  /\ reviewPost' = PostAnswered(IF deferred THEN "queued" ELSE "null")
  /\ UNCHANGED <<overviews, reviews, radar, radarFetches>>

\* An answer that keeps a finished review leaves "generating" set.
LandPost ==
  /\ reviewPost.state = "answered" /\ reviewPost.reply # "null"
  /\ radar' = [radar EXCEPT !.overview = reviewPost.reply,
                            !.overviewLoading = LoadingAfter(reviewPost.pull)]
  /\ radarFetches' = Replaced(radarFetches, reviewPost.pull)
  /\ reviewPost' = NoPost
  /\ UNCHANGED <<overviews, reviews, reviewTasks>>

\* An error, or no answer within twenty seconds, whatever the server still does.
PostFails ==
  /\ reviewPost.state # "idle" /\ reviewPost.heard
  /\ radar' = [radar EXCEPT !.generating = FALSE]
  /\ reviewPost' = IF reviewPost.state = "answered" THEN NoPost
                   ELSE [reviewPost EXCEPT !.heard = FALSE]
  /\ UNCHANGED <<overviews, reviews, reviewTasks, radarFetches>>

\* The browser leaves the page and comes back: every answer still to come is lost.
ReloadRadar ==
  /\ radar' = FreshRadar
  /\ radarFetches' = [s \in RadarSlots |-> NoRadarFetch]
  /\ reviewPost' = IF reviewPost.state \in {"idle", "answered"} THEN NoPost
                   ELSE [reviewPost EXCEPT !.heard = FALSE]
  /\ UNCHANGED <<overviews, reviews, reviewTasks>>

\* Another window of the workspace runs another review of the pull request.
OtherWindowReviews(p, a) ==
  /\ overviews[p].attempt # 0
  /\ QueueReview(p, a)
  /\ reviewTasks' = [reviewTasks EXCEPT ![a] = "queued"]
  /\ UNCHANGED <<radar, radarFetches, reviewPost>>

--------------------------------------------------------------------------------

RadarNext ==
  \/ \E found \in Lists, first \in PullRequests : LandList(found, first)
  \/ ListFails \/ RefreshList
  \/ \E p \in PullRequests : SelectPull(p)
  \/ \E s \in BrowserPolls : PollReview(s) \/ ReadPoll(s) \/ LandReviewPoll(s) \/ ReviewPollFails(s)
  \/ \E a \in ReviewIds : OpenReview(a)
  \/ \E s \in {SelectedSlot, SavedSlot}, delivered \in BOOLEAN : LandOverview(s, delivered)
  \/ \E refresh \in BOOLEAN : Analyze(refresh)
  \/ \E a \in ReviewIds : PostCommits(a)
  \/ PostKeeps \/ PostRefused
  \/ \E deferred \in BOOLEAN : PostDefers(deferred)
  \/ LandPost \/ PostFails \/ ReloadRadar
  \/ \E p \in PullRequests, a \in ReviewIds : OtherWindowReviews(p, a)

ReviewNext == RadarNext \/ ReviewWorkers \/ ReviewWorkerDies

PostMoves == (\E deferred \in BOOLEAN : PostDefers(deferred)) \/ LandPost \/ PostFails

\* The queue hands every job to a worker, which ends it; a POST that committed goes on to
\* defer its job; a POST or a load of the page is answered or times out; the interval
\* fires, is answered, and not every answer is lost.
ReviewFairness ==
  /\ WF_reviewVars(ReviewWorkers)
  /\ WF_reviewVars(PostMoves)
  /\ \A s \in {SelectedSlot, SavedSlot} :
       WF_reviewVars(\E delivered \in BOOLEAN : LandOverview(s, delivered))
  /\ \A s \in BrowserPolls : /\ WF_reviewVars(PollReview(s) \/ ReadPoll(s))
                             /\ SF_reviewVars(LandReviewPoll(s))

ReviewSpec == ReviewInit /\ [][ReviewNext]_reviewVars /\ ReviewFairness

--------------------------------------------------------------------------------
(* Properties *)

ReviewTypeOK ==
  /\ overviews \in [PullRequests -> [status : OverviewStatus, attempt : ReviewIdOrNull]]
  /\ reviews \in [ReviewIds -> [pull : PullOrNull, status : JobStatuses \cup {"absent"}]]
  /\ reviewTasks \in [ReviewIds -> {"none", "queued", "claimed", "done", "lost"}]
  /\ radar \in [listing : BOOLEAN, listed : SUBSET PullRequests, key : PullOrNull,
                overview : OverviewOnScreen, overviewLoading : BOOLEAN, generating : BOOLEAN]
  /\ radarFetches \in [RadarSlots -> [state : {"idle", "sent", "answered"}, pull : PullOrNull,
                                     attempt : ReviewIdOrNull, reply : OverviewOnScreen]]
  /\ reviewPost \in [state : {"idle", "sent", "deferring", "answered"}, heard : BOOLEAN,
                     pull : PullOrNull, refresh : BOOLEAN, attempt : ReviewIdOrNull,
                     reply : OverviewOnScreen]

\* The row of a pull request and its attempts are two tables that every transaction of
\* a worker updates under separate conditions.  However reviews of one pull request
\* overlap, end or fail, the row tells what its current attempt tells, and that attempt
\* is of this pull request and the newest of its attempts.
OverviewIsItsCurrentReview ==
  \A p \in PullRequests :
    LET a == overviews[p].attempt
    IN  IF a = 0 THEN overviews[p].status = "not_generated"
        ELSE /\ reviews[a] = [pull |-> p, status |-> overviews[p].status]
             /\ \A b \in ReviewIds : reviews[b].pull = p => b <= a

\* Its job was never deferred, or its worker died.
ReviewJobLost ==
  LET a == overviews[SelectedPull].attempt IN a # 0 /\ reviewTasks[a] = "lost"

\* "Analyzing PR...": everything that would start or open a review is disabled.
ShowsReviewInProgress == SelectedPull # NoPull /\ isWorking

\* "generating" was set for a POST and is cleared by polls only: the review ended where
\* none saw it end, and there is nothing under way that could clear it.
GeneratingForgotten ==
  /\ radar.generating /\ radar.overview \notin Working
  /\ ~ reviewPost.heard
  /\ \A s \in RadarSlots : radarFetches[s].state = "idle"

\* A page that shows a review in progress, of the selected pull request or left over
\* from another one, comes to show one that has ended, unless its job was lost or
\* "generating" was left set.
ReviewProgressEnds ==
  ShowsReviewInProgress ~>
    (~ ShowsReviewInProgress \/ ReviewJobLost \/ GeneratingForgotten)

\* What the page says while it shows one ("Analyzing the pull request", "Reading the
\* diff, checks, commits, and discussion.  You can safely leave."): that a review goes on,
\* which therefore ends.
AnalysisEnds == ShowsReviewInProgress ~> (~ ShowsReviewInProgress \/ ReviewJobLost)

================================================================================
