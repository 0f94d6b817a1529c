------------------------ MODULE IntelligencePagesProofs -------------------------
(***************************************************************************)
(* The pull request radar, the briefing page and the chat, each over its   *)
(* own rows and jobs: they share the bounds of Browser and nothing else.   *)
(***************************************************************************)
EXTENDS PullRequestPage, BriefPage, AskDelta, TLAPS

--------------------------------------------------------------------------------
(***************************************************************************)
(* PullRequestPage for any pull requests, lists, number of reviews and     *)
(* polls: a review is of the pull request it was asked for, and only the   *)
(* worker of a review moves it, so that the row of a pull request and its  *)
(* current review are moved together.                                      *)
(***************************************************************************)

\* Attempts are used in order, and are of a pull request from then on.
ReviewsFormAPrefix ==
  /\ \A a \in ReviewIds : reviews[a].status = "absent" <=> reviews[a].pull = NoPull
  /\ \A a, b \in ReviewIds : a < b /\ reviews[b].status # "absent" => reviews[a].status # "absent"

--------------------------------------------------------------------------------
(* The invariant *)

\* The two tables.
RowsInv ==
  /\ overviews \in [PullRequests -> [status : OverviewStatus, attempt : ReviewIdOrNull]]
  /\ reviews \in [ReviewIds -> [pull : PullOrNull, status : JobStatuses \cup {"absent"}]]
  /\ ReviewsFormAPrefix
  /\ OverviewIsItsCurrentReview

\* Jobs are of attempts.
JobsInv ==
  /\ reviewTasks \in [ReviewIds -> {"none", "queued", "claimed", "done", "lost"}]
  /\ \A a \in ReviewIds : reviewTasks[a] # "none" => reviews[a].status # "absent"

RadarRecord ==
  [listing : BOOLEAN, listed : SUBSET PullRequests, key : PullOrNull,
   overview : OverviewOnScreen, overviewLoading : BOOLEAN, generating : BOOLEAN]

FetchRecord ==
  [state : {"idle", "sent", "answered"}, pull : PullOrNull, attempt : ReviewIdOrNull,
   reply : OverviewOnScreen]

PostStates == {"idle", "sent", "deferring", "answered"}

PostRecord ==
  [state : PostStates, heard : BOOLEAN, pull : PullOrNull, refresh : BOOLEAN,
   attempt : ReviewIdOrNull, reply : OverviewOnScreen]

\* GETs that are well-formed and about a pull request.
FetchesOK(fetches) ==
  /\ fetches \in [RadarSlots -> FetchRecord]
  /\ \A s \in RadarSlots : fetches[s].state = "sent" => fetches[s].pull \in PullRequests

\* A POST that is well-formed, about a pull request and, when it defers, an attempt.
PostOK(post) ==
  /\ post \in PostRecord
  /\ post.state = "sent" => post.pull \in PullRequests
  /\ post.state = "deferring" =>
       post.attempt \in ReviewIds /\ reviews[post.attempt].status # "absent"

ReviewInv ==
  /\ RowsInv
  /\ JobsInv
  /\ radar \in RadarRecord
  /\ FetchesOK(radarFetches)
  /\ PostOK(reviewPost)

LEMMA ReviewInvGivesTypeOK == ReviewInv => ReviewTypeOK
BY DEF ReviewInv, ReviewTypeOK, RowsInv, JobsInv, RadarRecord, FetchesOK, FetchRecord, PostOK,
       PostRecord, PostStates

--------------------------------------------------------------------------------
(* The rows *)

\* The current review of a pull request, if it has one.
LEMMA CurrentReview ==
  ASSUME RowsInv, NEW p \in PullRequests
  PROVE  /\ overviews[p].attempt \in ReviewIdOrNull
         /\ overviews[p].attempt = 0 => overviews[p].status = "not_generated"
         /\ overviews[p].attempt # 0 =>
              /\ overviews[p].attempt \in ReviewIds
              /\ reviews[overviews[p].attempt] = [pull |-> p, status |-> overviews[p].status]
              /\ \A b \in ReviewIds : reviews[b].pull = p => b <= overviews[p].attempt
<1>1. overviews[p].attempt \in ReviewIdOrNull
  BY DEF RowsInv
<1>2. overviews[p].attempt # 0 => overviews[p].attempt \in ReviewIds
  BY <1>1, PullRequestAssumption DEF ReviewIdOrNull, ReviewIds
<1>3. QED
  BY <1>1, <1>2 DEF RowsInv, OverviewIsItsCurrentReview

\* A new attempt becomes the current one of its pull request, as queue_overview writes
\* both tables.
LEMMA QueueReviewKeepsRows ==
  ASSUME RowsInv, NEW p \in PullRequests, NEW a \in ReviewIds, QueueReview(p, a)
  PROVE  /\ RowsInv'
         /\ reviews'[a].status # "absent"
         /\ \A b \in ReviewIds : reviews[b].status # "absent" => reviews'[b].status # "absent"
<1>1. \A q \in PullRequests : overviews[q].attempt # 0 =>
        /\ overviews[q].attempt \in ReviewIds
        /\ reviews[overviews[q].attempt] = [pull |-> q, status |-> overviews[q].status]
        /\ reviews[overviews[q].attempt].pull = q
        /\ \A b \in ReviewIds : reviews[b].pull = q => b <= overviews[q].attempt
  BY CurrentReview
<1> USE PullRequestAssumption DEF RowsInv, ReviewIds, ReviewIdOrNull
<1>2. reviews' = [reviews EXCEPT ![a] = [pull |-> p, status |-> "queued"]]
  BY DEF QueueReview
<1>3. overviews' = [overviews EXCEPT ![p] = [status |-> "queued", attempt |-> a]]
  BY DEF QueueReview
<1>4. \A b \in ReviewIds : b < a => reviews[b].status # "absent"
  BY DEF QueueReview
<1>5. \A b \in ReviewIds : b >= a => reviews[b].status = "absent" /\ reviews[b].pull = NoPull
  BY DEF QueueReview, ReviewsFormAPrefix
<1>6. /\ overviews' \in [PullRequests -> [status : OverviewStatus, attempt : ReviewIdOrNull]]
      /\ reviews' \in [ReviewIds -> [pull : PullOrNull, status : JobStatuses \cup {"absent"}]]
  BY <1>2, <1>3 DEF OverviewStatus, JobStatuses, PullOrNull
<1>7. ReviewsFormAPrefix'
  BY <1>2, <1>4, <1>5 DEF ReviewsFormAPrefix
<1>8. OverviewIsItsCurrentReview'
  <2> SUFFICES ASSUME NEW q \in PullRequests
               PROVE  LET c == overviews'[q].attempt
                      IN  IF c = 0 THEN overviews'[q].status = "not_generated"
                          ELSE /\ reviews'[c] = [pull |-> q, status |-> overviews'[q].status]
                               /\ \A b \in ReviewIds : reviews'[b].pull = q => b <= c
    BY DEF OverviewIsItsCurrentReview
  <2>1. CASE q = p
    BY <2>1, <1>2, <1>3, <1>5
  <2>2. CASE q # p
    <3>1. overviews'[q] = overviews[q]
      BY <2>2, <1>3
    <3>2. \A b \in ReviewIds : reviews'[b].pull = q => reviews[b].pull = q
      BY <2>2, <1>2
    <3>3. overviews[q].attempt # 0 => /\ overviews[q].attempt \in ReviewIds
                                      /\ reviews[overviews[q].attempt].pull = q
      BY ONLY <1>1, Zenon
    <3>4. overviews[q].attempt # a
      BY <3>3, <1>5
    <3>5. overviews[q].attempt # 0 => reviews'[overviews[q].attempt] = reviews[overviews[q].attempt]
      BY <3>3, <3>4, <1>2
    <3>6. QED
      BY <3>1, <3>2, <3>3, <3>5 DEF OverviewIsItsCurrentReview
  <2>3. QED
    BY <2>1, <2>2
<1>9. QED
  BY <1>2, <1>6, <1>7, <1>8

\* A worker moves its attempt to a status, and the row with it if the attempt is the
\* current one and the two agree on whether it is moved.
LEMMA MovingKeepsRows ==
  ASSUME RowsInv, NEW a \in ReviewIds, reviews[a].status # "absent",
         NEW from, NEW status \in JobStatuses,
         overviews' = OverviewAfter(a, from, status),
         reviews' = [reviews EXCEPT ![a].status = IF @ \in from THEN status ELSE @]
  PROVE  /\ RowsInv'
         /\ \A b \in ReviewIds : reviews'[b].status = "absent" <=> reviews[b].status = "absent"
<1>1. \A q \in PullRequests : overviews[q].attempt # 0 =>
        /\ overviews[q].attempt \in ReviewIds
        /\ reviews[overviews[q].attempt] = [pull |-> q, status |-> overviews[q].status]
        /\ reviews[overviews[q].attempt].pull = q
        /\ \A b \in ReviewIds : reviews[b].pull = q => b <= overviews[q].attempt
  BY CurrentReview
<1> USE PullRequestAssumption DEF RowsInv, ReviewIds, ReviewIdOrNull
<1> DEFINE p == reviews[a].pull
<1>2. a # 0
  OBVIOUS
<1>3. p \in PullRequests
  BY DEF ReviewsFormAPrefix, PullOrNull
<1>4. /\ \A b \in ReviewIds : b # a => reviews'[b] = reviews[b]
      /\ reviews'[a].pull = p
      /\ reviews'[a].status = IF reviews[a].status \in from THEN status ELSE reviews[a].status
  OBVIOUS
<1>5. \A q \in PullRequests :
        overviews'[q] = IF q = p /\ overviews[p].attempt = a /\ overviews[p].status \in from
                        THEN [overviews[p] EXCEPT !.status = status] ELSE overviews[q]
  BY <1>3 DEF OverviewAfter
<1>6. /\ overviews' \in [PullRequests -> [status : OverviewStatus, attempt : ReviewIdOrNull]]
      /\ reviews' \in [ReviewIds -> [pull : PullOrNull, status : JobStatuses \cup {"absent"}]]
  BY <1>3 DEF OverviewAfter, OverviewStatus, JobStatuses
<1>7. \A b \in ReviewIds : /\ reviews'[b].pull = reviews[b].pull
                           /\ reviews'[b].status = "absent" <=> reviews[b].status = "absent"
  BY <1>4 DEF JobStatuses
<1>8. ReviewsFormAPrefix'
  BY <1>7 DEF ReviewsFormAPrefix
<1>9. OverviewIsItsCurrentReview'
  <2> SUFFICES ASSUME NEW q \in PullRequests
               PROVE  LET c == overviews'[q].attempt
                      IN  IF c = 0 THEN overviews'[q].status = "not_generated"
                          ELSE /\ reviews'[c] = [pull |-> q, status |-> overviews'[q].status]
                               /\ \A b \in ReviewIds : reviews'[b].pull = q => b <= c
    BY DEF OverviewIsItsCurrentReview
  <2>1. overviews'[q].attempt = overviews[q].attempt
    BY <1>3, <1>5
  <2>2. CASE overviews[q].attempt = a
    <3>1. q = p /\ reviews[a] = [pull |-> q, status |-> overviews[q].status]
      BY ONLY <2>2, <1>1, a \in ReviewIds, <1>2
    <3>2. reviews'[a] = [pull |-> q, status |-> overviews'[q].status]
      BY <3>1, <2>2, <1>3, <1>5, <1>6
    <3>3. \A b \in ReviewIds : reviews[b].pull = q => b <= a
      BY ONLY <2>2, <1>1, <1>2, Zenon
    <3>4. \A b \in ReviewIds : reviews'[b].pull = q => b <= a
      BY ONLY <3>3, <1>7, Zenon
    <3>5. QED
      BY <3>2, <3>4, <2>1, <2>2
  <2>3. CASE overviews[q].attempt # a
    <3>1. overviews'[q] = overviews[q]
      BY <2>3, <1>5
    <3>2. QED
      BY <3>1, <2>3, <1>4, <1>7, <1>1 DEF OverviewIsItsCurrentReview
  <2>4. QED
    BY <2>2, <2>3
<1>10. QED
  BY <1>6, <1>7, <1>8, <1>9

--------------------------------------------------------------------------------
(* The requests *)

LEMMA NoFetchIsARecord == NoRadarFetch \in FetchRecord
BY PullRequestAssumption
   DEF NoRadarFetch, FetchRecord, PullOrNull, ReviewIdOrNull, OverviewOnScreen

\* One GET is replaced by one of a pull request, or by none.
LEMMA OneFetchReplaced ==
  ASSUME NEW fetches, FetchesOK(fetches), NEW s \in RadarSlots, NEW f \in FetchRecord,
         f.state = "sent" => f.pull \in PullRequests
  PROVE  FetchesOK([fetches EXCEPT ![s] = f])
BY DEF FetchesOK

LEMMA FetchIsCleared ==
  ASSUME NEW fetches, FetchesOK(fetches), NEW s \in RadarSlots
  PROVE  FetchesOK([fetches EXCEPT ![s] = NoRadarFetch])
<1>1. NoRadarFetch.state # "sent"
  BY DEF NoRadarFetch
<1>2. QED
  BY <1>1, NoFetchIsARecord, OneFetchReplaced

LEMMA FetchIsSent ==
  ASSUME NEW fetches, FetchesOK(fetches), NEW s \in RadarSlots, NEW p \in PullRequests,
         NEW a \in ReviewIdOrNull
  PROVE  FetchesOK([fetches EXCEPT
           ![s] = [NoRadarFetch EXCEPT !.state = "sent", !.pull = p, !.attempt = a]])
<1> DEFINE f == [NoRadarFetch EXCEPT !.state = "sent", !.pull = p, !.attempt = a]
<1>1. f \in FetchRecord /\ f.pull = p
  BY NoFetchIsARecord DEF FetchRecord, NoRadarFetch, PullOrNull
<1> HIDE DEF f
<1>2. FetchesOK([fetches EXCEPT ![s] = f])
  BY <1>1, OneFetchReplaced
<1>3. QED
  BY <1>2 DEF f

\* A GET of an overview: NoRadarFetch names no attempt.
LEMMA OverviewFetchIsSent ==
  ASSUME NEW fetches, FetchesOK(fetches), NEW s \in RadarSlots, NEW p \in PullRequests
  PROVE  FetchesOK([fetches EXCEPT
           ![s] = [NoRadarFetch EXCEPT !.state = "sent", !.pull = p]])
<1> DEFINE f == [NoRadarFetch EXCEPT !.state = "sent", !.pull = p]
<1>1. f \in FetchRecord /\ f.pull = p
  BY NoFetchIsARecord DEF FetchRecord, NoRadarFetch, PullOrNull
<1> HIDE DEF f
<1>2. FetchesOK([fetches EXCEPT ![s] = f])
  BY <1>1, OneFetchReplaced
<1>3. QED
  BY <1>2 DEF f

LEMMA ReselectingKeepsFetches ==
  ASSUME NEW fetches, FetchesOK(fetches), NEW p \in PullOrNull
  PROVE  FetchesOK(Reselected(fetches, p))
<1>1. SelectedSlot \in RadarSlots
  BY DEF RadarSlots
<1>2. CASE p = NoPull
  BY <1>1, <1>2, FetchIsCleared DEF Reselected
<1>3. CASE p # NoPull
  <2>1. p \in PullRequests
    BY <1>3 DEF PullOrNull
  <2>2. QED
    BY <1>1, <1>3, <2>1, OverviewFetchIsSent DEF Reselected
<1>4. QED
  BY <1>2, <1>3

LEMMA ReplacingKeepsFetches ==
  ASSUME NEW fetches, FetchesOK(fetches), NEW p \in PullOrNull
  PROVE  FetchesOK(Replaced(fetches, p))
BY ReselectingKeepsFetches DEF Replaced

\* A request is answered with a status of its pull request, or an error.
LEMMA ReadsAreStatuses ==
  ASSUME ReviewInv, NEW s \in RadarSlots, radarFetches[s].state = "sent"
  PROVE  OverviewRead(radarFetches[s]) \in OverviewOnScreen
<1> DEFINE f == radarFetches[s]
<1>1. f.pull \in PullRequests /\ f.attempt \in ReviewIdOrNull
  BY DEF ReviewInv, FetchesOK, FetchRecord
<1>2. CASE f.attempt = 0
  BY <1>1, <1>2 DEF OverviewRead, OverviewOnScreen, ReviewInv, RowsInv
<1>3. CASE f.attempt # 0
  <2>1. f.attempt \in ReviewIds
    BY <1>1, <1>3, PullRequestAssumption DEF ReviewIds, ReviewIdOrNull
  <2>2. f.pull # NoPull
    BY <1>1, PullRequestAssumption
  <2>3. reviews[f.attempt].pull = f.pull => reviews[f.attempt].status \in JobStatuses
    BY <2>1, <2>2 DEF ReviewInv, RowsInv, ReviewsFormAPrefix
  <2>4. QED
    BY <1>3, <2>3 DEF OverviewRead, OverviewOnScreen, OverviewStatus
<1>4. QED
  BY <1>2, <1>3

\* The POST is answered, and forgets its attempt.
LEMMA AnswerIsAPost ==
  ASSUME ReviewInv, NEW reply \in OverviewOnScreen
  PROVE  /\ PostAnswered(reply) \in PostRecord
         /\ PostAnswered(reply).state \in {"idle", "answered"}
<1>1. reviewPost.pull \in PullOrNull
  BY DEF ReviewInv, PostOK, PostRecord
<1>2. "null" \in OverviewOnScreen /\ NoPull \in PullOrNull /\ 0 \in ReviewIdOrNull
  BY PullRequestAssumption DEF OverviewOnScreen, PullOrNull, ReviewIdOrNull
<1>3. CASE reviewPost.heard
  <2>1. PostAnswered(reply) =
          [state |-> "answered", heard |-> TRUE, pull |-> reviewPost.pull, refresh |-> FALSE,
           attempt |-> 0, reply |-> reply]
    BY <1>3 DEF PostAnswered, NoPost
  <2>2. QED
    BY <1>1, <1>2, <2>1 DEF PostStates, PostRecord
<1>4. CASE ~ reviewPost.heard
  <2>1. PostAnswered(reply) = NoPost
    BY <1>4 DEF PostAnswered
  <2>2. QED
    BY <1>2, <2>1 DEF PostStates, PostRecord, NoPost
<1>5. QED
  BY <1>3, <1>4

--------------------------------------------------------------------------------
(* The steps *)

LEMMA ReviewInitGivesInv == ReviewInit => ReviewInv
<1> SUFFICES ASSUME ReviewInit PROVE ReviewInv
  OBVIOUS
<1> USE PullRequestAssumption DEF ReviewInit
<1>1. RowsInv
  BY DEF RowsInv, ReviewsFormAPrefix, OverviewIsItsCurrentReview, NoReview, OverviewStatus,
         ReviewIdOrNull, ReviewIds, PullOrNull
<1>2. JobsInv
  BY DEF JobsInv
<1>3. radar \in RadarRecord
  BY DEF RadarRecord, FreshRadar, PullOrNull, OverviewOnScreen
<1>4. FetchesOK(radarFetches)
  <2>1. NoRadarFetch.state # "sent"
    BY DEF NoRadarFetch
  <2>2. QED
    BY <2>1, NoFetchIsARecord DEF FetchesOK
<1>5. PostOK(reviewPost)
  BY DEF PostOK, PostRecord, NoPost, PostStates, PullOrNull, ReviewIdOrNull, OverviewOnScreen
<1>6. QED
  BY <1>1, <1>2, <1>3, <1>4, <1>5 DEF ReviewInv

\* A step of the page alone.
LEMMA PageStepKeepsInv ==
  ASSUME ReviewInv, UNCHANGED <<overviews, reviews, reviewTasks>>,
         radar' \in RadarRecord, FetchesOK(radarFetches'),
         reviewPost' \in PostRecord,
         reviewPost'.state = "sent" => reviewPost'.pull \in PullRequests,
         reviewPost'.state = "deferring" =>
           /\ reviewPost.state = "deferring"
           /\ reviewPost'.attempt = reviewPost.attempt
  PROVE  ReviewInv'
<1>1. RowsInv'
  BY DEF ReviewInv, RowsInv, ReviewsFormAPrefix, OverviewIsItsCurrentReview
<1>2. FetchesOK(radarFetches)'
  BY DEF FetchesOK
<1>3. PostOK(reviewPost)'
  BY DEF ReviewInv, PostOK
<1>4. QED
  BY <1>1, <1>2, <1>3 DEF ReviewInv, JobsInv

\* A step that leaves the requests alone, apart from what their rows do.
LEMMA RowStepKeepsInv ==
  ASSUME ReviewInv, RowsInv',
         \A b \in ReviewIds : reviews[b].status # "absent" => reviews'[b].status # "absent",
         reviewTasks' \in [ReviewIds -> {"none", "queued", "claimed", "done", "lost"}],
         \A b \in ReviewIds : reviewTasks'[b] # "none" => reviews'[b].status # "absent",
         UNCHANGED <<radar, radarFetches, reviewPost>>
  PROVE  ReviewInv'
<1>1. FetchesOK(radarFetches)'
  BY DEF ReviewInv, FetchesOK
<1>2. PostOK(reviewPost)'
  BY DEF ReviewInv, PostOK
<1>3. QED
  BY <1>1, <1>2 DEF ReviewInv, JobsInv

LEMMA WorkersKeepInv ==
  ASSUME ReviewInv, NEW a \in ReviewIds,
         ClaimReview(a) \/ CompleteReview(a) \/ FailReview(a) \/ ReviewerDies(a),
         UNCHANGED <<radar, radarFetches, reviewPost>>
  PROVE  ReviewInv'
<1>1. RowsInv /\ JobsInv
  BY DEF ReviewInv
<1>2. reviewTasks[a] # "none" /\ reviews[a].status # "absent"
  BY <1>1 DEF JobsInv, ClaimReview, CompleteReview, FailReview, ReviewerDies
<1>3. reviews[a].pull \in PullRequests /\ reviews[a].status \in JobStatuses
  BY <1>1, <1>2 DEF RowsInv, ReviewsFormAPrefix, PullOrNull
<1>4. overviews[reviews[a].pull].attempt = a =>
        overviews[reviews[a].pull].status = reviews[a].status
  <2>1. a # 0
    BY PullRequestAssumption DEF ReviewIds
  <2> DEFINE p == reviews[a].pull
  <2>2. overviews[p].attempt # 0 =>
          reviews[overviews[p].attempt] = [pull |-> p, status |-> overviews[p].status]
    BY <1>1, <1>3, CurrentReview
  <2>3. QED
    BY <2>1, <2>2
<1>5. /\ RowsInv'
      /\ \A b \in ReviewIds : reviews[b].status # "absent" => reviews'[b].status # "absent"
  <2>1. CASE ClaimReview(a)
    <3> DEFINE from == {"queued", "running"}
    <3>1. reviews' = [reviews EXCEPT ![a].status = IF @ \in from THEN "running" ELSE @]
      BY <2>1, <1>1 DEF ClaimReview, RowsInv
    <3>2. overviews' = OverviewAfter(a, from, "running")
      BY <2>1, <1>3, <1>4 DEF ClaimReview, OverviewAfter, OverviewStatus
    <3>3. "running" \in JobStatuses
      BY DEF JobStatuses
    <3> HIDE DEF from
    <3>4. QED
      BY <1>1, <1>2, <3>1, <3>2, <3>3, MovingKeepsRows
  <2>2. CASE CompleteReview(a)
    <3> DEFINE from == {"running"}
    <3>1. reviews' = [reviews EXCEPT ![a].status = IF @ \in from THEN "ready" ELSE @]
      BY <2>2, <1>1 DEF CompleteReview, RowsInv
    <3>2. overviews' = OverviewAfter(a, from, "ready")
      BY <2>2 DEF CompleteReview, CompletedOverview
    <3>3. "ready" \in JobStatuses
      BY DEF JobStatuses
    <3> HIDE DEF from
    <3>4. QED
      BY <1>1, <1>2, <3>1, <3>2, <3>3, MovingKeepsRows
  <2>3. CASE FailReview(a)
    <3>1. reviews' = [reviews EXCEPT ![a].status = IF @ \in OverviewStatus THEN "failed" ELSE @]
      BY <2>3, <1>1, <1>3 DEF FailReview, RowsInv, OverviewStatus
    <3>2. overviews' = OverviewAfter(a, OverviewStatus, "failed")
      BY <2>3 DEF FailReview
    <3>3. "failed" \in JobStatuses
      BY DEF JobStatuses
    <3>4. QED
      BY <1>1, <1>2, <3>1, <3>2, <3>3, MovingKeepsRows
  <2>4. CASE ReviewerDies(a)
    BY <2>4, <1>1 DEF ReviewerDies, RowsInv, ReviewsFormAPrefix, OverviewIsItsCurrentReview
  <2>5. QED
    BY <2>1, <2>2, <2>3, <2>4
<1>6. /\ reviewTasks' \in [ReviewIds -> {"none", "queued", "claimed", "done", "lost"}]
      /\ \A b \in ReviewIds : reviewTasks'[b] # "none" => reviewTasks[b] # "none"
  BY <1>1, <1>2 DEF JobsInv, ClaimReview, CompleteReview, FailReview, ReviewerDies
<1>7. \A b \in ReviewIds : reviewTasks'[b] # "none" => reviews'[b].status # "absent"
  BY <1>1, <1>5, <1>6 DEF JobsInv
<1>8. QED
  BY <1>5, <1>6, <1>7, RowStepKeepsInv

\* queue_overview, by the POST of the page and by another window.
LEMMA PostCommitsKeepsInv ==
  ASSUME ReviewInv, NEW a \in ReviewIds, PostCommits(a)
  PROVE  ReviewInv'
<1> DEFINE p == reviewPost.pull
<1>1. RowsInv /\ JobsInv /\ PostOK(reviewPost) /\ p \in PullRequests
  BY DEF ReviewInv, PostOK, PostCommits
<1>2. /\ RowsInv'
      /\ reviews'[a].status # "absent"
      /\ \A b \in ReviewIds : reviews[b].status # "absent" => reviews'[b].status # "absent"
  BY <1>1, QueueReviewKeepsRows DEF PostCommits
<1>3. JobsInv'
  BY <1>1, <1>2 DEF PostCommits, JobsInv
<1>4. /\ reviewPost' \in PostRecord
      /\ reviewPost'.state = "deferring" /\ reviewPost'.attempt = a
  <2>1. reviewPost \in PostRecord /\ a \in ReviewIdOrNull
    BY <1>1, PullRequestAssumption DEF PostOK, ReviewIds, ReviewIdOrNull
  <2>2. reviewPost' = [reviewPost EXCEPT !.state = "deferring", !.refresh = FALSE, !.attempt = a]
    BY DEF PostCommits
  <2>3. QED
    BY <2>1, <2>2 DEF PostRecord, PostStates
<1>5. PostOK(reviewPost)'
  BY <1>2, <1>4 DEF PostOK
<1>6. FetchesOK(radarFetches)' /\ radar' \in RadarRecord
  BY DEF PostCommits, ReviewInv, FetchesOK
<1>7. QED
  BY <1>2, <1>3, <1>5, <1>6 DEF ReviewInv

LEMMA OtherWindowReviewsKeepsInv ==
  ASSUME ReviewInv, NEW p \in PullRequests, NEW a \in ReviewIds, OtherWindowReviews(p, a)
  PROVE  ReviewInv'
<1>1. RowsInv /\ JobsInv
  BY DEF ReviewInv
<1>2. /\ RowsInv'
      /\ reviews'[a].status # "absent"
      /\ \A b \in ReviewIds : reviews[b].status # "absent" => reviews'[b].status # "absent"
  BY <1>1, QueueReviewKeepsRows DEF OtherWindowReviews
<1>3. /\ reviewTasks' \in [ReviewIds -> {"none", "queued", "claimed", "done", "lost"}]
      /\ \A b \in ReviewIds : reviewTasks'[b] # "none" => b = a \/ reviewTasks[b] # "none"
  BY <1>1 DEF JobsInv, OtherWindowReviews
<1>4. \A b \in ReviewIds : reviewTasks'[b] # "none" => reviews'[b].status # "absent"
  BY <1>1, <1>2, <1>3 DEF JobsInv
<1>5. QED
  BY <1>2, <1>3, <1>4, RowStepKeepsInv DEF OtherWindowReviews

\* The job is deferred, for the attempt that the POST committed.
LEMMA PostDefersKeepsInv ==
  ASSUME ReviewInv, NEW deferred \in BOOLEAN, PostDefers(deferred)
  PROVE  ReviewInv'
<1> DEFINE a == reviewPost.attempt
<1>1. /\ RowsInv /\ JobsInv
      /\ a \in ReviewIds /\ reviews[a].status # "absent"
  BY DEF ReviewInv, PostOK, PostDefers
<1>2. RowsInv'
  BY <1>1 DEF PostDefers, RowsInv, ReviewsFormAPrefix, OverviewIsItsCurrentReview
<1>3. JobsInv'
  BY <1>1 DEF PostDefers, JobsInv
<1>4. (IF deferred THEN "queued" ELSE "null") \in OverviewOnScreen
  BY DEF OverviewOnScreen, OverviewStatus, JobStatuses
<1>5. PostOK(reviewPost)'
  BY <1>4, AnswerIsAPost DEF PostDefers, PostOK
<1>6. FetchesOK(radarFetches)' /\ radar' \in RadarRecord
  BY DEF PostDefers, ReviewInv, FetchesOK
<1>7. QED
  BY <1>2, <1>3, <1>5, <1>6 DEF ReviewInv

\* The page after an answer, an error or a click.
LEMMA PageKeepsInv ==
  ASSUME ReviewInv,
         \/ \E found \in Lists, first \in PullRequests : LandList(found, first)
         \/ ListFails \/ RefreshList
         \/ \E p \in PullRequests : SelectPull(p)
         \/ \E s \in BrowserPolls :
              PollReview(s) \/ ReadPoll(s) \/ LandReviewPoll(s) \/ ReviewPollFails(s)
         \/ \E a \in ReviewIds : OpenReview(a)
         \/ \E s \in {SelectedSlot, SavedSlot}, delivered \in BOOLEAN : LandOverview(s, delivered)
  PROVE  ReviewInv'
<1>1. /\ radar \in RadarRecord
      /\ FetchesOK(radarFetches)
      /\ reviewPost \in PostRecord
      /\ reviewPost.state = "sent" => reviewPost.pull \in PullRequests
  BY DEF ReviewInv, PostOK
<1>2. /\ SelectedPull \in PullOrNull
      /\ NoPull \in PullOrNull
      /\ "null" \in OverviewOnScreen
      /\ \A p \in PullRequests : p \in PullOrNull
      /\ \A a \in ReviewIds : a \in ReviewIdOrNull
      /\ \A p \in PullOrNull : p # NoPull => p \in PullRequests
  BY <1>1, PullRequestAssumption
     DEF SelectedPull, RadarRecord, PullOrNull, OverviewOnScreen, ReviewIds, ReviewIdOrNull
<1>3. \A s \in BrowserPolls : s \in RadarSlots
  BY DEF RadarSlots
<1>4. \A loading \in BOOLEAN, p \in PullOrNull :
        AbortedLoading(loading) \in BOOLEAN /\ LoadingAfter(p) \in BOOLEAN
  BY <1>1 DEF AbortedLoading, LoadingAfter, RadarRecord
<1>5. ASSUME UNCHANGED <<overviews, reviews, reviewTasks, reviewPost>>,
             radar' \in RadarRecord, FetchesOK(radarFetches')
      PROVE  ReviewInv'
  BY <1>1, <1>5, PageStepKeepsInv
<1>6. ASSUME NEW found \in Lists, NEW first \in PullRequests, LandList(found, first)
      PROVE  ReviewInv'
  <2>1. KeyAmong(found, first) \in PullOrNull /\ found \in SUBSET PullRequests
    BY <1>1, <1>2, PullRequestAssumption DEF KeyAmong, RadarRecord
  <2>2. radar' \in RadarRecord
    BY <1>1, <1>4, <1>6, <2>1 DEF LandList, RadarRecord, AbortedLoading
  <2>3. FetchesOK(radarFetches')
    BY <1>1, <1>6, <2>1, ReselectingKeepsFetches DEF LandList
  <2>4. QED
    BY <1>5, <1>6, <2>2, <2>3 DEF LandList
<1>7. CASE ListFails \/ RefreshList
  <2>1. radar' \in RadarRecord
    BY <1>1, <1>7 DEF ListFails, RefreshList, RadarRecord
  <2>2. FetchesOK(radarFetches')
    BY <1>1, <1>7 DEF ListFails, RefreshList
  <2>3. QED
    BY <1>5, <1>7, <2>1, <2>2 DEF ListFails, RefreshList
<1>8. ASSUME NEW p \in PullRequests, SelectPull(p)
      PROVE  ReviewInv'
  <2>1. radar' \in RadarRecord
    BY <1>1, <1>2, <1>8 DEF SelectPull, RadarRecord, AbortedLoading
  <2>2. FetchesOK(radarFetches')
    BY <1>1, <1>2, <1>8, ReselectingKeepsFetches DEF SelectPull
  <2>3. QED
    BY <1>5, <1>8, <2>1, <2>2 DEF SelectPull
<1>9. ASSUME NEW s \in BrowserPolls, PollReview(s)
      PROVE  ReviewInv'
  <2>1. SelectedPull \in PullRequests
    BY <1>2, <1>9 DEF PollReview, PollsReview
  <2>2. FetchesOK(radarFetches')
    BY <1>1, <1>3, <1>9, <2>1, OverviewFetchIsSent DEF PollReview
  <2>3. QED
    BY <1>1, <1>5, <1>9, <2>2 DEF PollReview
<1>10. ASSUME NEW s \in BrowserPolls, ReadPoll(s)
       PROVE  ReviewInv'
  <2>1. s \in RadarSlots /\ radarFetches[s].state = "sent"
    BY <1>3, <1>10 DEF ReadPoll
  <2>2. OverviewRead(radarFetches[s]) \in OverviewOnScreen
    BY <2>1, ReadsAreStatuses
  <2>3. FetchesOK(radarFetches')
    <3> DEFINE f == [radarFetches[s] EXCEPT !.state = "answered", !.attempt = 0,
                                           !.reply = OverviewRead(radarFetches[s])]
    <3>1. radarFetches[s] \in FetchRecord /\ 0 \in ReviewIdOrNull
      BY <1>1, <2>1, PullRequestAssumption DEF FetchesOK, ReviewIdOrNull
    <3>2. f \in FetchRecord /\ f.state # "sent"
      BY <2>2, <3>1 DEF FetchRecord
    <3>3. radarFetches' = [radarFetches EXCEPT ![s] = f]
      BY <1>1, <1>10, <2>1 DEF ReadPoll, FetchesOK
    <3> HIDE DEF f
    <3>4. QED
      BY <1>1, <2>1, <3>2, <3>3, OneFetchReplaced
  <2>4. QED
    BY <1>1, <1>5, <1>10, <2>3 DEF ReadPoll
<1>11. ASSUME NEW s \in BrowserPolls, LandReviewPoll(s)
       PROVE  ReviewInv'
  <2> DEFINE f == radarFetches[s]
  <2>1. f \in FetchRecord
    BY <1>1, <1>3 DEF FetchesOK
  <2>2. f.pull \in PullOrNull /\ f.reply \in OverviewOnScreen
    BY <2>1 DEF FetchRecord
  <2>3. radar' \in RadarRecord
    BY <1>1, <1>4, <1>11, <2>2 DEF LandReviewPoll, RadarRecord
  <2>4. FetchesOK(Replaced(radarFetches, f.pull))
    BY <1>1, <2>2, ReplacingKeepsFetches
  <2>5. FetchesOK(radarFetches')
    BY <1>3, <1>11, <2>4, FetchIsCleared DEF LandReviewPoll
  <2>6. QED
    BY <1>5, <1>11, <2>3, <2>5 DEF LandReviewPoll
<1>12. ASSUME NEW s \in BrowserPolls, ReviewPollFails(s)
       PROVE  ReviewInv'
  <2>1. radar' \in RadarRecord
    BY <1>1, <1>12 DEF ReviewPollFails, RadarRecord
  <2>2. FetchesOK(radarFetches')
    BY <1>1, <1>3, <1>12, FetchIsCleared DEF ReviewPollFails
  <2>3. QED
    BY <1>5, <1>12, <2>1, <2>2 DEF ReviewPollFails
<1>13. ASSUME NEW a \in ReviewIds, OpenReview(a)
       PROVE  ReviewInv'
  <2>1. SelectedPull \in PullRequests /\ SavedSlot \in RadarSlots
    BY <1>2, <1>13 DEF OpenReview, RadarSlots
  <2>2. FetchesOK(radarFetches')
    BY <1>1, <1>2, <1>13, <2>1, FetchIsSent DEF OpenReview
  <2>3. radar' \in RadarRecord
    BY <1>1, <1>13 DEF OpenReview, RadarRecord
  <2>4. QED
    BY <1>5, <1>13, <2>2, <2>3 DEF OpenReview
<1>14. ASSUME NEW s \in {SelectedSlot, SavedSlot}, NEW delivered \in BOOLEAN,
              LandOverview(s, delivered)
       PROVE  ReviewInv'
  <2>1. s \in RadarSlots /\ radarFetches[s].state = "sent"
    BY <1>14 DEF RadarSlots, LandOverview
  <2>2. OverviewRead(radarFetches[s]) \in OverviewOnScreen
    BY <2>1, ReadsAreStatuses
  <2>3. radar' \in RadarRecord
    BY <1>1, <1>14, <2>2 DEF LandOverview, RadarRecord
  <2>4. FetchesOK(radarFetches')
    BY <1>1, <1>14, <2>1, FetchIsCleared DEF LandOverview
  <2>5. QED
    BY <1>5, <1>14, <2>3, <2>4 DEF LandOverview
<1>15. QED
  BY <1>6, <1>7, <1>8, <1>9, <1>10, <1>11, <1>12, <1>13, <1>14

\* The page and its POST.
LEMMA PostKeepsInv ==
  ASSUME ReviewInv,
         \/ \E refresh \in BOOLEAN : Analyze(refresh)
         \/ PostKeeps \/ PostRefused \/ LandPost \/ PostFails \/ ReloadRadar
  PROVE  ReviewInv'
<1>1. /\ radar \in RadarRecord
      /\ FetchesOK(radarFetches)
      /\ reviewPost \in PostRecord
      /\ reviewPost.state = "sent" => reviewPost.pull \in PullRequests
  BY DEF ReviewInv, PostOK
<1>2. /\ NoPost \in PostRecord /\ NoPost.state = "idle"
      /\ NoPull \in PullOrNull /\ "null" \in OverviewOnScreen
  BY PullRequestAssumption
     DEF NoPost, PostRecord, PostStates, PullOrNull, ReviewIdOrNull, OverviewOnScreen
<1>3. ASSUME NEW refresh \in BOOLEAN, Analyze(refresh)
      PROVE  ReviewInv'
  <2>1. SelectedPull \in PullRequests
    BY <1>1, <1>3 DEF Analyze, SelectedPull, RadarRecord
  <2>2. radar' \in RadarRecord
    BY <1>1, <1>3 DEF Analyze, RadarRecord
  <2>3. reviewPost' \in PostRecord /\ reviewPost'.state = "sent"
          /\ reviewPost'.pull \in PullRequests
    <3>1. SelectedPull \in PullOrNull
      BY <2>1 DEF PullOrNull
    <3>2. reviewPost' = [NoPost EXCEPT !.state = "sent", !.heard = TRUE, !.pull = SelectedPull,
                                       !.refresh = refresh]
      BY <1>3 DEF Analyze
    <3>3. QED
      BY <1>2, <2>1, <3>1, <3>2 DEF PostRecord, PostStates
  <2>4. QED
    BY <1>1, <1>3, <2>2, <2>3, PageStepKeepsInv DEF Analyze
<1>4. CASE PostKeeps
  <2>1. overviews[reviewPost.pull].status \in OverviewOnScreen
    BY <1>1, <1>4 DEF PostKeeps, ReviewInv, RowsInv, OverviewOnScreen
  <2>2. reviewPost' \in PostRecord /\ reviewPost'.state \in {"idle", "answered"}
    BY <1>4, <2>1, AnswerIsAPost DEF PostKeeps
  <2>3. QED
    BY <1>1, <1>4, <2>2, PageStepKeepsInv DEF PostKeeps
<1>5. CASE PostRefused
  <2>1. reviewPost' \in PostRecord /\ reviewPost'.state \in {"idle", "answered"}
    BY <1>2, <1>5, AnswerIsAPost DEF PostRefused
  <2>2. QED
    BY <1>1, <1>5, <2>1, PageStepKeepsInv DEF PostRefused
<1>6. CASE LandPost
  <2>1. reviewPost.pull \in PullOrNull /\ reviewPost.reply \in OverviewOnScreen
    BY <1>1 DEF PostRecord
  <2>2. radar' \in RadarRecord
    BY <1>1, <1>6, <2>1 DEF LandPost, RadarRecord, LoadingAfter, AbortedLoading
  <2>3. FetchesOK(radarFetches')
    BY <1>1, <1>6, <2>1, ReplacingKeepsFetches DEF LandPost
  <2>4. QED
    BY <1>2, <1>6, <2>2, <2>3, PageStepKeepsInv DEF LandPost
<1>7. reviewPost.state \notin {"idle", "answered"} =>
        /\ [reviewPost EXCEPT !.heard = FALSE] \in PostRecord
        /\ [reviewPost EXCEPT !.heard = FALSE].state = reviewPost.state
        /\ [reviewPost EXCEPT !.heard = FALSE].pull = reviewPost.pull
        /\ [reviewPost EXCEPT !.heard = FALSE].attempt = reviewPost.attempt
  BY <1>1 DEF PostRecord
<1>8. CASE PostFails
  <2>1. radar' \in RadarRecord
    BY <1>1, <1>8 DEF PostFails, RadarRecord
  <2>2. QED
    BY <1>1, <1>2, <1>7, <1>8, <2>1, PageStepKeepsInv DEF PostFails
<1>9. CASE ReloadRadar
  <2>1. radar' \in RadarRecord
    BY <1>2, <1>9 DEF ReloadRadar, RadarRecord, FreshRadar
  <2>2. FetchesOK(radarFetches')
    <3>1. NoRadarFetch.state # "sent"
      BY DEF NoRadarFetch
    <3>2. QED
      BY <1>9, <3>1, NoFetchIsARecord DEF ReloadRadar, FetchesOK
  <2>3. QED
    BY <1>1, <1>2, <1>7, <1>9, <2>1, <2>2, PageStepKeepsInv DEF ReloadRadar
<1>10. QED
  BY <1>3, <1>4, <1>5, <1>6, <1>8, <1>9

LEMMA StutteringKeepsReviewInv ==
  ASSUME ReviewInv, UNCHANGED reviewVars
  PROVE  ReviewInv'
BY DEF reviewVars, ReviewInv, RowsInv, ReviewsFormAPrefix, OverviewIsItsCurrentReview, JobsInv,
       FetchesOK, PostOK

LEMMA ReviewStepsKeepInv == ReviewInv /\ [ReviewNext]_reviewVars => ReviewInv'
<1> SUFFICES ASSUME ReviewInv, [ReviewNext]_reviewVars PROVE ReviewInv'
  OBVIOUS
<1>1. CASE ReviewWorkers
  BY <1>1, WorkersKeepInv DEF ReviewWorkers
<1>2. CASE ReviewWorkerDies
  BY <1>2, WorkersKeepInv DEF ReviewWorkerDies
<1>3. CASE RadarNext
  BY <1>3, PageKeepsInv, PostKeepsInv, PostCommitsKeepsInv, PostDefersKeepsInv,
     OtherWindowReviewsKeepsInv
     DEF RadarNext
<1>4. CASE UNCHANGED reviewVars
  BY <1>4, StutteringKeepsReviewInv
<1>5. QED
  BY <1>1, <1>2, <1>3, <1>4 DEF ReviewNext

THEOREM ReviewInvariance == ReviewSpec => []ReviewInv
BY ReviewInitGivesInv, ReviewStepsKeepInv, PTL DEF ReviewSpec

\* Type correctness of the rows, the jobs, the hooks of the page and its requests.
THEOREM ReviewTypeCorrect == ReviewSpec => []ReviewTypeOK
BY ReviewInvariance, ReviewInvGivesTypeOK, PTL

\* The row of a pull request tells what its newest review tells, however the reviews of
\* any number of pages and workers overlap (queue_overview, claim_overview,
\* complete_overview and fail_overview).
THEOREM TheRowIsItsCurrentReview == ReviewSpec => []OverviewIsItsCurrentReview
<1>1. ReviewInv => OverviewIsItsCurrentReview
  BY DEF ReviewInv, RowsInv
<1>2. QED
  BY <1>1, ReviewInvariance, PTL

--------------------------------------------------------------------------------
(***************************************************************************)
(* BriefPage for any scopes, changes of the workspace, number of briefs    *)
(* and polls: a brief in progress has a job or a worker.  The invariant is *)
(* inductive once the POST is known to be about a scope: its digest is     *)
(* that of a brief until the job is deferred.                              *)
(***************************************************************************)

BriefRowsOK ==
  /\ briefs \in [Digests -> BriefStatus]
  /\ briefJobs \in [Digests -> Nat]
  /\ briefWorkers \in [Digests -> Nat]
  /\ abandoned \subseteq Digests
  /\ queuedBriefs \in 0 .. MaxBriefs
  /\ epoch \in Epochs

DeskRecord ==
  [me : BOOLEAN, scope : ScopeOrNone, response : BriefOnScreen, loading : BOOLEAN,
   generating : BOOLEAN]

\* The hooks; only a selected scope is being loaded.
DeskOK ==
  /\ desk \in DeskRecord
  /\ deskLoad \in BOOLEAN
  /\ deskLoad => desk.scope \in Scopes

PollRecord ==
  [state : {"idle", "sent", "answered"}, scope : ScopeOrNone, reply : BriefOnScreen]

PollsOK == deskPolls \in [BrowserPolls -> PollRecord]

BriefPostStates == {"idle", "sent", "queueing", "deferring", "answered"}

BriefPostRecord ==
  [state : BriefPostStates, scope : ScopeOrNone, refresh : BOOLEAN, digest : Epochs,
   reply : BriefOnScreen]

\* The POST is about a scope until it is answered.
BriefPostOK ==
  /\ briefPost \in BriefPostRecord
  /\ briefPost.state \in {"sent", "queueing", "deferring"} => briefPost.scope \in Scopes

BriefInv ==
  /\ BriefRowsOK
  /\ NoBriefIsStranded
  /\ DeskOK
  /\ PollsOK
  /\ BriefPostOK

LEMMA BriefInvGivesTypeOK == BriefInv => BriefTypeOK
BY DEF BriefInv, BriefTypeOK, BriefRowsOK, DeskOK, DeskRecord, PollsOK, PollRecord, BriefPostOK,
       BriefPostRecord, BriefPostStates

\* What belongs to the types of the page, whatever the constants.
LEMMA BriefValues ==
  /\ \A scope \in Scopes : scope \in ScopeOrNone /\ scope # NoScope
  /\ \A scope \in ScopeOrNone : scope # NoScope => scope \in Scopes
  /\ NoScope \in ScopeOrNone
  /\ "null" \in BriefOnScreen /\ "queued" \in BriefOnScreen
  /\ \A status \in BriefStatus : status \in BriefOnScreen
  /\ {"queued", "running", "ready", "failed", "not_generated"} = BriefStatus
  /\ 0 \in Epochs
  /\ NoPoll \in PollRecord
  /\ NoBriefPost \in BriefPostRecord /\ NoBriefPost.state = "idle"
  /\ FreshDesk \in DeskRecord
<1>1. 0 \in Epochs /\ NoScope \in ScopeOrNone /\ "null" \in BriefOnScreen
  BY BriefAssumption DEF Epochs, ScopeOrNone, BriefOnScreen
<1>2. NoPoll \in PollRecord
  BY <1>1 DEF NoPoll, PollRecord
<1>3. NoBriefPost \in BriefPostRecord /\ NoBriefPost.state = "idle"
  BY <1>1 DEF NoBriefPost, BriefPostRecord, BriefPostStates
<1>4. FreshDesk \in DeskRecord
  BY <1>1 DEF FreshDesk, DeskRecord
<1>5. QED
  BY <1>1, <1>2, <1>3, <1>4, BriefAssumption
     DEF ScopeOrNone, BriefOnScreen, BriefStatus, JobStatuses

LEMMA DigestsOfScopes ==
  ASSUME BriefRowsOK, NEW scope \in Scopes
  PROVE  Digest(scope) \in Digests /\ briefs[Digest(scope)] \in BriefOnScreen
BY BriefValues DEF BriefRowsOK, Digest, Digests

LEMMA BriefInitGivesInv == BriefInit => BriefInv
<1> SUFFICES ASSUME BriefInit PROVE BriefInv
  OBVIOUS
<1> USE DEF BriefInit
<1>1. BriefRowsOK
  BY BriefValues, BriefAssumption DEF BriefRowsOK, Digests
<1>2. NoBriefIsStranded
  BY DEF NoBriefIsStranded
<1>3. DeskOK /\ PollsOK /\ BriefPostOK
  BY BriefValues DEF DeskOK, PollsOK, BriefPostOK
<1>4. QED
  BY <1>1, <1>2, <1>3 DEF BriefInv

--------------------------------------------------------------------------------
(* The rows and the jobs *)

LEMMA WorkersKeepBriefInv ==
  ASSUME BriefInv, NEW d \in Digests,
         \/ ClaimBrief(d) \/ CompleteBrief(d) \/ FailBrief(d) \/ ClaimBriefRaises(d)
         \/ BriefWorkerDies(d),
         UNCHANGED deskVars
  PROVE  BriefInv'
<1>1. BriefRowsOK /\ NoBriefIsStranded
  BY DEF BriefInv
<1>2. /\ DeskOK' /\ PollsOK' /\ BriefPostOK'
      /\ \A c \in Digests : BeingDeferred(c)' <=> BeingDeferred(c)
  BY DEF BriefInv, deskVars, DeskOK, PollsOK, BriefPostOK, BeingDeferred
<1>3. BriefRowsOK' /\ NoBriefIsStranded'
  <2>1. CASE ClaimBrief(d)
    <3>1. CASE briefs[d] = "queued"
      BY <1>1, <1>2, <2>1, <3>1, BriefValues DEF ClaimBrief, BriefRowsOK, NoBriefIsStranded
    <3>2. CASE briefs[d] # "queued"
      BY <1>1, <1>2, <2>1, <3>2, BriefValues DEF ClaimBrief, BriefRowsOK, NoBriefIsStranded
    <3>3. QED
      BY <3>1, <3>2
  <2>2. CASE CompleteBrief(d)
    BY <1>1, <1>2, <2>2, BriefValues DEF CompleteBrief, BriefRowsOK, NoBriefIsStranded
  <2>3. CASE FailBrief(d)
    BY <1>1, <1>2, <2>3, BriefValues DEF FailBrief, BriefRowsOK, NoBriefIsStranded
  <2>4. CASE ClaimBriefRaises(d)
    BY <1>1, <1>2, <2>4, BriefValues DEF ClaimBriefRaises, BriefRowsOK, NoBriefIsStranded
  <2>5. CASE BriefWorkerDies(d)
    BY <1>1, <1>2, <2>5, BriefValues DEF BriefWorkerDies, BriefRowsOK, NoBriefIsStranded
  <2>6. QED
    BY <2>1, <2>2, <2>3, <2>4, <2>5
<1>4. QED
  BY <1>2, <1>3 DEF BriefInv

\* A refresh by another window commits and defers in one step, as far as this page sees.
LEMMA OtherWindowKeepsBriefInv ==
  ASSUME BriefInv, NEW scope \in Scopes, OtherWindowRefreshes(scope), UNCHANGED deskVars
  PROVE  BriefInv'
<1> DEFINE d == Digest(scope)
<1>1. BriefRowsOK /\ NoBriefIsStranded /\ d \in Digests
  BY DigestsOfScopes DEF BriefInv
<1>2. /\ DeskOK' /\ PollsOK' /\ BriefPostOK'
      /\ \A c \in Digests : BeingDeferred(c)' <=> BeingDeferred(c)
  BY DEF BriefInv, deskVars, DeskOK, PollsOK, BriefPostOK, BeingDeferred
<1>3. /\ queuedBriefs < MaxBriefs /\ queuedBriefs' = queuedBriefs + 1
      /\ briefs' = [briefs EXCEPT ![d] = "queued"]
      /\ briefJobs' = [briefJobs EXCEPT ![d] = @ + 1]
      /\ UNCHANGED <<briefWorkers, abandoned, epoch>>
  BY DEF OtherWindowRefreshes, QueueBrief, Deferred
<1> HIDE DEF d
<1>4. BriefRowsOK'
  BY <1>1, <1>3, BriefValues, BriefAssumption DEF BriefRowsOK
<1>5. NoBriefIsStranded'
  BY <1>1, <1>2, <1>3 DEF BriefRowsOK, NoBriefIsStranded
<1>6. QED
  BY <1>2, <1>4, <1>5 DEF BriefInv

--------------------------------------------------------------------------------
(* The POST: its commit, and its job *)

LEMMA BriefCommitsKeepsInv ==
  ASSUME BriefInv, BriefCommits
  PROVE  BriefInv'
<1> DEFINE d == <<briefPost.scope, briefPost.digest>>
<1>1. /\ BriefRowsOK /\ NoBriefIsStranded
      /\ briefPost \in BriefPostRecord /\ briefPost.scope \in Scopes
      /\ d \in Digests
  BY DEF BriefInv, BriefPostOK, BriefPostRecord, BriefCommits, Digests
<1>2. DeskOK' /\ PollsOK'
  BY DEF BriefInv, DeskOK, PollsOK, BriefCommits
<1>3. /\ queuedBriefs < MaxBriefs /\ queuedBriefs' = queuedBriefs + 1
      /\ briefs' = [briefs EXCEPT ![d] = "queued"]
      /\ briefPost.state = "queueing"
      /\ briefPost' = [briefPost EXCEPT !.state = "deferring"]
      /\ UNCHANGED <<briefJobs, briefWorkers, abandoned, epoch>>
  BY DEF BriefCommits, QueueBrief
<1>4. BriefRowsOK'
  <2> HIDE DEF d
  <2>1. QED
    BY <1>1, <1>3, BriefValues, BriefAssumption DEF BriefRowsOK
<1>5. /\ briefPost' \in BriefPostRecord
      /\ briefPost'.state = "deferring" /\ briefPost'.scope = briefPost.scope
      /\ briefPost'.digest = briefPost.digest
  BY <1>1, <1>3 DEF BriefPostRecord, BriefPostStates
<1>6. \A c \in Digests : (BeingDeferred(c)' <=> c = d) /\ ~ BeingDeferred(c)
  BY <1>3, <1>5 DEF BeingDeferred
<1>7. NoBriefIsStranded'
  <2> SUFFICES ASSUME NEW c \in Digests \ abandoned
               PROVE  /\ briefs'[c] = "queued" => briefJobs'[c] > 0 \/ BeingDeferred(c)'
                      /\ briefs'[c] = "running" => briefWorkers'[c] > 0
    BY <1>3 DEF NoBriefIsStranded
  <2>1. CASE c = d
    BY <1>1, <1>3, <1>6, <2>1 DEF BriefRowsOK
  <2>2. CASE c # d
    BY <1>1, <1>3, <1>6, <2>2 DEF BriefRowsOK, NoBriefIsStranded
  <2>3. QED
    BY <2>1, <2>2
<1>8. QED
  BY <1>1, <1>2, <1>4, <1>5, <1>7 DEF BriefInv, BriefPostOK

\* A brief that is kept gets one more job while it is queued.
LEMMA BriefKeptKeepsInv ==
  ASSUME BriefInv, BriefKept
  PROVE  BriefInv'
<1> DEFINE d == Digest(briefPost.scope)
           n == IF briefs[d] = "queued" THEN 1 ELSE 0
<1>1. /\ BriefRowsOK /\ NoBriefIsStranded
      /\ briefPost.scope \in Scopes /\ d \in Digests /\ briefs[d] \in BriefOnScreen
  BY DigestsOfScopes DEF BriefInv, BriefPostOK, BriefKept
<1>2. DeskOK' /\ PollsOK'
  BY DEF BriefInv, DeskOK, PollsOK, BriefKept
<1>3. /\ n = 1 => queuedBriefs < MaxBriefs
      /\ queuedBriefs' = queuedBriefs + n
      /\ briefJobs' = [briefJobs EXCEPT ![d] = @ + n]
      /\ UNCHANGED <<briefs, briefWorkers, abandoned, epoch>>
  <2> DEFINE again == briefs[d] = "queued"
  <2>1. /\ again => queuedBriefs < MaxBriefs
        /\ queuedBriefs' = queuedBriefs + n
        /\ briefJobs' = IF again THEN [briefJobs EXCEPT ![d] = @ + 1] ELSE briefJobs
        /\ UNCHANGED <<briefs, briefWorkers, abandoned, epoch>>
    BY DEF BriefKept, Deferred, Count
  <2>2. briefJobs \in [Digests -> Nat]
    BY <1>1 DEF BriefRowsOK
  <2> HIDE DEF d
  <2>3. CASE again
    BY <2>1, <2>3
  <2>4. CASE ~ again
    BY <1>1, <2>1, <2>2, <2>4
  <2>5. QED
    BY <2>3, <2>4
<1>4. /\ briefPost.state = "sent" /\ n \in {0, 1}
      /\ briefPost' = [NoBriefPost EXCEPT !.state = "answered", !.reply = briefs[d]]
  BY DEF BriefKept
<1> HIDE DEF d, n
<1>5. briefPost' \in BriefPostRecord /\ briefPost'.state = "answered"
  BY <1>1, <1>4, BriefValues DEF BriefPostRecord, BriefPostStates
<1>6. \A c \in Digests : ~ BeingDeferred(c)
  BY <1>4 DEF BeingDeferred
<1>7. BriefRowsOK'
  BY <1>1, <1>3, <1>4, BriefAssumption DEF BriefRowsOK
<1>8. NoBriefIsStranded'
  <2> SUFFICES ASSUME NEW c \in Digests \ abandoned
               PROVE  /\ briefs[c] = "queued" => briefJobs'[c] > 0
                      /\ briefs[c] = "running" => briefWorkers[c] > 0
    BY <1>3 DEF NoBriefIsStranded
  <2>1. /\ briefs[c] = "queued" => briefJobs[c] > 0
        /\ briefs[c] = "running" => briefWorkers[c] > 0
    BY <1>1, <1>6 DEF NoBriefIsStranded
  <2>2. briefJobs[c] \in Nat /\ briefJobs'[c] \in {briefJobs[c], briefJobs[c] + n}
    BY <1>1, <1>3, <1>4 DEF BriefRowsOK
  <2>3. QED
    BY <1>4, <2>1, <2>2
<1>9. QED
  BY <1>2, <1>5, <1>7, <1>8 DEF BriefInv, BriefPostOK

LEMMA BriefDefersKeepsInv ==
  ASSUME BriefInv, NEW deferred \in BOOLEAN, BriefDefers(deferred)
  PROVE  BriefInv'
<1> DEFINE d == <<briefPost.scope, briefPost.digest>>
<1>1. /\ BriefRowsOK /\ NoBriefIsStranded
      /\ d \in Digests
  BY DEF BriefInv, BriefPostOK, BriefPostRecord, BriefDefers, Digests
<1>2. DeskOK' /\ PollsOK'
  BY DEF BriefInv, DeskOK, PollsOK, BriefDefers
<1>3. BriefPostOK'
  <2>1. briefPost' = [NoBriefPost EXCEPT !.state = "answered",
                                        !.reply = IF deferred THEN "queued" ELSE "null"]
    BY DEF BriefDefers
  <2>2. QED
    BY <2>1, BriefValues DEF BriefPostOK, BriefPostRecord, BriefPostStates
<1>4. /\ briefJobs' = IF deferred THEN [briefJobs EXCEPT ![d] = @ + 1] ELSE briefJobs
      /\ abandoned' = IF deferred THEN abandoned ELSE abandoned \cup {d}
      /\ UNCHANGED <<briefs, briefWorkers, queuedBriefs, epoch>>
      /\ \A c \in Digests : BeingDeferred(c) => c = d
  BY DEF BriefDefers, Deferred, BeingDeferred
<1> HIDE DEF d
<1>5. BriefRowsOK'
  BY <1>1, <1>4 DEF BriefRowsOK
<1>6. NoBriefIsStranded'
  <2> SUFFICES ASSUME NEW c \in Digests \ abandoned'
               PROVE  /\ briefs'[c] = "queued" => briefJobs'[c] > 0
                      /\ briefs'[c] = "running" => briefWorkers'[c] > 0
    BY DEF NoBriefIsStranded
  <2>1. c \in Digests \ abandoned
    BY <1>4
  <2>2. CASE c = d
    BY <1>1, <1>4, <2>1, <2>2 DEF BriefRowsOK, NoBriefIsStranded
  <2>3. CASE c # d
    BY <1>1, <1>4, <2>1, <2>3 DEF BriefRowsOK, NoBriefIsStranded
  <2>4. QED
    BY <2>2, <2>3
<1>7. QED
  BY <1>2, <1>3, <1>5, <1>6 DEF BriefInv

--------------------------------------------------------------------------------
(* The page *)

\* A step of the page that leaves its POST where it is or answers it.
LEMMA DeskStepKeepsInv ==
  ASSUME BriefInv, UNCHANGED <<briefRows, epoch>>,
         DeskOK', PollsOK', BriefPostOK',
         briefPost' = briefPost \/ (briefPost.state # "deferring" /\ briefPost'.state # "deferring")
  PROVE  BriefInv'
<1>1. BriefRowsOK /\ NoBriefIsStranded
  BY DEF BriefInv
<1>2. \A d \in Digests : BeingDeferred(d)' <=> BeingDeferred(d)
  BY DEF BeingDeferred
<1>3. BriefRowsOK' /\ NoBriefIsStranded'
  BY <1>1, <1>2 DEF briefRows, BriefRowsOK, NoBriefIsStranded
<1>4. QED
  BY <1>3 DEF BriefInv

\* The selection and the GET of its brief.
LEMMA SelectingKeepsBriefInv ==
  ASSUME BriefInv,
         \/ \E scope \in ScopeOrNone : LandMe(scope) \/ SelectScope(scope)
         \/ SelectSame \/ ClearScope
         \/ \E delivered \in BOOLEAN : LandBrief(delivered)
  PROVE  BriefInv'
<1>1. /\ BriefRowsOK
      /\ desk \in DeskRecord /\ deskLoad \in BOOLEAN
      /\ deskLoad => desk.scope \in Scopes
  BY DEF BriefInv, DeskOK
<1>2. UNCHANGED <<briefRows, epoch, deskPolls, briefPost>>
  BY DEF LandMe, SelectScope, SelectSame, ClearScope, LandBrief
<1>3. PollsOK' /\ BriefPostOK'
  BY <1>2 DEF BriefInv, PollsOK, BriefPostOK
<1>4. DeskOK'
  <2>1. ASSUME NEW scope \in ScopeOrNone, LandMe(scope) PROVE DeskOK'
    BY <1>1, <2>1, BriefValues DEF LandMe, DeskOK, DeskRecord
  <2>2. ASSUME NEW scope \in ScopeOrNone, SelectScope(scope) PROVE DeskOK'
    BY <1>1, <2>2, BriefValues DEF SelectScope, Reloaded, DeskOK, DeskRecord
  <2>3. CASE SelectSame
    BY <1>1, <2>3 DEF SelectSame, DeskOK, DeskRecord
  <2>4. CASE ClearScope
    BY <1>1, <2>4, BriefValues DEF ClearScope, DeskOK, DeskRecord
  <2>5. ASSUME NEW delivered \in BOOLEAN, LandBrief(delivered) PROVE DeskOK'
    <3>1. briefs[Digest(desk.scope)] \in BriefOnScreen
      BY <1>1, <2>5, DigestsOfScopes DEF LandBrief
    <3>2. QED
      BY <1>1, <2>5, <3>1 DEF LandBrief, DeskOK, DeskRecord
  <2>6. QED
    BY <2>1, <2>2, <2>3, <2>4, <2>5
<1>5. QED
  BY <1>2, <1>3, <1>4, DeskStepKeepsInv

LEMMA PollingKeepsBriefInv ==
  ASSUME BriefInv, NEW s \in BrowserPolls,
         PollBrief(s) \/ ReadBrief(s) \/ LandBriefPoll(s) \/ BriefPollFails(s)
  PROVE  BriefInv'
<1>1. /\ BriefRowsOK
      /\ desk \in DeskRecord /\ deskLoad \in BOOLEAN
      /\ deskLoad => desk.scope \in Scopes
      /\ deskPolls \in [BrowserPolls -> PollRecord]
  BY DEF BriefInv, DeskOK, PollsOK
<1>2. UNCHANGED <<briefRows, epoch, deskLoad, briefPost>>
  BY DEF PollBrief, ReadBrief, LandBriefPoll, BriefPollFails
<1>3. BriefPostOK'
  BY <1>2 DEF BriefInv, BriefPostOK
<1>4. desk.scope \in ScopeOrNone /\ deskPolls[s] \in PollRecord
      /\ deskPolls[s].scope \in ScopeOrNone /\ deskPolls[s].reply \in BriefOnScreen
  BY <1>1 DEF DeskRecord, PollRecord
<1>5. DeskOK' /\ PollsOK'
  <2>1. CASE PollBrief(s)
    <3>1. [NoPoll EXCEPT !.state = "sent", !.scope = desk.scope] \in PollRecord
      BY <1>4, BriefValues DEF PollRecord
    <3>2. QED
      BY <1>1, <2>1, <3>1 DEF PollBrief, DeskOK, PollsOK
  <2>2. CASE ReadBrief(s)
    <3> DEFINE reply == IF deskPolls[s].scope = NoScope THEN "null"
                        ELSE briefs[Digest(deskPolls[s].scope)]
    <3>1. reply \in BriefOnScreen
      BY <1>1, <1>4, BriefValues, DigestsOfScopes
    <3>2. deskPolls' = [deskPolls EXCEPT ![s].state = "answered", ![s].reply = reply]
      BY <2>2 DEF ReadBrief
    <3> HIDE DEF reply
    <3>3. [deskPolls[s] EXCEPT !.state = "answered", !.reply = reply] \in PollRecord
      BY <1>4, <3>1 DEF PollRecord
    <3>4. PollsOK'
      BY <1>1, <3>2, <3>3 DEF PollsOK
    <3>5. QED
      BY <1>1, <2>2, <3>4 DEF ReadBrief, DeskOK
  <2>3. CASE LandBriefPoll(s)
    BY <1>1, <1>4, <2>3, BriefValues DEF LandBriefPoll, DeskOK, DeskRecord, PollsOK
  <2>4. CASE BriefPollFails(s)
    BY <1>1, <2>4, BriefValues DEF BriefPollFails, DeskOK, DeskRecord, PollsOK
  <2>5. QED
    BY <2>1, <2>2, <2>3, <2>4
<1>6. QED
  BY <1>2, <1>3, <1>5, DeskStepKeepsInv

LEMMA AskingKeepsBriefInv ==
  ASSUME BriefInv,
         \/ GenerateBrief \/ BriefLooksUp \/ BriefRefused
         \/ \E delivered \in BOOLEAN : LandBriefPost(delivered)
  PROVE  BriefInv'
<1>1. /\ desk \in DeskRecord /\ deskLoad \in BOOLEAN
      /\ deskLoad => desk.scope \in Scopes
      /\ briefPost \in BriefPostRecord
  BY DEF BriefInv, DeskOK, BriefPostOK
<1>2. UNCHANGED <<briefRows, epoch, deskLoad, deskPolls>>
  BY DEF GenerateBrief, BriefLooksUp, BriefRefused, LandBriefPost
<1>3. PollsOK'
  BY <1>2 DEF BriefInv, PollsOK
<1>4. CASE GenerateBrief
  <2>1. desk.scope \in Scopes /\ desk.scope \in ScopeOrNone
    BY <1>1, <1>4, BriefValues DEF GenerateBrief, DeskRecord
  <2>2. DeskOK'
    BY <1>1, <1>4 DEF GenerateBrief, DeskOK, DeskRecord
  <2>3. briefPost' = [NoBriefPost EXCEPT !.state = "sent", !.scope = desk.scope,
                                        !.refresh = (desk.response = "ready")]
    BY <1>4 DEF GenerateBrief
  <2>4. /\ briefPost' \in BriefPostRecord
        /\ briefPost'.state = "sent" /\ briefPost'.scope \in Scopes
    BY <2>1, <2>3, BriefValues DEF BriefPostRecord, BriefPostStates
  <2>5. QED
    BY <1>2, <1>3, <1>4, <2>2, <2>4, DeskStepKeepsInv DEF BriefPostOK, GenerateBrief
<1>5. CASE BriefLooksUp
  <2>1. /\ briefPost' = [briefPost EXCEPT !.state = "queueing", !.digest = epoch]
        /\ briefPost.state = "sent" /\ briefPost.scope \in Scopes /\ epoch \in Epochs
    BY <1>5 DEF BriefLooksUp, BriefInv, BriefPostOK, BriefRowsOK
  <2>2. /\ briefPost' \in BriefPostRecord /\ briefPost'.state = "queueing"
        /\ briefPost'.scope = briefPost.scope
    BY <1>1, <2>1 DEF BriefPostRecord, BriefPostStates
  <2>3. DeskOK'
    BY <1>1, <1>5 DEF BriefLooksUp, DeskOK
  <2>4. QED
    BY <1>2, <1>3, <2>1, <2>2, <2>3, DeskStepKeepsInv DEF BriefPostOK
<1>6. CASE BriefRefused
  <2>1. briefPost' = [NoBriefPost EXCEPT !.state = "answered", !.reply = "null"]
    BY <1>6 DEF BriefRefused
  <2>2. briefPost' \in BriefPostRecord /\ briefPost'.state = "answered"
    BY <2>1, BriefValues DEF BriefPostRecord, BriefPostStates
  <2>3. DeskOK'
    BY <1>1, <1>6 DEF BriefRefused, DeskOK
  <2>4. QED
    BY <1>2, <1>3, <1>6, <2>2, <2>3, DeskStepKeepsInv DEF BriefPostOK, BriefRefused
<1>7. ASSUME NEW delivered \in BOOLEAN, LandBriefPost(delivered) PROVE BriefInv'
  <2>1. briefPost.reply \in BriefOnScreen
    BY <1>1 DEF BriefPostRecord
  <2>2. DeskOK'
    BY <1>1, <1>7, <2>1 DEF LandBriefPost, DeskOK, DeskRecord
  <2>3. BriefPostOK' /\ briefPost'.state = "idle"
    BY <1>7, BriefValues DEF LandBriefPost, BriefPostOK
  <2>4. QED
    BY <1>2, <1>3, <1>7, <2>2, <2>3, DeskStepKeepsInv DEF LandBriefPost
<1>8. QED
  BY <1>4, <1>5, <1>6, <1>7

--------------------------------------------------------------------------------

LEMMA WorkspaceChangesKeepsBriefInv == BriefInv /\ WorkspaceChanges => BriefInv'
<1> SUFFICES ASSUME BriefInv, WorkspaceChanges PROVE BriefInv'
  OBVIOUS
<1>1. UNCHANGED <<briefs, briefJobs, briefWorkers, abandoned, queuedBriefs,
                 desk, deskLoad, deskPolls, briefPost>>
  BY DEF WorkspaceChanges, briefRows, deskVars
<1>2. epoch' \in Epochs
  BY BriefAssumption DEF WorkspaceChanges, BriefInv, BriefRowsOK, Epochs
<1>3. \A d \in Digests : BeingDeferred(d)' <=> BeingDeferred(d)
  BY <1>1 DEF BeingDeferred
<1>4. QED
  BY <1>1, <1>2, <1>3
     DEF BriefInv, BriefRowsOK, NoBriefIsStranded, DeskOK, PollsOK, BriefPostOK

LEMMA BriefStutter == BriefInv /\ UNCHANGED briefVars => BriefInv'
<1> SUFFICES ASSUME BriefInv, UNCHANGED briefVars PROVE BriefInv'
  OBVIOUS
<1>1. DeskOK' /\ PollsOK' /\ BriefPostOK' /\ briefPost' = briefPost
  BY DEF BriefInv, briefVars, deskVars, DeskOK, PollsOK, BriefPostOK
<1>2. UNCHANGED <<briefRows, epoch>>
  BY DEF briefVars
<1>3. QED
  BY <1>1, <1>2, DeskStepKeepsInv

LEMMA BriefStepsKeepInv == BriefInv /\ [BriefNext]_briefVars => BriefInv'
<1> SUFFICES ASSUME BriefInv, [BriefNext]_briefVars PROVE BriefInv'
  OBVIOUS
<1>1. CASE DeskNext
  BY <1>1, SelectingKeepsBriefInv, PollingKeepsBriefInv, AskingKeepsBriefInv,
     BriefCommitsKeepsInv, BriefKeptKeepsInv, BriefDefersKeepsInv
     DEF DeskNext, BriefPollMoves, BriefPostMoves
<1>2. CASE BriefWorkersStep
  BY <1>2, WorkersKeepBriefInv DEF BriefWorkersStep
<1>3. CASE BriefSurroundings
  BY <1>3, WorkersKeepBriefInv, OtherWindowKeepsBriefInv DEF BriefSurroundings
<1>4. CASE WorkspaceChanges
  BY <1>4, WorkspaceChangesKeepsBriefInv
<1>5. CASE UNCHANGED briefVars
  BY <1>5, BriefStutter
<1>6. QED
  BY <1>1, <1>2, <1>3, <1>4, <1>5 DEF BriefNext

THEOREM BriefInvariance == BriefSpec => []BriefInv
BY BriefInitGivesInv, BriefStepsKeepInv, PTL DEF BriefSpec

\* Type correctness of the briefs, the jobs, the hooks of the page and its requests.
THEOREM BriefTypeCorrect == BriefSpec => []BriefTypeOK
BY BriefInvariance, BriefInvGivesTypeOK, PTL

\* A brief in progress has a job or a worker, unless one was lost (queue_brief,
\* claim_brief, complete_brief, fail_brief and the task that calls them).
THEOREM BriefsAreNotStranded == BriefSpec => []NoBriefIsStranded
<1>1. BriefInv => NoBriefIsStranded
  BY DEF BriefInv
<1>2. QED
  BY <1>1, BriefInvariance, PTL

--------------------------------------------------------------------------------
(***************************************************************************)
(* AskDelta for any number of exchanges, questions and polls.              *)
(***************************************************************************)


ThreadPoll ==
  [state : {"idle", "sent", "answered"}, thread : ThreadOrNone, messages : Shown]

Asked ==
  [state : {"idle", "sent", "deferring", "answered", "refused"}, heard : BOOLEAN,
   thread : ThreadOrNone, exchange : 0 .. MaxExchanges]

\* What shows nothing, and what a read returns, have their types.
LEMMA AskValues ==
  ASSUME AskTypeOK
  PROVE  /\ 0 \in ThreadOrNone /\ ExchangeIds \subseteq ThreadOrNone
         /\ NothingShown \in Shown /\ NoThreadPoll \in ThreadPoll /\ NoQuestion \in Asked
         /\ FreshChat \in [thread : ThreadOrNone, messages : Shown, sending : BOOLEAN]
         /\ \A thread : ThreadRead(thread) \in Shown
         /\ exchanges \in [ExchangeIds -> [thread : ThreadOrNone, status : ShownStatus]]
         /\ chatTasks \in [ExchangeIds -> {"none", "queued", "claimed", "done", "lost"}]
         /\ chat \in [thread : ThreadOrNone, messages : Shown, sending : BOOLEAN]
         /\ chatPolls \in [BrowserPolls -> ThreadPoll] /\ asked \in [Questions -> Asked]
  <1>1. 0 \in ThreadOrNone /\ ExchangeIds \subseteq ThreadOrNone
    BY AskAssumption DEF ThreadOrNone, ExchangeIds
  <1>2. NothingShown \in Shown
    BY DEF NothingShown, Shown, ShownStatus
  <1>3. /\ NoThreadPoll \in ThreadPoll
        /\ FreshChat \in [thread : ThreadOrNone, messages : Shown, sending : BOOLEAN]
    BY <1>1, <1>2 DEF NoThreadPoll, ThreadPoll, FreshChat
  <1>4. NoQuestion \in Asked
    BY <1>1 DEF NoQuestion, Asked, ThreadOrNone
  <1>5. \A thread : ThreadRead(thread) \in Shown
    BY DEF AskTypeOK, ThreadRead, Shown, ShownStatus
  <1> QED
    BY <1>1, <1>2, <1>3, <1>4, <1>5 DEF AskTypeOK, ThreadPoll, Asked

\* The chat is empty at first.
LEMMA AskInitInv == AskInit => AskTypeOK
  BY AskAssumption DEF AskInit, AskTypeOK, FreshChat, NothingShown, NoThreadPoll, NoQuestion,
                       ThreadOrNone, ExchangeIds, Shown, ShownStatus

\* The workers of the answers.
LEMMA AnswersInv ==
  ASSUME AskTypeOK, AnswerWorkers \/ AnswerWorkerDies
  PROVE  AskTypeOK'
  <1>1. PICK e \in ExchangeIds :
          /\ \/ UNCHANGED exchanges
             \/ \E from \in SUBSET JobStatuses, status \in JobStatuses :
                  SetAnswer(e, from, status)
          /\ \E task \in {"claimed", "done", "lost"} :
               chatTasks' = [chatTasks EXCEPT ![e] = task]
    <2>1. CASE AnswerWorkers
      BY <2>1 DEF AnswerWorkers, ClaimMessage, CompleteMessage, FailMessage, JobStatuses
    <2>2. CASE AnswerWorkerDies
      BY <2>2 DEF AnswerWorkerDies, AnswererDies
    <2> QED
      BY <2>1, <2>2
  <1>2. UNCHANGED <<chat, chatPolls, asked>>
    BY DEF AnswerWorkers, AnswerWorkerDies
  <1>3. exchanges' \in [ExchangeIds -> [thread : ThreadOrNone, status : ShownStatus]]
    BY <1>1, AskValues DEF SetAnswer, ShownStatus
  <1>4. chatTasks' \in [ExchangeIds -> {"none", "queued", "claimed", "done", "lost"}]
    BY <1>1, AskValues
  <1> QED
    BY <1>2, <1>3, <1>4 DEF AskTypeOK

\* The polls of the chat.
LEMMA ThreadPollInv ==
  ASSUME AskTypeOK, NEW s \in BrowserPolls,
         PollThread(s) \/ ReadThread(s) \/ LandThread(s) \/ ThreadPollFails(s)
  PROVE  AskTypeOK'
  <1> USE AskValues
  <1>1. /\ UNCHANGED <<exchanges, chatTasks, asked>>
        /\ \E new \in ThreadPoll : chatPolls' = [chatPolls EXCEPT ![s] = new]
        /\ chat' \in [thread : ThreadOrNone, messages : Shown, sending : BOOLEAN]
    <2>1. CASE PollThread(s)
      <3> DEFINE new == [chatPolls[s] EXCEPT !.state = "sent", !.thread = chat.thread]
      <3>1. new \in ThreadPoll
        BY DEF ThreadPoll
      <3>2. chatPolls' = [chatPolls EXCEPT ![s] = new]
        BY <2>1 DEF PollThread
      <3> QED
        BY <2>1, <3>1, <3>2 DEF PollThread
    <2>2. CASE ReadThread(s)
      <3> DEFINE read == ThreadRead(chatPolls[s].thread)
                 new == [chatPolls[s] EXCEPT !.state = "answered", !.messages = read]
      <3>1. read \in Shown
        OBVIOUS
      <3>2. chatPolls' = [chatPolls EXCEPT ![s] = new]
        BY <2>2 DEF ReadThread
      <3> HIDE DEF read
      <3>3. new \in ThreadPoll
        BY <3>1 DEF ThreadPoll
      <3> QED
        BY <2>2, <3>2, <3>3 DEF ReadThread
    <2>3. CASE LandThread(s)
      <3> DEFINE messages == chatPolls[s].messages
                 waits == chat.sending /\ hasPending(messages)
      <3>1. messages \in Shown /\ waits \in BOOLEAN
        BY DEF ThreadPoll, hasPending
      <3>2. chat' = [chat EXCEPT !.messages = messages, !.sending = waits]
        BY <2>3 DEF LandThread
      <3> HIDE DEF messages, waits
      <3>3. chat' \in [thread : ThreadOrNone, messages : Shown, sending : BOOLEAN]
        BY <3>1, <3>2
      <3> QED
        BY <2>3, <3>3 DEF LandThread
    <2>4. CASE ThreadPollFails(s)
      BY <2>4 DEF ThreadPollFails
    <2> QED
      BY <2>1, <2>2, <2>3, <2>4
  <1>2. chatPolls' \in [BrowserPolls -> ThreadPoll]
    BY <1>1
  <1> QED
    BY <1>1, <1>2 DEF AskTypeOK, ThreadPoll

\* The questions of the chat.
LEMMA QuestionInv ==
  ASSUME AskTypeOK, NEW q \in Questions,
         \/ SendMessage(q) \/ QuestionRefused(q) \/ LandQuestion(q) \/ QuestionFails(q)
         \/ \E e \in ExchangeIds : QuestionCommits(q, e)
         \/ \E deferred \in BOOLEAN : QuestionDefers(q, deferred)
  PROVE  AskTypeOK'
  <1> USE AskValues
  <1>0. asked[q] \in Asked /\ chatPolls' = chatPolls
    BY DEF SendMessage, QuestionRefused, LandQuestion, QuestionFails, QuestionCommits,
           QuestionDefers
  <1>1. ASSUME NEW state \in {"answered", "refused"}, asked' = AskedNext(q, state)
        PROVE  asked' \in [Questions -> Asked]
    <2> DEFINE new == IF asked[q].heard THEN [asked[q] EXCEPT !.state = state]
                      ELSE NoQuestion
    <2>1. new \in Asked
      BY <1>0 DEF Asked
    <2>2. asked' = [asked EXCEPT ![q] = new]
      BY <1>1 DEF AskedNext
    <2> HIDE DEF new
    <2> QED
      BY <2>1, <2>2
  <1>2. CASE SendMessage(q)
    <2> DEFINE new == [NoQuestion EXCEPT !.state = "sent", !.heard = TRUE,
                                         !.thread = chat.thread]
    <2>1. new \in Asked
      BY DEF Asked
    <2>2. /\ asked' = [asked EXCEPT ![q] = new] /\ chat' = [chat EXCEPT !.sending = TRUE]
          /\ UNCHANGED <<exchanges, chatTasks, chatPolls>>
      BY <1>2 DEF SendMessage
    <2> HIDE DEF new
    <2>3. asked' \in [Questions -> Asked]
      BY <2>1, <2>2
    <2> QED
      BY <2>2, <2>3 DEF AskTypeOK, Asked
  <1>3. CASE QuestionRefused(q)
    BY <1>1, <1>3 DEF QuestionRefused, AskTypeOK, Asked
  <1>4. CASE LandQuestion(q)
    <2> DEFINE messages == [chat.messages EXCEPT ![asked[q].exchange] = "queued"]
    <2>1. messages \in Shown
      BY DEF Shown, ShownStatus, JobStatuses
    <2>2. /\ chat' = [chat EXCEPT !.thread = asked[q].thread, !.messages = messages]
          /\ asked' = [asked EXCEPT ![q] = NoQuestion]
          /\ UNCHANGED <<exchanges, chatTasks, chatPolls>>
      BY <1>4 DEF LandQuestion
    <2> HIDE DEF messages
    <2>3. chat' \in [thread : ThreadOrNone, messages : Shown, sending : BOOLEAN]
      BY <1>0, <2>1, <2>2 DEF Asked
    <2>4. asked' \in [Questions -> Asked]
      BY <2>2
    <2> QED
      BY <2>2, <2>3, <2>4 DEF AskTypeOK, Asked
  <1>5. CASE QuestionFails(q)
    <2>1. asked' \in [Questions -> Asked]
      BY <1>5 DEF QuestionFails
    <2> QED
      BY <1>5, <2>1 DEF QuestionFails, AskTypeOK, Asked
  <1>6. ASSUME NEW e \in ExchangeIds, QuestionCommits(q, e)
        PROVE  AskTypeOK'
    <2> DEFINE thread == IF asked[q].thread = 0 THEN e ELSE asked[q].thread
               new == [asked[q] EXCEPT !.state = "deferring", !.thread = thread,
                                       !.exchange = e]
               row == [thread |-> thread, status |-> "queued"]
    <2>1. thread \in ThreadOrNone /\ e \in 0 .. MaxExchanges
      BY <1>0 DEF Asked, ThreadOrNone
    <2>2. /\ asked' = [asked EXCEPT ![q] = new] /\ exchanges' = [exchanges EXCEPT ![e] = row]
          /\ UNCHANGED <<chatTasks, chat, chatPolls>>
      BY <1>6 DEF QuestionCommits
    <2> HIDE DEF thread
    <2>3. new \in Asked
      BY <1>0, <2>1 DEF Asked
    <2>4. row \in [thread : ThreadOrNone, status : ShownStatus]
      BY <2>1 DEF ShownStatus, JobStatuses
    <2> HIDE DEF new, row
    <2>5. /\ asked' \in [Questions -> Asked]
          /\ exchanges' \in [ExchangeIds -> [thread : ThreadOrNone, status : ShownStatus]]
      BY <2>2, <2>3, <2>4
    <2> QED
      BY <2>2, <2>5 DEF AskTypeOK, Asked
  <1>7. ASSUME NEW deferred \in BOOLEAN, QuestionDefers(q, deferred)
        PROVE  AskTypeOK'
    <2>1. asked' \in [Questions -> Asked]
      BY <1>1, <1>7 DEF QuestionDefers
    <2>2. chatTasks' \in [ExchangeIds -> {"none", "queued", "claimed", "done", "lost"}]
      BY <1>7 DEF QuestionDefers
    <2> QED
      BY <1>7, <2>1, <2>2 DEF QuestionDefers, AskTypeOK, Asked
  <1> QED
    BY <1>2, <1>3, <1>4, <1>5, <1>6, <1>7

\* The chat starts anew.
LEMMA RemountInv ==
  ASSUME AskTypeOK, RemountChat
  PROVE  AskTypeOK'
  <1> USE AskValues
  <1>1. chatPolls' \in [BrowserPolls -> ThreadPoll]
    BY DEF RemountChat
  <1>2. asked' \in [Questions -> Asked]
    <2>1. \A q \in Questions : [asked[q] EXCEPT !.heard = FALSE] \in Asked
      BY DEF Asked
    <2> QED
      BY <2>1 DEF RemountChat
  <1> QED
    BY <1>1, <1>2 DEF RemountChat, AskTypeOK, ThreadPoll, Asked

\* Every step of the chat and of its workers.
LEMMA AskNextInv == AskTypeOK /\ [AskNext]_askVars => AskTypeOK'
  <1> SUFFICES ASSUME AskTypeOK, [AskNext]_askVars PROVE AskTypeOK'
    OBVIOUS
  <1>1. CASE UNCHANGED askVars
    BY <1>1 DEF askVars, AskTypeOK
  <1>2. CASE AskNext
    BY <1>2, AnswersInv, ThreadPollInv, QuestionInv, RemountInv
       DEF AskNext, ChatNext, QuestionMoves
  <1> QED
    BY <1>1, <1>2

\* Type correctness of the exchanges, the jobs, the chat, its polls and its questions.
THEOREM ChatTypeCorrect == AskSpec => []AskTypeOK
  <1>1. AskSpec => AskInit /\ [][AskNext]_askVars
    BY DEF AskSpec
  <1> QED
    BY <1>1, AskInitInv, AskNextInv, PTL

================================================================================
