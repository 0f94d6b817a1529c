------------------------- MODULE DraftPublishingProofs -------------------------
(***************************************************************************)
(* Publishing is safe for every number of attempts, pull requests, jobs,   *)
(* publishers and handlers: first what holds however many runs are at work *)
(* on the record (PublishingInv), then what holds as long as no run writes *)
(* after another one has failed the record under it (OwnerInv).            *)
(***************************************************************************)
EXTENDS PublicationOwner, MigrationStoreProofs

\* The commits Delta Code may push: of attempts somebody asked to publish and that
\* were publishable then.  0 stands for no commit.
Approved ==
  {0} \cup {a \in AttemptIds :
              Publishable(a) /\ \E r \in records : r.op = "publish" /\ r.attempt = a}

\* The pull requests that were opened.  0 stands for none.
Opened == {0} \cup {n \in Pulls : github.pulls[n].state # "none"}

\* A record of a publication, or a publisher's copy of one, that names only such
\* objects.
SafeRow ==
  [status : PublicationStates, attempt : Approved, tree : Approved, commit : Approved,
   head : Approved, pull : Opened, check : BOOLEAN]

\* A publisher whose next requests write only such objects, and that overwrites a
\* branch only where it read one of Delta Code's commits.
SafePublishers ==
  {p \in [pc : PublisherPCs, record : SafeRow, seen : Commits, tree : Approved,
          commit : Approved, pull : Opened] :
     /\ p.pc \notin {"idle", "failing"} => p.record.attempt # 0
     /\ p.pc = "commit" => p.tree # 0
     /\ p.pc = "ref" => p.commit # 0
     /\ p.pc \in {"recordPull", "check", "finish"} \/ p.record.pull # 0 => p.pull # 0
     /\ p.pc \in {"tree", "commit", "ref"} /\ p.record.pull # 0
          => p.seen \notin {0, HumanCommit}}

\* A handler that synchronizes a pull request that exists, and that knows the recorded
\* one if its version is still the migration's when the pull request is open.
SafeHandlers ==
  {q \in HandlerState :
     /\ q.pc \in {"verify", "write"} => q.pull \in Opened \ {0}
     /\ q.pc # "idle" => q.expected <= migration.version
     /\ q.pc # "idle" /\ q.expected = migration.version /\ migration.status = "pr_opened"
          => q.pull = publication.pull}

\* Pull requests are numbered without gaps, one that was not opened yet is blank, and
\* there is none before there is a branch.
RepositoryInv ==
  /\ github \in GitHubState
  /\ github.branch \in Approved \cup {HumanCommit}
  /\ github.branch = 0 => Opened = {0}
  /\ \A n \in Pulls : github.pulls[n].state = "none" => github.pulls[n] = NoPull
  /\ \E k \in 0 .. MaxPulls : \A n \in Pulls : github.pulls[n].state = "none" <=> n > k

PublicationInv ==
  /\ publication \in SafeRow
  /\ publication.status = "completed" => publication.pull # 0

\* The inductive invariant of publishing, however many publishers run.
PublishingInv ==
  /\ StoreInv
  /\ RepositoryInv
  /\ PublicationInv
  /\ pubJobs \in Nat
  /\ publishers \in [Publishers -> SafePublishers]
  /\ handlers \in [Handlers -> SafeHandlers]

\* What no step takes back: an approval, an opened pull request, a version; and the
\* recorded pull request of an open migration is replaced only with a new version.
WorldAdvances ==
  /\ Approved \subseteq Approved'
  /\ Opened \subseteq Opened'
  /\ \/ /\ migration' = migration
        /\ migration.status = "pr_opened" => publication'.pull = publication.pull
     \/ migration'.version > migration.version

--------------------------------------------------------------------------------
(* Frames *)

\* Commits and pull requests are numbers, and people's commit is none of Delta Code's.
LEMMA SafeObjects ==
  /\ Approved \subseteq AttemptIdOrNull /\ Approved \subseteq Nat
  /\ Approved \subseteq Commits /\ HumanCommit \notin Approved
  /\ Opened \subseteq Nat /\ Opened \subseteq {0} \cup Pulls
  /\ 0 \in Approved /\ 0 \in Opened
  /\ SafeRow \subseteq PublicationRow
  /\ SafePublishers \subseteq PublisherState
  <1> USE MaxAttemptsAssumption, PublishingAssumption
  <1>1. /\ Approved \subseteq AttemptIdOrNull /\ Approved \subseteq Nat
        /\ Approved \subseteq Commits /\ HumanCommit \notin Approved /\ 0 \in Approved
    BY DEF Approved, AttemptIds, AttemptIdOrNull, Commits, HumanCommit
  <1>2. Opened \subseteq Nat /\ Opened \subseteq {0} \cup Pulls /\ 0 \in Opened
    BY DEF Opened, Pulls
  <1>3. SafeRow \subseteq PublicationRow
    BY <1>1, <1>2 DEF SafeRow, PublicationRow
  <1>4. SafePublishers \subseteq PublisherState
    BY <1>1, <1>2, <1>3 DEF SafePublishers, PublisherState
  <1> QED
    BY <1>1, <1>2, <1>3, <1>4

\* What was approved stays approved.
LEMMA ApprovalsStand ==
  ASSUME RowsAdvance
  PROVE  Approved \subseteq Approved'
  BY DEF RowsAdvance, Approved, Publishable

\* What was safe stays safe for those who do not move.
LEMMA SafetyStands ==
  ASSUME PublishingInv, WorldAdvances, migration'.version \in Nat
  PROVE  /\ SafeRow \subseteq SafeRow'
         /\ SafePublishers \subseteq SafePublishers'
         /\ SafeHandlers \subseteq SafeHandlers'
  <1>1. SafeRow \subseteq SafeRow'
    BY DEF WorldAdvances, SafeRow
  <1>2. SafePublishers \subseteq SafePublishers'
    BY <1>1 DEF WorldAdvances, SafePublishers
  <1>3. migration.version \in Nat
    BY DEF PublishingInv, StoreInv, StoreTypeOK, MigrationRow
  <1>4. ASSUME NEW q \in SafeHandlers PROVE q \in SafeHandlers'
    <2>1. q \in HandlerState /\ q.expected \in Nat
      BY <1>4 DEF SafeHandlers, HandlerState
    <2> QED
      BY <1>3, <1>4, <2>1 DEF WorldAdvances, SafeHandlers
  <1> QED
    BY <1>1, <1>2, <1>4

\* A step that changes neither the rows nor what GitHub holds open.
LEMMA QuietWorld ==
  ASSUME PublishingInv, UNCHANGED storeVars, Opened \subseteq Opened'
  PROVE  /\ WorldAdvances /\ StoreInv' /\ Approved' = Approved
         /\ SafeRow \subseteq SafeRow' /\ SafePublishers \subseteq SafePublishers'
         /\ SafeHandlers \subseteq SafeHandlers' /\ PublicationInv'
  <1>1. StoreInv'
    BY StoreUnchangedInv DEF PublishingInv
  <1>2. Approved' = Approved
    BY DEF storeVars, Approved, Publishable
  <1>3. WorldAdvances
    BY <1>2 DEF WorldAdvances, storeVars
  <1>4. migration'.version \in Nat
    BY <1>1 DEF StoreInv, StoreTypeOK, MigrationRow
  <1>5. PublicationInv'
    BY <1>3, <1>4, SafetyStands DEF PublicationInv, PublishingInv, storeVars
  <1> QED
    BY <1>1, <1>2, <1>3, <1>4, <1>5, SafetyStands

\* A step that changes only who is where.
LEMMA OnlyProcessesMove ==
  ASSUME PublishingInv, UNCHANGED <<storeVars, github>>, pubJobs' \in Nat,
         publishers' \in [Publishers -> SafePublishers],
         handlers' \in [Handlers -> SafeHandlers]
  PROVE  PublishingInv'
  <1>1. Opened' = Opened
    BY DEF Opened
  <1>2. /\ StoreInv' /\ Approved' = Approved /\ PublicationInv'
        /\ SafePublishers \subseteq SafePublishers' /\ SafeHandlers \subseteq SafeHandlers'
    BY <1>1, QuietWorld
  <1>3. RepositoryInv'
    BY <1>1, <1>2 DEF PublishingInv, RepositoryInv
  <1>4. /\ publishers' \in [Publishers -> SafePublishers']
        /\ handlers' \in [Handlers -> SafeHandlers']
    BY <1>2
  <1> QED
    BY <1>2, <1>3, <1>4 DEF PublishingInv

--------------------------------------------------------------------------------
(* GitHub *)

PullRow == [state : {"none", "open", "closed"}, draft : BOOLEAN, head : Commits]

\* A ref update, by Delta Code of an approved commit or by people.
LEMMA PushedRepository ==
  ASSUME RepositoryInv, Approved' = Approved,
         NEW c \in Approved \cup {HumanCommit}, c # 0, github' = Pushed(c)
  PROVE  RepositoryInv' /\ Opened' = Opened
  <1> DEFINE moved == [n \in Pulls |-> IF n \in OpenPulls
                                       THEN [github.pulls[n] EXCEPT !.head = c]
                                       ELSE github.pulls[n]]
  <1>1. /\ c \in Commits /\ github \in GitHubState
        /\ github.pulls \in [Pulls -> PullRow]
    BY SafeObjects, MaxAttemptsAssumption
       DEF RepositoryInv, GitHubState, PullRow, Commits, HumanCommit
  <1>2. github' = [github EXCEPT !.branch = c, !.pulls = moved]
    BY DEF Pushed
  <1>3. /\ moved \in [Pulls -> PullRow]
        /\ \A n \in Pulls : moved[n].state = github.pulls[n].state
        /\ \A n \in Pulls : github.pulls[n].state # "open" => moved[n] = github.pulls[n]
    BY <1>1 DEF PullRow, OpenPulls
  <1> HIDE DEF moved
  <1>4. /\ github' \in GitHubState /\ github'.branch = c /\ github'.pulls = moved
    BY <1>1, <1>2, <1>3 DEF GitHubState, PullRow
  <1>5. Opened' = Opened
    BY <1>3, <1>4 DEF Opened
  <1>6. RepositoryInv'
    BY <1>3, <1>4 DEF RepositoryInv
  <1> QED
    BY <1>5, <1>6

\* A pull request that exists is edited and still exists.
LEMMA EditedRepository ==
  ASSUME RepositoryInv, Approved' = Approved, NEW n \in Opened \ {0}, NEW pull \in PullRow,
         pull.state # "none", github' = WithPull(n, pull)
  PROVE  RepositoryInv' /\ Opened' = Opened
  <1>1. /\ n \in Pulls /\ github \in GitHubState /\ github.pulls \in [Pulls -> PullRow]
        /\ github.pulls[n].state # "none"
    BY SafeObjects DEF RepositoryInv, GitHubState, PullRow, Opened
  <1> DEFINE edited == [github.pulls EXCEPT ![n] = pull]
  <1>2. /\ edited \in [Pulls -> PullRow] /\ edited[n] = pull
        /\ \A m \in Pulls \ {n} : edited[m] = github.pulls[m]
    BY <1>1
  <1>3. github' = [github EXCEPT !.pulls = edited]
    BY DEF WithPull
  <1> HIDE DEF edited
  <1>4. github' \in GitHubState /\ github'.branch = github.branch /\ github'.pulls = edited
    BY <1>1, <1>2, <1>3 DEF GitHubState, PullRow
  <1>5. Opened' = Opened
    BY <1>1, <1>2, <1>4 DEF Opened
  <1>6. RepositoryInv'
    BY <1>1, <1>2, <1>4 DEF RepositoryInv
  <1> QED
    BY <1>5, <1>6

\* GitHub gives a new pull request the first free number.
LEMMA NextPullIsFirstFree ==
  ASSUME RepositoryInv, CanOpenPull
  PROVE  /\ NextPull \in Pulls /\ github.pulls[NextPull].state = "none"
         /\ \A m \in Pulls : github.pulls[m].state = "none" <=> m >= NextPull
  <1>1. PICK k \in 0 .. MaxPulls : \A n \in Pulls : github.pulls[n].state = "none" <=> n > k
    BY DEF RepositoryInv
  <1>2. k + 1 \in Pulls
    BY <1>1, PublishingAssumption DEF CanOpenPull, Pulls
  <1>3. /\ github.pulls[k + 1].state = "none"
        /\ \A m \in Pulls : m < k + 1 => github.pulls[m].state # "none"
    BY <1>1, <1>2, PublishingAssumption DEF Pulls
  <1>4. /\ NextPull \in Pulls /\ github.pulls[NextPull].state = "none"
        /\ \A m \in Pulls : m < NextPull => github.pulls[m].state # "none"
    BY <1>2, <1>3 DEF NextPull
  <1>5. NextPull = k + 1
    <2>1. NextPull > k
      BY <1>1, <1>4
    <2>2. ~ (k + 1 < NextPull)
      BY <1>2, <1>3, <1>4
    <2>3. NextPull \in Nat /\ k \in Nat
      BY <1>4, PublishingAssumption DEF Pulls
    <2> HIDE DEF NextPull
    <2> QED
      BY <2>1, <2>2, <2>3
  <1>6. \A m \in Pulls : m \in Nat
    BY PublishingAssumption DEF Pulls
  <1> QED
    BY <1>1, <1>2, <1>3, <1>5, <1>6

\* A new pull request of the branch.
LEMMA OpenedRepository ==
  ASSUME RepositoryInv, Approved' = Approved, CanOpenPull,
         github' = WithPull(NextPull, [state |-> "open", draft |-> TRUE,
                                       head |-> github.branch])
  PROVE  /\ RepositoryInv' /\ Opened \subseteq Opened'
         /\ NextPull \in Opened' /\ NextPull # 0
         /\ \A m \in Pulls : m > NextPull => github'.pulls[m] = NoPull
  <1> DEFINE new == [state |-> "open", draft |-> TRUE, head |-> github.branch]
             n == NextPull
             more == [github.pulls EXCEPT ![n] = new]
  <1>1. /\ github \in GitHubState /\ github.pulls \in [Pulls -> PullRow]
        /\ github.branch # 0 /\ new \in PullRow
    BY DEF RepositoryInv, GitHubState, PullRow, CanOpenPull
  <1>2. /\ n \in Pulls /\ github.pulls[n].state = "none"
        /\ \A m \in Pulls : github.pulls[m].state = "none" <=> m >= n
    BY NextPullIsFirstFree
  <1>3. github' = [github EXCEPT !.pulls = more]
    BY DEF WithPull
  <1> HIDE DEF n
  <1>4. /\ more \in [Pulls -> PullRow] /\ more[n].state = "open"
        /\ \A m \in Pulls \ {n} : more[m] = github.pulls[m]
    BY <1>1, <1>2
  <1> HIDE DEF more
  <1>5. github' \in GitHubState /\ github'.branch = github.branch /\ github'.pulls = more
    BY <1>1, <1>3, <1>4 DEF GitHubState, PullRow
  <1>6. Opened \subseteq Opened' /\ n \in Opened' /\ n # 0
    BY <1>1, <1>2, <1>4, <1>5, PublishingAssumption DEF Opened, Pulls
  <1>7. /\ n \in 0 .. MaxPulls
        /\ \A m \in Pulls : m \in Nat /\ (github'.pulls[m].state = "none" <=> m > n)
    BY <1>2, <1>4, <1>5, PublishingAssumption DEF Pulls
  <1>8. RepositoryInv'
    <2>1. \A m \in Pulls : github'.pulls[m].state = "none" => github'.pulls[m] = NoPull
      BY <1>4, <1>5 DEF RepositoryInv
    <2>2. /\ github'.branch \in Approved' \cup {HumanCommit}
          /\ github'.branch # 0
      BY <1>1, <1>5 DEF RepositoryInv
    <2> QED
      BY <1>5, <1>7, <2>1, <2>2 DEF RepositoryInv
  <1>9. \A m \in Pulls : m > n => github'.pulls[m] = NoPull
    BY <1>7, <1>8 DEF RepositoryInv
  <1> QED
    BY <1>6, <1>8, <1>9 DEF n

--------------------------------------------------------------------------------
(* Transactions *)

\* A transaction leaves everything that was safe so, if it replaces the recorded pull
\* request of an open migration only with a new version.
LEMMA TransactionAdvances ==
  ASSUME PublishingInv, StoreInv', RowsAdvance, github' = github,
         \/ publication'.pull = publication.pull
         \/ migration.status # "pr_opened"
         \/ migration'.version > migration.version
  PROVE  /\ WorldAdvances /\ RepositoryInv' /\ Opened' = Opened
         /\ Approved \subseteq Approved'
         /\ SafeRow \subseteq SafeRow' /\ SafePublishers \subseteq SafePublishers'
         /\ SafeHandlers \subseteq SafeHandlers'
  <1>1. Opened' = Opened /\ Approved \subseteq Approved'
    BY ApprovalsStand DEF Opened
  <1>2. WorldAdvances
    BY <1>1 DEF WorldAdvances, RowsAdvance
  <1>3. migration'.version \in Nat
    BY DEF StoreInv, StoreTypeOK, MigrationRow
  <1>4. RepositoryInv'
    BY <1>1 DEF PublishingInv, RepositoryInv
  <1> QED
    BY <1>1, <1>2, <1>3, <1>4, SafetyStands

\* A transaction that does not touch the publication, of a process that does not move.
LEMMA RowsMove ==
  ASSUME PublishingInv, StoreInv', RowsAdvance, publication' = publication,
         pubJobs' \in Nat, UNCHANGED Outside
  PROVE  PublishingInv'
  <1>1. /\ RepositoryInv' /\ SafeRow \subseteq SafeRow'
        /\ SafePublishers \subseteq SafePublishers' /\ SafeHandlers \subseteq SafeHandlers'
    BY TransactionAdvances DEF Outside
  <1>2. PublicationInv'
    BY <1>1 DEF PublishingInv, PublicationInv
  <1>3. /\ publishers' \in [Publishers -> SafePublishers']
        /\ handlers' \in [Handlers -> SafeHandlers']
    BY <1>1 DEF PublishingInv, Outside
  <1> QED
    BY <1>1, <1>2, <1>3 DEF PublishingInv

\* A publication is in progress for an attempt, which is then migration.current.
LEMMA PublicationHasAnAttempt ==
  ASSUME StoreInv, publication.status \in {"queued", "publishing"}
  PROVE  /\ publication.attempt # 0 /\ publication.attempt = migration.current
         /\ migration.status = "pr_opening"
  BY DEF StoreInv, PublicationFollowsMigration, CurrentAttemptExplainsMigration

\* queue_publication: the attempt it publishes is approved by that very request.
LEMMA PublishSafe ==
  ASSUME PublishingInv, Publish
  PROVE  PublishingInv' /\ WorldAdvances
  <1>1. PICK key \in Keys : QueuePublication(key, migration.version)
    BY DEF Publish
  <1>2. /\ StoreInv /\ migration.version \in Nat /\ publication \in PublicationRow
        /\ migration.current \in AttemptIdOrNull
    BY DEF PublishingInv, StoreInv, StoreTypeOK, MigrationRow
  <1>3. /\ StoreInv' /\ RowsAdvance /\ migration'.version > migration.version
        /\ \E r \in records' : r.op = "publish" /\ r.attempt = migration.current
    BY <1>1, <1>2, QueuePublicationInv, QueuePublicationAdvances
  <1>4. github' = github /\ UNCHANGED Outside /\ pubJobs' \in Nat
    BY DEF Publish, Outside, PublishingInv
  <1>5. /\ WorldAdvances /\ RepositoryInv' /\ Opened' = Opened
        /\ Approved \subseteq Approved'
        /\ SafePublishers \subseteq SafePublishers' /\ SafeHandlers \subseteq SafeHandlers'
    BY <1>3, <1>4, TransactionAdvances
  <1>6. migration.current \in Approved'
    <2>1. /\ Publishable(migration.current) /\ migration.current \in AttemptIds
          /\ attempts' = attempts
      BY <1>1, <1>2, MaxAttemptsAssumption
         DEF QueuePublication, CanQueuePublication, AttemptIds, AttemptIdOrNull
    <2>2. Publishable(migration.current)'
           <=> /\ attempts'[migration'.current].status = "completed"
               /\ attempts'[migration'.current].recommendation = "approve"
               /\ attempts'[migration'.current].passed
      BY DEF Publishable
    <2>3. migration'.current = migration.current
      BY <1>1 DEF QueuePublication, MovedMigration
    <2> QED
      BY <1>3, <2>1, <2>2, <2>3 DEF Approved, Publishable
  <1>7. PublicationInv'
    <2> DEFINE a == migration.current
               tree == Kept(a, publication.tree, 0)
               commit == Kept(a, publication.commit, 0)
               check == Kept(a, publication.check, FALSE)
    <2>1. publication' = [publication EXCEPT !.status = "queued", !.attempt = a,
                            !.tree = tree, !.commit = commit, !.check = check]
      BY <1>1 DEF QueuePublication
    <2>2. publication \in SafeRow /\ 0 \in Approved
      BY SafeObjects DEF PublishingInv, PublicationInv
    <2>3. /\ publication.tree \in Approved /\ publication.commit \in Approved
          /\ publication.head \in Approved /\ publication.pull \in Opened
          /\ publication.check \in BOOLEAN
      BY <2>2 DEF SafeRow
    <2>4. /\ tree \in Approved' /\ commit \in Approved' /\ check \in BOOLEAN
          /\ a \in Approved' /\ publication.head \in Approved'
          /\ publication.pull \in Opened'
      BY <1>5, <1>6, <2>2, <2>3 DEF Kept
    <2>5. publication = [status |-> publication.status, attempt |-> publication.attempt,
                         tree |-> publication.tree, commit |-> publication.commit,
                         head |-> publication.head, pull |-> publication.pull,
                         check |-> publication.check]
      BY <1>2 DEF PublicationRow
    <2> HIDE DEF a, tree, commit, check
    <2>6. publication' = [status |-> "queued", attempt |-> a, tree |-> tree,
                          commit |-> commit, head |-> publication.head,
                          pull |-> publication.pull, check |-> check]
      BY <2>1, <2>5
    <2>7. publication' \in SafeRow' /\ publication'.status = "queued"
      BY <2>4, <2>6 DEF SafeRow, PublicationStates
    <2> QED
      BY <2>7 DEF PublicationInv
  <1>8. /\ publishers' \in [Publishers -> SafePublishers']
        /\ handlers' \in [Handlers -> SafeHandlers']
    BY <1>4, <1>5 DEF PublishingInv, Outside
  <1> QED
    BY <1>3, <1>4, <1>5, <1>7, <1>8 DEF PublishingInv

\* The other requests and the generation worker.
LEMMA RequestsSafe ==
  ASSUME PublishingInv,
         Generate \/ Revise \/ Snooze \/ GenerationWorker \/ PublishAgain
  PROVE  PublishingInv' /\ WorldAdvances
  <1>1. StoreInv /\ migration.version \in Nat
    BY DEF PublishingInv, StoreInv, StoreTypeOK, MigrationRow
  <1>2. CASE Generate
    <2>1. PICK key \in Keys : QueueAttempt(key, migration.version)
      BY <1>2 DEF Generate
    <2>2. StoreInv' /\ RowsAdvance /\ publication' = publication
      BY <1>1, <2>1, QueueAttemptInv, QueueAttemptAdvances DEF QueueAttempt
    <2> QED
      BY <1>2, <2>2, RowsMove, TransactionAdvances DEF Generate, Outside, PublishingInv
  <1>3. CASE Revise \/ Snooze
    <2>1. PICK action \in {"revise", "snooze"}, key \in Keys :
             ApplyDeveloperAction(action, key, migration.version)
      BY <1>3 DEF Revise, Snooze
    <2>2. StoreInv' /\ RowsAdvance /\ publication' = publication
      BY <1>1, <2>1, ApplyDeveloperActionInv, ApplyDeveloperActionAdvances
         DEF DeveloperActions
    <2> QED
      BY <1>3, <2>2, RowsMove, TransactionAdvances
         DEF Revise, Snooze, Outside, PublishingInv
  <1>4. CASE GenerationWorker
    <2>1. PICK a \in AttemptIds :
            ClaimAttempt(a) \/ CompleteAttempt(a, "approve", TRUE) \/ FailAttempt(a)
      BY <1>4 DEF GenerationWorker
    <2>2. StoreInv' /\ RowsAdvance
      BY <1>1, <2>1, ClaimAttemptInv, CompleteAttemptInv, FailAttemptInv,
         GenerationAdvances DEF DeveloperActions
    <2>3. publication' = publication
      BY <2>1 DEF ClaimAttempt, CompleteAttempt, FailAttempt, storeVars
    <2> QED
      BY <1>4, <2>2, <2>3, RowsMove, TransactionAdvances
         DEF GenerationWorker, Outside, PublishingInv
  <1>5. CASE PublishAgain
    <2>1. UNCHANGED storeVars /\ UNCHANGED Outside /\ pubJobs' \in Nat
      BY <1>5 DEF PublishAgain, PublishingInv
    <2>2. StoreInv' /\ RowsAdvance
      BY <1>1, <2>1, StoreUnchangedInv, RowsStand DEF storeVars
    <2> QED
      BY <2>1, <2>2, RowsMove, TransactionAdvances DEF storeVars, Outside
  <1> QED
    BY <1>2, <1>3, <1>4, <1>5

--------------------------------------------------------------------------------
(* People, handlers and publishers *)

\* A step that writes to GitHub only.
LEMMA RepositoryMoves ==
  ASSUME PublishingInv, UNCHANGED <<storeVars, pubJobs>>, RepositoryInv',
         Opened \subseteq Opened', publishers' \in [Publishers -> SafePublishers'],
         handlers' \in [Handlers -> SafeHandlers']
  PROVE  PublishingInv' /\ WorldAdvances
  <1>1. WorldAdvances /\ StoreInv' /\ PublicationInv'
    BY QuietWorld
  <1> QED
    BY <1>1 DEF PublishingInv

\* People push, close and ready pull requests, and move the base branch.
LEMMA PeopleSafe ==
  ASSUME PublishingInv, HumanPush \/ HumanEditsPull \/ BaseMoves
  PROVE  PublishingInv' /\ WorldAdvances /\ Opened' = Opened
  <1>1. /\ UNCHANGED <<storeVars, pubJobs, publishers, handlers>> /\ RepositoryInv
        /\ Approved' = Approved /\ github \in GitHubState
    <2>1. UNCHANGED <<storeVars, pubJobs, publishers, handlers>>
      BY DEF HumanPush, HumanEditsPull, BaseMoves
    <2> QED
      BY <2>1 DEF PublishingInv, RepositoryInv, Approved, Publishable, storeVars
  <1>2. RepositoryInv' /\ Opened' = Opened
    <2>1. CASE HumanPush
      <3>1. HumanCommit # 0 /\ github' = Pushed(HumanCommit)
        BY <2>1, MaxAttemptsAssumption DEF HumanPush, HumanCommit
      <3> QED
        BY <1>1, <3>1, PushedRepository
    <2>2. CASE HumanEditsPull
      <3>1. PICK n \in OpenPulls :
               \/ github' = WithPull(n, [github.pulls[n] EXCEPT !.state = "closed"])
               \/ github' = WithPull(n, [github.pulls[n] EXCEPT !.draft = FALSE])
        BY <2>2 DEF HumanEditsPull
      <3>2. /\ n \in Pulls /\ github.pulls[n] \in PullRow
            /\ github.pulls[n].state = "open"
        BY <1>1, <3>1 DEF OpenPulls, GitHubState, PullRow
      <3>3. n \in Opened \ {0}
        BY <3>2, PublishingAssumption DEF Opened, Pulls
      <3>4. /\ [github.pulls[n] EXCEPT !.state = "closed"] \in PullRow
            /\ [github.pulls[n] EXCEPT !.state = "closed"].state # "none"
            /\ [github.pulls[n] EXCEPT !.draft = FALSE] \in PullRow
            /\ [github.pulls[n] EXCEPT !.draft = FALSE].state # "none"
        BY <3>2 DEF PullRow
      <3> QED
        BY <1>1, <3>1, <3>3, <3>4, EditedRepository
    <2>3. CASE BaseMoves
      <3>1. github' = [github EXCEPT !.moved = TRUE]
        BY <2>3 DEF BaseMoves
      <3>2. /\ github' \in GitHubState /\ github'.branch = github.branch
            /\ github'.pulls = github.pulls
        BY <1>1, <3>1 DEF GitHubState
      <3> QED
        BY <1>1, <3>2 DEF RepositoryInv, Opened
    <2> QED
      BY <2>1, <2>2, <2>3
  <1>3. /\ publishers' \in [Publishers -> SafePublishers']
        /\ handlers' \in [Handlers -> SafeHandlers']
    BY <1>1, <1>2, QuietWorld DEF PublishingInv
  <1> QED
    BY <1>1, <1>2, <1>3, RepositoryMoves

\* A handler reads the record, and then the pull request it names; it closes or readies
\* only that one.
LEMMA HandlersSafe ==
  ASSUME PublishingInv, NEW h \in Handlers, HandlerStep(h)
  PROVE  PublishingInv' /\ WorldAdvances /\ Opened' = Opened
  <1> DEFINE q == handlers[h]
  <1>1. /\ q \in SafeHandlers /\ q \in HandlerState /\ migration.version \in Nat
        /\ handlers \in [Handlers -> SafeHandlers]
        /\ publishers \in [Publishers -> SafePublishers] /\ pubJobs \in Nat
        /\ RepositoryInv /\ PublicationInv /\ StoreInv
    BY DEF PublishingInv, StoreInv, StoreTypeOK, MigrationRow, SafeHandlers
  <1>2. \A pc \in {"idle", "apply"} : [q EXCEPT !.pc = pc] \in HandlerState
    BY <1>1 DEF HandlerState
  <1>3. IdleHandler \in SafeHandlers /\ [q EXCEPT !.pc = "idle"] \in SafeHandlers
    BY <1>1, <1>2, MaxAttemptsAssumption
       DEF IdleHandler, SafeHandlers, HandlerState, AttemptIdOrNull
  <1>4. q.pc # "idle" => \A pc \in {"apply", "idle"} : [q EXCEPT !.pc = pc] \in SafeHandlers
    BY <1>1, <1>2, <1>3 DEF SafeHandlers, HandlerState
  <1>5. ASSUME UNCHANGED <<storeVars, pubJobs, publishers, github>>,
               handlers' \in [Handlers -> SafeHandlers]
        PROVE  PublishingInv' /\ WorldAdvances /\ Opened' = Opened
    BY <1>1, <1>5, OnlyProcessesMove, QuietWorld DEF Opened
  <1>6. ASSUME NEW action \in {"approve", "decline"}, Begin(h, action)
        PROVE  PublishingInv' /\ WorldAdvances /\ Opened' = Opened
    <2>1. /\ UNCHANGED <<storeVars, pubJobs, publishers, github>>
          /\ \/ /\ migration.status = "pr_opened"
                /\ handlers' = [handlers EXCEPT ![h] =
                     [pc |-> "verify", action |-> action, expected |-> migration.version,
                      pull |-> publication.pull, head |-> publication.head]]
             \/ /\ migration.status # "pr_opened"
                /\ handlers' = [handlers EXCEPT ![h] =
                     [pc |-> "apply", action |-> action, expected |-> migration.version,
                      pull |-> 0, head |-> 0]]
      BY <1>6 DEF Begin, LoadedPull
    <2>2. /\ publication.pull \in Opened /\ publication.pull \in Nat
          /\ publication.head \in AttemptIdOrNull /\ 0 \in AttemptIdOrNull
          /\ migration.status = "pr_opened" => publication.pull # 0
      BY <1>1, SafeObjects, MaxAttemptsAssumption
         DEF PublicationInv, SafeRow, StoreInv, PublicationFollowsMigration,
             AttemptIdOrNull
    <2>3. handlers' \in [Handlers -> SafeHandlers]
      <3>1. CASE migration.status = "pr_opened"
        <4> DEFINE new == [pc |-> "verify", action |-> action,
                           expected |-> migration.version,
                           pull |-> publication.pull, head |-> publication.head]
        <4>1. new \in SafeHandlers
          BY <1>1, <2>2, <3>1 DEF SafeHandlers, HandlerState
        <4>2. handlers' = [handlers EXCEPT ![h] = new]
          BY <2>1, <3>1
        <4> HIDE DEF new
        <4> QED
          BY <1>1, <4>1, <4>2
      <3>2. CASE migration.status # "pr_opened"
        <4> DEFINE new == [pc |-> "apply", action |-> action,
                           expected |-> migration.version, pull |-> 0, head |-> 0]
        <4>1. new \in SafeHandlers
          BY <1>1, <2>2, <3>2 DEF SafeHandlers, HandlerState
        <4>2. handlers' = [handlers EXCEPT ![h] = new]
          BY <2>1, <3>2
        <4> HIDE DEF new
        <4> QED
          BY <1>1, <4>1, <4>2
      <3> QED
        BY <3>1, <3>2
    <2> QED
      BY <1>5, <2>1, <2>3
  <1>7. CASE Verify(h)
    <2>1. /\ q.pc = "verify" /\ UNCHANGED <<storeVars, pubJobs, publishers, github>>
          /\ \E pc \in {"idle", "write", "apply"} : HandlerGoto(h, pc)
      BY <1>7 DEF Verify
    <2>2. \A pc \in {"idle", "write", "apply"} : [q EXCEPT !.pc = pc] \in SafeHandlers
      BY <1>1, <1>4, <2>1 DEF SafeHandlers, HandlerState
    <2>3. handlers' \in [Handlers -> SafeHandlers]
      BY <1>1, <2>1, <2>2 DEF HandlerGoto
    <2> QED
      BY <1>5, <2>1, <2>3
  <1>8. CASE Write(h)
    <2> DEFINE pull == github.pulls[q.pull]
    <2>1. /\ q.pc = "write" /\ UNCHANGED <<storeVars, pubJobs, publishers>>
          /\ \E pc \in {"idle", "apply"} : HandlerGoto(h, pc)
          /\ \/ github' = github
             \/ github' = WithPull(q.pull, [pull EXCEPT !.draft = FALSE])
             \/ github' = WithPull(q.pull, [pull EXCEPT !.state = "closed"])
      BY <1>8 DEF Write
    <2>2. q.pull \in Opened \ {0} /\ q.pull \in Pulls /\ pull.state # "none"
      BY <1>1, <2>1 DEF SafeHandlers, Opened
    <2>3. pull \in PullRow
      BY <1>1, <2>2 DEF RepositoryInv, GitHubState, PullRow
    <2>4. Approved' = Approved
      BY <2>1 DEF Approved, Publishable, storeVars
    <2>5. RepositoryInv' /\ Opened' = Opened
      <3>1. CASE github' = github
        BY <1>1, <2>4, <3>1 DEF RepositoryInv, Opened
      <3>2. CASE github' # github
        <4> DEFINE ready == [pull EXCEPT !.draft = FALSE]
                   closed == [pull EXCEPT !.state = "closed"]
        <4>1. /\ ready \in PullRow /\ ready.state # "none"
              /\ closed \in PullRow /\ closed.state # "none"
          BY <2>2, <2>3 DEF PullRow
        <4>2. github' = WithPull(q.pull, ready) \/ github' = WithPull(q.pull, closed)
          BY <2>1, <3>2
        <4> HIDE DEF q, ready, closed
        <4> QED
          BY <1>1, <2>2, <2>4, <4>1, <4>2, EditedRepository
      <3> QED
        BY <3>1, <3>2
    <2>6. handlers' \in [Handlers -> SafeHandlers']
      <3>1. handlers' \in [Handlers -> SafeHandlers]
        BY <1>1, <1>4, <2>1 DEF HandlerGoto
      <3> QED
        BY <2>1, <2>5, <3>1, QuietWorld
    <2>7. publishers' \in [Publishers -> SafePublishers']
      BY <1>1, <2>1, <2>5, QuietWorld
    <2> QED
      BY <2>1, <2>5, <2>6, <2>7, RepositoryMoves
  <1>9. CASE Apply(h)
    <2>1. /\ UNCHANGED <<github, pubJobs, publishers>>
          /\ handlers' = [handlers EXCEPT ![h] = IdleHandler]
          /\ \/ \E key \in Keys : ApplyDeveloperAction(q.action, key, q.expected)
             \/ UNCHANGED storeVars
      BY <1>9 DEF Apply
    <2>2. /\ q.action \in DeveloperActions /\ q.expected \in Nat
          /\ handlers' \in [Handlers -> SafeHandlers]
      BY <1>1, <1>3, <2>1 DEF HandlerState, DeveloperActions
    <2>3. StoreInv' /\ RowsAdvance /\ publication' = publication
      <3>1. CASE UNCHANGED storeVars
        BY <1>1, <3>1, StoreUnchangedInv, RowsStand DEF storeVars
      <3>2. CASE \E key \in Keys : ApplyDeveloperAction(q.action, key, q.expected)
        BY <1>1, <2>2, <3>2, ApplyDeveloperActionInv, ApplyDeveloperActionAdvances
      <3> QED
        BY <2>1, <3>1, <3>2
    <2>4. /\ WorldAdvances /\ RepositoryInv' /\ Opened' = Opened /\ SafeRow \subseteq SafeRow'
          /\ SafePublishers \subseteq SafePublishers' /\ SafeHandlers \subseteq SafeHandlers'
      BY <2>1, <2>3, TransactionAdvances
    <2>5. PublicationInv'
      BY <1>1, <2>3, <2>4 DEF PublicationInv
    <2> QED
      BY <1>1, <2>1, <2>2, <2>3, <2>4, <2>5 DEF PublishingInv
  <1>10. CASE HandlerDies(h)
    <2>1. handlers' \in [Handlers -> SafeHandlers]
      BY <1>1, <1>3, <1>10 DEF HandlerDies, HandlerGoto
    <2> QED
      BY <1>5, <1>10, <2>1 DEF HandlerDies
  <1> QED
    BY <1>6, <1>7, <1>8, <1>9, <1>10 DEF HandlerStep

\* A publisher's record is safe field by field.
LEMMA SafePublisherFields ==
  ASSUME NEW p \in SafePublishers
  PROVE  /\ p.pc \in PublisherPCs /\ p.record \in SafeRow /\ p.seen \in Commits
         /\ p.tree \in Approved /\ p.commit \in Approved /\ p.pull \in Opened
         /\ p.record.attempt \in Approved /\ p.record.tree \in Approved
         /\ p.record.commit \in Approved /\ p.record.head \in Approved
         /\ p.record.pull \in Opened /\ p.record.check \in BOOLEAN
  BY DEF SafePublishers, SafeRow

\* A publisher may give up at any point: nothing it does then names an object.
LEMMA GivingUpIsSafe ==
  /\ IdlePublisher \in SafePublishers
  /\ \A p \in SafePublishers : [p EXCEPT !.pc = "failing"] \in SafePublishers
  <1>1. NoRecord \in SafeRow /\ NoRecord.pull = 0
    BY SafeObjects DEF NoRecord, SafeRow, PublicationStates
  <1>2. 0 \in Commits
    BY MaxAttemptsAssumption DEF Commits, HumanCommit
  <1>3. IdlePublisher \in SafePublishers
    BY <1>1, <1>2, SafeObjects DEF IdlePublisher, SafePublishers, PublisherPCs
  <1>4. ASSUME NEW p \in SafePublishers
        PROVE  [p EXCEPT !.pc = "failing"] \in SafePublishers
    BY <1>4 DEF SafePublishers, PublisherPCs
  <1> QED
    BY <1>3, <1>4

\* claim_publication copies the row into the publisher's context.
LEMMA ClaimSafe ==
  ASSUME PublishingInv, NEW w \in Publishers, Claim(w)
  PROVE  PublishingInv' /\ WorldAdvances
  <1>1. /\ publishers \in [Publishers -> SafePublishers]
        /\ handlers \in [Handlers -> SafeHandlers]
        /\ RepositoryInv /\ PublicationInv /\ StoreInv /\ pubJobs \in Nat
        /\ UNCHANGED <<github, handlers>> /\ pubJobs' \in Nat
    BY DEF PublishingInv, Claim
  <1>2. CASE ClaimPublication
    <2> DEFINE new == [IdlePublisher EXCEPT !.pc = "base", !.record = publication',
                                            !.pull = publication.pull]
    <2>1. /\ publication.status = "queued" /\ publication \in SafeRow
          /\ publication' = [publication EXCEPT !.status = "publishing"]
          /\ publication.attempt # 0
          /\ UNCHANGED <<migration, attempts, records>>
      BY <1>1, <1>2, PublicationHasAnAttempt
         DEF ClaimPublication, CanClaimPublication, PublicationInv
    <2>2. StoreInv' /\ RowsAdvance
      BY <1>1, <1>2, <2>1, ClaimPublicationInv, RowsStand
    <2>3. /\ publication' \in SafeRow /\ publication'.status = "publishing"
          /\ publication'.pull = publication.pull
          /\ publication'.attempt = publication.attempt
          /\ publication.pull \in Opened
      BY <2>1 DEF SafeRow, PublicationStates
    <2>4. /\ WorldAdvances /\ RepositoryInv' /\ SafeRow \subseteq SafeRow'
          /\ SafePublishers \subseteq SafePublishers' /\ SafeHandlers \subseteq SafeHandlers'
      BY <1>1, <2>2, <2>3, TransactionAdvances
    <2>5. publishers' = [publishers EXCEPT ![w] = new]
      <3>1. publishers[w].pc = "idle" /\ CanClaimPublication
        BY <1>2 DEF Claim, At, ClaimPublication
      <3>2. publication' # publication
        BY <2>1, <2>3
      <3>3. ~ UNCHANGED storeVars
        BY <3>2 DEF storeVars
      <3> QED
        BY <3>1, <3>3 DEF Claim
    <2>6. new \in SafePublishers
      <3>1. IdlePublisher \in SafePublishers
        BY GivingUpIsSafe
      <3> QED
        BY <2>1, <2>3, <3>1 DEF SafePublishers, PublisherPCs
    <2> HIDE DEF new
    <2>7. publishers' \in [Publishers -> SafePublishers']
      BY <1>1, <2>4, <2>5, <2>6
    <2>8. PublicationInv'
      BY <2>3, <2>4 DEF PublicationInv
    <2> QED
      BY <1>1, <2>2, <2>4, <2>7, <2>8 DEF PublishingInv
  <1>3. CASE ~ ClaimPublication
    <2>1. UNCHANGED storeVars /\ (publishers' = publishers \/ Goto(w, "failing"))
      BY <1>3 DEF Claim
    <2>2. publishers' \in [Publishers -> SafePublishers]
      BY <1>1, <2>1, GivingUpIsSafe DEF Goto
    <2> QED
      BY <1>1, <2>1, <2>2, OnlyProcessesMove, QuietWorld DEF Opened
  <1> QED
    BY <1>2, <1>3

\* The requests of a publisher that only read.
LEMMA ReadsSafe ==
  ASSUME PublishingInv, NEW w \in Publishers,
         CheckBase(w) \/ CheckPull(w) \/ ReadBranch(w) \/ Raise(w) \/ Crash(w)
  PROVE  PublishingInv' /\ WorldAdvances
  <1> DEFINE p == publishers[w]
  <1>1. /\ publishers \in [Publishers -> SafePublishers] /\ p \in SafePublishers
        /\ handlers \in [Handlers -> SafeHandlers] /\ RepositoryInv /\ pubJobs \in Nat
        /\ UNCHANGED <<storeVars, github, pubJobs, handlers>>
    BY DEF PublishingInv, CheckBase, CheckPull, ReadBranch, Raise, Crash
  <1>2. CASE CheckBase(w) \/ CheckPull(w) \/ Raise(w) \/ Crash(w)
    <2>1. \A pc \in {"pull", "branch"} :
             p.pc \in {"base", "pull"} => [p EXCEPT !.pc = pc] \in SafePublishers
      BY <1>1 DEF SafePublishers, PublisherPCs
    <2>2. \/ publishers' = [publishers EXCEPT ![w] = IdlePublisher]
          \/ publishers' = [publishers EXCEPT ![w] = [p EXCEPT !.pc = "failing"]]
          \/ \E pc \in {"pull", "branch"} :
               /\ p.pc \in {"base", "pull"}
               /\ publishers' = [publishers EXCEPT ![w] = [p EXCEPT !.pc = pc]]
      BY <1>2 DEF CheckBase, CheckPull, Raise, Crash, At, Goto
    <2>3. publishers' \in [Publishers -> SafePublishers]
      BY <1>1, <2>1, <2>2, GivingUpIsSafe
    <2> QED
      BY <1>1, <2>3, OnlyProcessesMove, QuietWorld DEF Opened
  <1>3. CASE ReadBranch(w)
    <2> DEFINE next == IF Owned(p.record, github.branch) THEN "tree" ELSE "failing"
               new == [p EXCEPT !.seen = github.branch, !.pc = next]
    <2>1. publishers' = [publishers EXCEPT ![w] = new] /\ p.pc = "branch"
      BY <1>3 DEF ReadBranch, At
    <2>2. github.branch \in Commits
      BY <1>1 DEF RepositoryInv, GitHubState
    <2>3. Owned(p.record, github.branch) /\ p.record.pull # 0
            => github.branch \notin {0, HumanCommit}
      <3>1. p.record.pull \in Opened
        BY <1>1, SafePublisherFields
      <3>2. p.record.pull # 0 => github.branch # 0
        BY <1>1, <3>1 DEF RepositoryInv
      <3>3. p.record.head # HumanCommit /\ p.record.commit # HumanCommit
        BY <1>1, SafePublisherFields, SafeObjects
      <3> QED
        BY <3>2, <3>3 DEF Owned
    <2>4. new \in SafePublishers
      <3>1. CASE Owned(p.record, github.branch)
        <4>1. new = [p EXCEPT !.seen = github.branch, !.pc = "tree"]
          BY <3>1
        <4> HIDE DEF new
        <4> QED
          BY <1>1, <2>1, <2>2, <2>3, <3>1, <4>1 DEF SafePublishers, PublisherPCs
      <3>2. CASE ~ Owned(p.record, github.branch)
        <4>1. new = [p EXCEPT !.seen = github.branch, !.pc = "failing"]
          BY <3>2
        <4> HIDE DEF new
        <4> QED
          BY <1>1, <2>1, <2>2, <4>1 DEF SafePublishers, PublisherPCs
      <3> QED
        BY <3>1, <3>2
    <2> HIDE DEF new
    <2>5. publishers' \in [Publishers -> SafePublishers]
      BY <1>1, <2>1, <2>4
    <2> QED
      BY <1>1, <2>5, OnlyProcessesMove, QuietWorld DEF Opened
  <1> QED
    BY <1>2, <1>3

\* A checkpoint of a safe object, of a publisher that goes on or stops.
LEMMA CheckpointSafe ==
  ASSUME PublishingInv, NEW w \in Publishers, NEW row \in SafeRow,
         row.status = publication.status, row.attempt = publication.attempt,
         RecordProgress(row) \/ UNCHANGED storeVars,
         NEW p \in SafePublishers, publishers' = [publishers EXCEPT ![w] = p],
         UNCHANGED <<github, pubJobs, handlers>>
  PROVE  PublishingInv' /\ WorldAdvances
  <1>1. /\ publishers \in [Publishers -> SafePublishers]
        /\ handlers \in [Handlers -> SafeHandlers] /\ PublicationInv /\ StoreInv
        /\ pubJobs \in Nat
    BY DEF PublishingInv
  <1>2. publishers' \in [Publishers -> SafePublishers]
    BY <1>1
  <1>3. CASE UNCHANGED storeVars
    BY <1>1, <1>2, <1>3, OnlyProcessesMove, QuietWorld DEF Opened
  <1>4. CASE RecordProgress(row)
    <2>1. /\ publication' = IF publication.status = "publishing" THEN row ELSE publication
          /\ UNCHANGED <<migration, attempts, latest, records>>
      BY <1>4 DEF RecordProgress
    <2>2. StoreInv' /\ RowsAdvance
      BY <1>1, <1>4, <2>1, RecordProgressInv, RowsStand, SafeObjects
    <2>3. publication'.pull = publication.pull \/ migration.status # "pr_opened"
      BY <1>1, <2>1 DEF StoreInv, PublicationFollowsMigration
    <2>4. /\ WorldAdvances /\ RepositoryInv' /\ SafeRow \subseteq SafeRow'
          /\ SafePublishers \subseteq SafePublishers' /\ SafeHandlers \subseteq SafeHandlers'
      BY <2>2, <2>3, TransactionAdvances
    <2>5. PublicationInv'
      BY <1>1, <2>1, <2>4 DEF PublicationInv
    <2> QED
      BY <1>1, <1>2, <2>2, <2>4, <2>5 DEF PublishingInv
  <1> QED
    BY <1>3, <1>4

\* One field of the row at a time.
LEMMA CheckpointRow ==
  ASSUME publication \in SafeRow, NEW c \in Approved, NEW n \in Opened
  PROVE  /\ [publication EXCEPT !.tree = c] \in SafeRow
         /\ [publication EXCEPT !.commit = c] \in SafeRow
         /\ [publication EXCEPT !.head = c] \in SafeRow
         /\ [publication EXCEPT !.pull = n] \in SafeRow
         /\ [publication EXCEPT !.check = TRUE] \in SafeRow
  BY DEF SafeRow

\* The steps that checkpoint what they created.
LEMMA CheckpointsSafe ==
  ASSUME PublishingInv, NEW w \in Publishers,
         \/ MakeTree(w) \/ MakeCommit(w) \/ RecordRef(w) \/ RecordPull(w) \/ MakeCheck(w)
  PROVE  PublishingInv' /\ WorldAdvances
  <1> DEFINE p == publishers[w]
  <1>1. /\ p \in SafePublishers /\ publication \in SafeRow /\ publication \in PublicationRow
        /\ UNCHANGED <<github, pubJobs, handlers>>
    BY SafeObjects DEF PublishingInv, PublicationInv, MakeTree, MakeCommit, RecordRef,
                       RecordPull, MakeCheck
  <1>2. /\ p.tree \in Approved /\ p.commit \in Approved /\ p.pull \in Opened
        /\ p.record.attempt \in Approved /\ p.record.tree \in Approved
        /\ p.record.commit \in Approved
    BY <1>1, SafePublisherFields
  <1>3. CASE MakeTree(w)
    <2> DEFINE tree == IF p.record.tree # 0 THEN p.record.tree ELSE p.record.attempt
               row == [publication EXCEPT !.tree = tree]
               new == [p EXCEPT !.tree = tree, !.pc = "commit"]
    <2>1. /\ p.pc = "tree" /\ publishers' = [publishers EXCEPT ![w] = new]
          /\ RecordProgress(row) \/ UNCHANGED storeVars
      BY <1>3 DEF MakeTree, At
    <2>2. tree \in Approved /\ tree # 0
      BY <1>1, <1>2, <2>1 DEF SafePublishers
    <2> HIDE DEF tree
    <2>3. new \in SafePublishers
      BY <1>1, <2>1, <2>2 DEF SafePublishers, PublisherPCs
    <2>4. row \in SafeRow /\ row.status = publication.status
          /\ row.attempt = publication.attempt
      BY <1>1, <1>2, <2>2, CheckpointRow DEF PublicationRow
    <2> HIDE DEF row, new, p
    <2> QED
      BY <1>1, <2>1, <2>3, <2>4, CheckpointSafe
  <1>4. CASE MakeCommit(w)
    <2> DEFINE commit == IF p.record.commit # 0 THEN p.record.commit ELSE p.tree
               row == [publication EXCEPT !.commit = commit]
               new == [p EXCEPT !.commit = commit, !.pc = "ref"]
    <2>1. /\ p.pc = "commit" /\ publishers' = [publishers EXCEPT ![w] = new]
          /\ RecordProgress(row) \/ UNCHANGED storeVars
      BY <1>4 DEF MakeCommit, At
    <2>2. commit \in Approved /\ commit # 0
      BY <1>1, <1>2, <2>1 DEF SafePublishers
    <2> HIDE DEF commit
    <2>3. new \in SafePublishers
      BY <1>1, <2>1, <2>2 DEF SafePublishers, PublisherPCs
    <2>4. row \in SafeRow /\ row.status = publication.status
          /\ row.attempt = publication.attempt
      BY <1>1, <1>2, <2>2, CheckpointRow DEF PublicationRow
    <2> HIDE DEF row, new, p
    <2> QED
      BY <1>1, <2>1, <2>3, <2>4, CheckpointSafe
  <1>5. CASE RecordRef(w)
    <2> DEFINE row == [publication EXCEPT !.head = p.commit]
               new == [p EXCEPT !.pc = "draft"]
    <2>1. /\ p.pc = "recordRef" /\ publishers' = [publishers EXCEPT ![w] = new]
          /\ RecordProgress(row)
      BY <1>5 DEF RecordRef, At, Goto
    <2>2. new \in SafePublishers
      BY <1>1, <2>1 DEF SafePublishers, PublisherPCs
    <2>3. row \in SafeRow /\ row.status = publication.status
          /\ row.attempt = publication.attempt
      BY <1>1, <1>2, CheckpointRow DEF PublicationRow
    <2> HIDE DEF row, new, p
    <2> QED
      BY <1>1, <2>1, <2>2, <2>3, CheckpointSafe
  <1>6. CASE RecordPull(w)
    <2> DEFINE row == [publication EXCEPT !.pull = p.pull]
               new == [p EXCEPT !.pc = "check"]
    <2>1. /\ p.pc = "recordPull" /\ publishers' = [publishers EXCEPT ![w] = new]
          /\ RecordProgress(row)
      BY <1>6 DEF RecordPull, At, Goto
    <2>2. new \in SafePublishers
      BY <1>1, <2>1 DEF SafePublishers, PublisherPCs
    <2>3. row \in SafeRow /\ row.status = publication.status
          /\ row.attempt = publication.attempt
      BY <1>1, <1>2, CheckpointRow DEF PublicationRow
    <2> HIDE DEF row, new, p
    <2> QED
      BY <1>1, <2>1, <2>2, <2>3, CheckpointSafe
  <1>7. CASE MakeCheck(w)
    <2> DEFINE row == [publication EXCEPT !.check = TRUE]
               new == [p EXCEPT !.pc = "finish"]
    <2>1. /\ p.pc = "check" /\ publishers' = [publishers EXCEPT ![w] = new]
          /\ RecordProgress(row) \/ UNCHANGED storeVars
      BY <1>7 DEF MakeCheck, At, Goto
    <2>2. new \in SafePublishers
      BY <1>1, <2>1 DEF SafePublishers, PublisherPCs
    <2>3. row \in SafeRow /\ row.status = publication.status
          /\ row.attempt = publication.attempt
      BY <1>1, <1>2, CheckpointRow DEF PublicationRow
    <2> HIDE DEF row, new, p
    <2> QED
      BY <1>1, <2>1, <2>2, <2>3, CheckpointSafe
  <1> QED
    BY <1>3, <1>4, <1>5, <1>6, <1>7

\* The two requests that write the branch and the pull request.
LEMMA WritesSafe ==
  ASSUME PublishingInv, NEW w \in Publishers, WriteRef(w) \/ WritePull(w)
  PROVE  PublishingInv' /\ WorldAdvances
  <1> DEFINE p == publishers[w]
  <1>1. /\ publishers \in [Publishers -> SafePublishers] /\ p \in SafePublishers
        /\ handlers \in [Handlers -> SafeHandlers] /\ RepositoryInv
        /\ p.commit \in Approved
        /\ UNCHANGED <<storeVars, pubJobs, handlers>> /\ Approved' = Approved
    <2>1. UNCHANGED <<storeVars, pubJobs, handlers>>
      BY DEF WriteRef, WritePull
    <2>2. publishers \in [Publishers -> SafePublishers] /\ p \in SafePublishers
      BY DEF PublishingInv
    <2> QED
      BY <2>1, <2>2, SafePublisherFields
         DEF PublishingInv, Approved, Publishable, storeVars
  <1>2. CASE WriteRef(w)
    <2>1. /\ p.pc = "ref"
          /\ \E pc \in {"recordRef", "draft", "failing"} :
                publishers' = [publishers EXCEPT ![w] = [p EXCEPT !.pc = pc]]
          /\ github' = github \/ github' = Pushed(p.commit)
      BY <1>2 DEF WriteRef, At, Goto, Outcome
    <2>2. p.commit # 0
      BY <1>1, <2>1 DEF SafePublishers
    <2>3. RepositoryInv' /\ Opened \subseteq Opened'
      <3>1. CASE github' = github
        BY <1>1, <3>1 DEF RepositoryInv, Opened
      <3>2. CASE github' = Pushed(p.commit)
        BY <1>1, <2>2, <3>2, PushedRepository
      <3> QED
        BY <2>1, <3>1, <3>2
    <2>4. \A pc \in {"recordRef", "draft", "failing"} : [p EXCEPT !.pc = pc] \in SafePublishers
      BY <1>1, <2>1, SafePublisherFields DEF SafePublishers, PublisherPCs
    <2>5. publishers' \in [Publishers -> SafePublishers]
      BY <1>1, <2>1, <2>4
    <2> QED
      BY <1>1, <2>3, <2>5, QuietWorld, RepositoryMoves
  <1>3. CASE WritePull(w)
    <2>1. p.pc = "draft"
      BY <1>3 DEF WritePull, At
    <2>2. CASE p.record.pull = 0 /\ CanOpenPull
      <3>1. /\ github' = WithPull(NextPull, [state |-> "open", draft |-> TRUE,
                                            head |-> github.branch])
            /\ \/ publishers' = [publishers EXCEPT ![w] =
                                   [p EXCEPT !.pull = NextPull, !.pc = "recordPull"]]
               \/ publishers' = [publishers EXCEPT ![w] = [p EXCEPT !.pc = "failing"]]
        BY <1>3, <2>2 DEF WritePull, Goto
      <3>2. /\ RepositoryInv' /\ Opened \subseteq Opened'
            /\ NextPull \in Opened' /\ NextPull # 0
        BY <1>1, <2>2, <3>1, OpenedRepository
      <3>3. SafePublishers \subseteq SafePublishers'
        BY <1>1, <3>2, QuietWorld
      <3>4. [p EXCEPT !.pull = NextPull, !.pc = "recordPull"] \in SafePublishers'
        <4>1. p \in SafePublishers'
          BY <1>1, <3>3
        <4> HIDE DEF p
        <4> QED
          BY <3>2, <4>1, <2>1 DEF SafePublishers, PublisherPCs
      <3>5. [p EXCEPT !.pc = "failing"] \in SafePublishers'
        BY <1>1, <3>3, GivingUpIsSafe
      <3>6. publishers' \in [Publishers -> SafePublishers']
        BY <1>1, <3>1, <3>3, <3>4, <3>5
      <3>7. handlers' \in [Handlers -> SafeHandlers']
        BY <1>1, <3>2, QuietWorld
      <3> QED
        BY <1>1, <3>2, <3>6, <3>7, RepositoryMoves
    <2>3. CASE ~ (p.record.pull = 0 /\ CanOpenPull)
      <3>1. /\ github' = github
            /\ \/ publishers' = [publishers EXCEPT ![w] = [p EXCEPT !.pc = "failing"]]
               \/ /\ p.record.pull # 0
                  /\ publishers' = [publishers EXCEPT ![w] = [p EXCEPT !.pc = "recordPull"]]
        BY <1>3, <2>3 DEF WritePull, Goto
      <3>2. p.record.pull # 0 => [p EXCEPT !.pc = "recordPull"] \in SafePublishers
        BY <1>1, <2>1 DEF SafePublishers, PublisherPCs
      <3>3. publishers' \in [Publishers -> SafePublishers]
        BY <1>1, <3>1, <3>2, GivingUpIsSafe
      <3>4. RepositoryInv' /\ Opened \subseteq Opened'
        BY <1>1, <3>1 DEF RepositoryInv, Opened
      <3> QED
        BY <1>1, <3>3, <3>4, QuietWorld, RepositoryMoves
    <2> QED
      BY <2>2, <2>3
  <1> QED
    BY <1>2, <1>3

\* complete_publication overwrites the row with what its publisher made;
\* fail_publication keeps every checkpoint.
LEMMA EndsSafe ==
  ASSUME PublishingInv, NEW w \in Publishers, Finish(w) \/ Fail(w)
  PROVE  PublishingInv' /\ WorldAdvances
  <1> DEFINE p == publishers[w]
  <1>1. /\ publishers \in [Publishers -> SafePublishers] /\ p \in SafePublishers
        /\ handlers \in [Handlers -> SafeHandlers] /\ PublicationInv /\ StoreInv
        /\ publication \in SafeRow /\ publication \in PublicationRow /\ pubJobs \in Nat
        /\ UNCHANGED <<github, pubJobs, handlers>>
    BY SafeObjects DEF PublishingInv, PublicationInv, Finish, Fail
  <1>2. /\ p.tree \in Approved /\ p.commit \in Approved /\ p.pull \in Opened
        /\ p.record.attempt \in Approved
    BY <1>1, SafePublisherFields
  <1>3. publishers' \in [Publishers -> SafePublishers]
    BY <1>1, GivingUpIsSafe DEF Finish, Fail, Goto
  <1>4. CASE UNCHANGED storeVars
    BY <1>1, <1>3, <1>4, OnlyProcessesMove, QuietWorld DEF Opened
  <1>5. CASE CompletePublication(p.record.attempt, p.tree, p.commit, p.pull)
              /\ p.pc = "finish"
    <2>1. publication' = [publication EXCEPT
                            !.status = "completed", !.tree = p.tree,
                            !.commit = p.commit, !.head = p.commit, !.pull = p.pull,
                            !.check = TRUE]
      BY <1>5 DEF CompletePublication
    <2>2. publication' \in SafeRow /\ publication'.pull # 0
      <3>1. p.pull # 0
        BY <1>1, <1>5 DEF SafePublishers
      <3> HIDE DEF p
      <3> QED
        BY <1>1, <1>2, <2>1, <3>1 DEF SafeRow, PublicationStates
    <2>3. StoreInv' /\ RowsAdvance
      <3>1. /\ p.record.attempt \in AttemptIdOrNull /\ p.tree \in AttemptIdOrNull
            /\ p.commit \in AttemptIdOrNull /\ p.pull \in Nat
        BY <1>2, SafeObjects
      <3> HIDE DEF p
      <3> QED
        BY <1>1, <1>5, <3>1, CompletePublicationInv, PublicationAdvances
    <2>4. migration.status # "pr_opened"
      BY <1>5 DEF CompletePublication, CanCompletePublication
    <2>5. /\ WorldAdvances /\ RepositoryInv' /\ SafeRow \subseteq SafeRow'
          /\ SafePublishers \subseteq SafePublishers' /\ SafeHandlers \subseteq SafeHandlers'
      BY <1>1, <2>3, <2>4, TransactionAdvances
    <2> QED
      BY <1>1, <1>3, <2>2, <2>3, <2>5 DEF PublishingInv, PublicationInv
  <1>6. CASE FailPublication
    <2>1. /\ publication' \in SafeRow /\ publication'.pull = publication.pull
          /\ publication'.status \in {publication.status, "failed"}
      BY <1>1, <1>6 DEF FailPublication, storeVars, SafeRow, PublicationStates
    <2>2. StoreInv' /\ RowsAdvance
      BY <1>1, <1>6, FailPublicationInv, PublicationAdvances
    <2>3. /\ WorldAdvances /\ RepositoryInv' /\ SafeRow \subseteq SafeRow'
          /\ SafePublishers \subseteq SafePublishers' /\ SafeHandlers \subseteq SafeHandlers'
      BY <1>1, <2>1, <2>2, TransactionAdvances
    <2>4. PublicationInv'
      BY <1>1, <2>1, <2>3 DEF PublicationInv
    <2> QED
      BY <1>1, <1>3, <2>2, <2>3, <2>4 DEF PublishingInv
  <1> QED
    BY <1>4, <1>5, <1>6 DEF Finish, Fail, At

--------------------------------------------------------------------------------
(* The system *)

\* Nothing is published, opened or approved at first.
LEMMA InitSafe == Init => PublishingInv
  <1> SUFFICES ASSUME Init PROVE PublishingInv
    OBVIOUS
  <1>1. StoreInv
    BY StoreInitInv DEF Init
  <1>2. PublicationInv
    BY SafeObjects DEF Init, StoreInit, PublicationInv, SafeRow, PublicationStates
  <1>3. RepositoryInv
    <2>1. /\ github = [moved |-> FALSE, branch |-> 0, pulls |-> [n \in Pulls |-> NoPull]]
          /\ 0 \in Commits /\ NoPull \in PullRow /\ 0 \in 0 .. MaxPulls
          /\ \A n \in Pulls : n > 0
      BY MaxAttemptsAssumption, PublishingAssumption
         DEF Init, Commits, HumanCommit, NoPull, PullRow, Pulls
    <2>2. /\ github \in GitHubState /\ github.branch = 0
          /\ \A n \in Pulls : github.pulls[n] = NoPull /\ NoPull.state = "none"
      BY <2>1 DEF GitHubState, PullRow, NoPull
    <2>3. Opened = {0}
      BY <2>2 DEF Opened
    <2> QED
      BY <2>1, <2>2, <2>3, SafeObjects DEF RepositoryInv
  <1>4. /\ publishers \in [Publishers -> SafePublishers] /\ pubJobs \in Nat
    BY GivingUpIsSafe DEF Init
  <1>5. handlers \in [Handlers -> SafeHandlers]
    BY MaxAttemptsAssumption
       DEF Init, IdleHandler, SafeHandlers, HandlerState, AttemptIdOrNull
  <1> QED
    BY <1>1, <1>2, <1>3, <1>4, <1>5 DEF PublishingInv

\* Every step of everybody.
LEMMA NextSafe ==
  ASSUME PublishingInv, [Next]_vars
  PROVE  PublishingInv' /\ WorldAdvances
  <1>1. ASSUME NEW w \in Publishers, PublisherRuns(w) \/ Crash(w)
        PROVE  PublishingInv' /\ WorldAdvances
    BY <1>1, ClaimSafe, ReadsSafe, CheckpointsSafe, WritesSafe, EndsSafe DEF PublisherRuns
  <1>2. CASE UNCHANGED vars
    <2>1. /\ UNCHANGED <<storeVars, github>> /\ pubJobs' \in Nat
          /\ publishers' \in [Publishers -> SafePublishers]
          /\ handlers' \in [Handlers -> SafeHandlers]
      BY <1>2 DEF vars, PublishingInv
    <2> QED
      BY <2>1, OnlyProcessesMove, QuietWorld DEF Opened
  <1> QED
    BY <1>1, <1>2, PublishSafe, RequestsSafe, PeopleSafe, HandlersSafe
       DEF Next, PublishersLive

LEMMA PublishingInvariance == Spec => []PublishingInv
  BY InitSafe, NextSafe, PTL DEF Spec

\* The rows, the repository and the processes keep their types.
THEOREM PublishingTypeCorrect == Spec => []TypeOK
  <1>1. PublishingInv => TypeOK
    <2> SUFFICES ASSUME PublishingInv PROVE TypeOK
      OBVIOUS
    <2>1. publishers \in [Publishers -> PublisherState]
      BY SafeObjects DEF PublishingInv
    <2>2. handlers \in [Handlers -> HandlerState]
      BY DEF PublishingInv, SafeHandlers
    <2> QED
      BY <2>1, <2>2 DEF PublishingInv, StoreInv, RepositoryInv, TypeOK
  <1> QED
    BY <1>1, PublishingInvariance, PTL

\* However often a publication is interrupted, resumed or retried, and whoever else
\* writes to the repository, the branch never gets a commit of Delta Code's that was
\* not recommended, verified and asked for.
THEOREM OnlyApprovedCommitsAreEverPushed == Spec => []OnlyApprovedCommitsAreOnTheBranch
  <1>1. PublishingInv => OnlyApprovedCommitsAreOnTheBranch
    BY DEF PublishingInv, RepositoryInv, Approved, Publishable,
           OnlyApprovedCommitsAreOnTheBranch
  <1> QED
    BY <1>1, PublishingInvariance, PTL

--------------------------------------------------------------------------------
(* Action properties *)

\* Nobody but a publisher whose branch request is the next one moves people's commit
\* off the branch, and it read one of Delta Code's commits there.
THEOREM OverwritesAreOfUnseenPushes == Spec => OverwritesOnlyUnseenPushes
  <1> DEFINE Overwrites == github.branch = HumanCommit /\ github'.branch # HumanCommit
             Unseen == \E w \in Publishers :
                         publishers[w].pc = "ref" /\ publishers[w].seen \notin {0, HumanCommit}
  <1>1. ASSUME PublishingInv, [Next]_vars, Overwrites PROVE Unseen
    <2>1. /\ github \in GitHubState /\ publishers \in [Publishers -> SafePublishers]
          /\ HumanCommit # 0
      BY <1>1, MaxAttemptsAssumption DEF PublishingInv, RepositoryInv, HumanCommit
    <2>2. ASSUME NEW n, NEW pull, github' = WithPull(n, pull) PROVE FALSE
      BY <1>1, <2>1, <2>2 DEF WithPull, GitHubState
    <2>3. ~ HumanPush
      BY <1>1, <2>1 DEF HumanPush
    <2>4. ~ HumanEditsPull
      BY <2>2 DEF HumanEditsPull
    <2>5. ~ BaseMoves
      BY <1>1, <2>1 DEF BaseMoves, GitHubState
    <2>6. ASSUME NEW h \in Handlers PROVE ~ HandlerStep(h)
      BY <1>1, <2>2 DEF HandlerStep, Begin, Verify, Write, Apply, HandlerDies
    <2>7. ASSUME NEW w \in Publishers, PublisherRuns(w) \/ Crash(w) PROVE WriteRef(w)
      <3>1. WritePull(w) => FALSE
        BY <1>1, <2>2 DEF WritePull
      <3> QED
        BY <1>1, <2>7, <3>1
           DEF PublisherRuns, Claim, CheckBase, CheckPull, ReadBranch, MakeTree,
               MakeCommit, RecordRef, RecordPull, MakeCheck, Finish, Raise, Fail, Crash
    <2>8. ~ (Generate \/ Revise \/ Snooze \/ GenerationWorker \/ Publish \/ PublishAgain)
      BY <1>1 DEF Generate, Revise, Snooze, GenerationWorker, Publish, PublishAgain, Outside
    <2>9. PICK w \in Publishers : WriteRef(w)
      BY <1>1, <2>3, <2>4, <2>5, <2>6, <2>7, <2>8 DEF Next, PublishersLive, vars
    <2>10. publishers[w].pc = "ref" /\ publishers[w].record.pull # 0
      BY <1>1, <2>1, <2>9 DEF WriteRef, At
    <2>11. publishers[w].seen \notin {0, HumanCommit}
      BY <2>1, <2>10 DEF SafePublishers
    <2> QED
      BY <2>10, <2>11
  <1>2. PublishingInv /\ [Next]_vars => [Overwrites => Unseen]_vars
    BY <1>1
  <1> QED
    BY <1>2, PublishingInvariance, PTL DEF Spec, OverwritesOnlyUnseenPushes

\* A handler whose version is still the migration's synchronized the recorded pull
\* request; one that began before there was a pull request has an older version.
THEOREM OpenPullsAreDecidedInSync == Spec => DecisionsAreSynchronized
  <1> DEFINE Decides == migration.status = "pr_opened"
                        /\ migration'.status \in {"approved", "declined"}
             InSync == \E h \in Handlers :
                         /\ handlers[h].pc = "apply" /\ handlers'[h] = IdleHandler
                         /\ handlers[h].pull = publication.pull
  <1>1. ASSUME PublishingInv, [Next]_vars, Decides PROVE InSync
    <2>1. /\ handlers \in [Handlers -> SafeHandlers] /\ migration' # migration
          /\ StoreInv /\ migration.version \in Nat
      BY <1>1 DEF PublishingInv, StoreInv, StoreTypeOK, MigrationRow
    <2>2. ASSUME NEW status, NEW hops, migration' = MovedMigration(migration, status, hops)
          PROVE  status \in {"approved", "declined"}
      BY <1>1, <2>2 DEF MovedMigration
    <2>3. ~ FailPublication
      BY <2>1, <2>2 DEF FailPublication, storeVars
    <2>4. ASSUME NEW a, NEW tree, NEW commit, NEW pull
          PROVE  ~ CompletePublication(a, tree, commit, pull)
      BY <2>2 DEF CompletePublication
    <2>5. ASSUME NEW w \in Publishers PROVE ~ (PublisherRuns(w) \/ Crash(w))
      <3>1. ~ UNCHANGED storeVars
        BY <2>1 DEF storeVars
      <3>2. ASSUME NEW row PROVE ~ RecordProgress(row)
        BY <2>1 DEF RecordProgress
      <3>3. ~ ClaimPublication
        BY <2>1 DEF ClaimPublication
      <3> QED
        BY <2>3, <2>4, <3>1, <3>2, <3>3
           DEF PublisherRuns, Claim, CheckBase, CheckPull, ReadBranch, MakeTree,
               MakeCommit, WriteRef, RecordRef, WritePull, RecordPull, MakeCheck, Finish,
               Raise, Fail, Crash
    <2>6. ~ (Generate \/ Publish \/ PublishAgain)
      <3>1. ~ Generate
        <4>1. ASSUME NEW key \in Keys, QueueAttempt(key, migration.version) PROVE FALSE
          <5>1. migration'.status = "planning"
            BY <4>1 DEF QueueAttempt, MovedMigration
          <5> QED
            BY <1>1, <5>1
        <4> QED
          BY <4>1 DEF Generate
      <3>2. ~ Publish
        BY <2>2 DEF Publish, QueuePublication
      <3>3. ~ PublishAgain
        BY <2>1 DEF PublishAgain, storeVars
      <3> QED
        BY <3>1, <3>2, <3>3
    <2>7. ~ (Revise \/ Snooze)
      <3>1. ASSUME NEW action \in {"revise", "snooze"}, NEW key \in Keys,
                   ApplyDeveloperAction(action, key, migration.version)
            PROVE  FALSE
        BY <1>1, <2>1, <3>1, ApplyDeveloperActionAdvances
           DEF DeveloperActions, ACTION_STATES
      <3> QED
        BY <3>1 DEF Revise, Snooze
    <2>8. ~ GenerationWorker
      <3>1. ASSUME NEW a \in AttemptIds PROVE ~ ClaimAttempt(a)
        BY <2>2 DEF ClaimAttempt
      <3>2. ASSUME NEW a \in AttemptIds PROVE ~ CompleteAttempt(a, "approve", TRUE)
        BY <1>1 DEF CompleteAttempt, CanCompleteAttempt
      <3>3. ASSUME NEW a \in AttemptIds PROVE ~ FailAttempt(a)
        BY <2>1, <2>2 DEF FailAttempt, storeVars
      <3> QED
        BY <3>1, <3>2, <3>3 DEF GenerationWorker
    <2>9. ~ (HumanPush \/ HumanEditsPull \/ BaseMoves)
      BY <2>1 DEF HumanPush, HumanEditsPull, BaseMoves, storeVars
    <2>10. PICK h \in Handlers : HandlerStep(h)
      BY <1>1, <2>1, <2>5, <2>6, <2>7, <2>8, <2>9
         DEF Next, PublishersLive, vars, storeVars
    <2>11. Apply(h) /\ ~ UNCHANGED storeVars
      BY <2>1, <2>10 DEF HandlerStep, Begin, Verify, Write, HandlerDies, storeVars
    <2>12. /\ handlers[h] \in SafeHandlers /\ handlers[h].pc = "apply"
           /\ handlers'[h] = IdleHandler
           /\ \E key \in Keys :
                ApplyDeveloperAction(handlers[h].action, key, handlers[h].expected)
      BY <2>1, <2>11 DEF Apply
    <2>13. handlers[h].expected = migration.version
      BY <2>12 DEF ApplyDeveloperAction, CanApplyDeveloperAction, ValidTransition
    <2>14. handlers[h].pull = publication.pull
      BY <1>1, <2>12, <2>13 DEF SafeHandlers
    <2> QED
      BY <2>12, <2>14
  <1>2. PublishingInv /\ [Next]_vars => [Decides => InSync]_vars
    BY <1>1
  <1> QED
    BY <1>2, PublishingInvariance, PTL DEF Spec, DecisionsAreSynchronized

--------------------------------------------------------------------------------
(* The run a record belongs to *)

\* No pull request was opened after number n.
LastPull(n) == \A m \in Opened : m <= n

\* Each checkpoint is of the attempt being published and rests on the one before it;
\* a completed publication has them all.
RowInStep ==
  /\ publication.tree \in {0, publication.attempt}
  /\ publication.commit \in {0, publication.tree}
  /\ publication.check => publication.commit = publication.attempt
  /\ publication.pull # 0 => LastPull(publication.pull)
  /\ publication.status = "completed" =>
       /\ publication.tree = publication.attempt
       /\ publication.commit = publication.attempt
       /\ publication.head = publication.attempt
       /\ publication.check

\* The steps of publish() that come before the tree, and from the branch on.
BeforeTree == {"base", "pull", "branch", "tree"}
FromRef == {"ref", "recordRef", "draft", "recordPull", "check", "finish"}

\* A publisher works on the publication in progress, and what it has not written yet
\* is still as it was when it claimed the row: whoever is inside knows the row.
InStep ==
  {p \in PublisherState : p.pc # "idle" =>
     /\ publication.status = "publishing" /\ publication.attempt = p.record.attempt
     /\ p.pc \in BeforeTree => publication.tree = p.record.tree
     /\ p.pc \in BeforeTree \cup {"commit"} => publication.commit = p.record.commit
     /\ p.pc \in FromRef \cup {"commit"}
          => p.tree = publication.attempt /\ publication.tree = publication.attempt
     /\ p.pc \in FromRef
          => p.commit = publication.attempt /\ publication.commit = publication.attempt
     /\ p.pc \notin {"check", "finish", "failing"} => publication.pull = p.record.pull
     /\ p.pc \notin {"recordPull", "failing"} => publication.pull = p.pull
     /\ p.pc = "recordPull" => LastPull(p.pull)
     /\ p.pc \notin {"finish", "failing"} => publication.check = p.record.check}

\* The run that may write: it claimed the record, and nobody has failed it since.
Owners == Claimants \ disowned

\* A run that is past its claim copied the record as it claimed it.
ClaimsAreKept ==
  \A w \in Publishers :
    /\ publishers[w].pc = "idle" => w \notin Claimants
    /\ publishers[w].pc \notin {"idle", "failing"} => w \in Claimants

\* As long as no disowned run has written, the record has one owner at a time and the
\* owner knows it.
OwnerInv ==
  /\ PublishingInv
  /\ ClaimsAreKept
  /\ disowned \subseteq Claimants
  /\ ~ strayed =>
       /\ RowInStep
       /\ \A w \in Owners : publishers[w] \in InStep
       /\ \A v, w \in Owners : v = w

\* The history of a step that fails no record.
Told == disowned' = disowned \cap Claimants' /\ (strayed' <=> strayed \/ Strays)

\* While the record is not in progress it has no owner.
LEMMA NoOwnerAtRest ==
  ASSUME OwnerInv, ~ strayed, publication.status # "publishing"
  PROVE  Owners = {}
  BY DEF OwnerInv, Owners, InStep, Claimants, ClaimsAreKept

\* A step that no publisher takes and that leaves the publication alone.
LEMMA OthersInStep ==
  ASSUME OwnerInv, PublishingInv', Told, Opened' = Opened,
         publication' = publication, publishers' = publishers
  PROVE  OwnerInv'
  <1>1. \A n : LastPull(n) <=> LastPull(n)'
    BY DEF LastPull
  <1>2. InStep' = InStep /\ (RowInStep => RowInStep')
    BY <1>1 DEF InStep, RowInStep, LastPull
  <1>3. Claimants' = Claimants /\ ClaimsAreKept'
    BY DEF Claimants, ClaimsAreKept, OwnerInv
  <1>4. disowned' = disowned /\ Owners' = Owners /\ (~ strayed' => ~ strayed)
    BY <1>3 DEF Told, OwnerInv, Owners
  <1> QED
    BY <1>2, <1>3, <1>4 DEF OwnerInv

\* A step of a run, past its claim, that fails no record: the owner's keeps it in step,
\* and any other's either changes nothing or is a stray one.
LEMMA RunKeepsOwner ==
  ASSUME OwnerInv, PublishingInv', Told, NEW w \in Publishers, NEW p,
         publishers' = [publishers EXCEPT ![w] = p], p # publishers[w],
         p.pc = "idle" => p.record.status # "publishing",
         p.pc \notin {"idle", "failing"} => p.record.status = "publishing",
         p.record.status = "publishing" => w \in Claimants,
         publishers[w].pc \in {"idle", "failing"}
           => UNCHANGED <<publication, github>>,
         ~ strayed /\ w \in Owners => RowInStep' /\ p \in InStep'
  PROVE  OwnerInv'
  <1>1. /\ publishers \in [Publishers -> SafePublishers] /\ publishers'[w] = p
        /\ \A v \in Publishers \ {w} : publishers'[v] = publishers[v]
    BY DEF OwnerInv, PublishingInv
  <1>2. Claimants' \subseteq Claimants /\ ClaimsAreKept'
    BY <1>1 DEF Claimants, ClaimsAreKept, OwnerInv
  <1>3. disowned' \subseteq Claimants' /\ Owners' \subseteq Owners
    BY <1>2 DEF Told, Owners
  <1>4. ASSUME ~ strayed'
        PROVE  /\ RowInStep'
               /\ \A v \in Owners' : publishers'[v] \in InStep'
               /\ \A u, v \in Owners' : u = v
    <2>1. ~ strayed /\ ~ Strays
      BY <1>4 DEF Told
    <2>2. /\ RowInStep /\ \A v \in Owners : publishers[v] \in InStep
          /\ \A u, v \in Owners : u = v
      BY <2>1 DEF OwnerInv
    <2>3. CASE w \in Owners
      BY <1>1, <1>3, <2>1, <2>2, <2>3
    <2>4. CASE w \notin Owners
      <3>1. publication' = publication /\ github' = github
        <4>1. CASE publishers[w].pc \in {"idle", "failing"}
          BY <4>1
        <4>2. CASE publishers[w].pc \notin {"idle", "failing"}
          <5>1. w \in disowned /\ publishers'[w] # publishers[w] /\ ~ At(w, "failing")
            BY <1>1, <2>4, <4>2 DEF OwnerInv, ClaimsAreKept, Owners, At
          <5> QED
            BY <2>1, <5>1 DEF Strays
        <4> QED
          BY <4>1, <4>2
      <3>2. RowInStep' /\ InStep' = InStep
        BY <2>2, <3>1 DEF RowInStep, InStep, LastPull, Opened
      <3>3. \A v \in Owners' : v \in Publishers \ {w} /\ v \in Owners
        BY <1>3, <2>4 DEF Owners, Claimants
      <3> QED
        BY <1>1, <2>2, <3>2, <3>3
    <2> QED
      BY <2>3, <2>4
  <1> QED
    BY <1>2, <1>3, <1>4 DEF OwnerInv

\* Requests, generation, people and handlers: none of them touches a publication in
\* progress.
LEMMA OthersKeepStep ==
  ASSUME OwnerInv, Told,
         \/ Generate \/ Revise \/ Snooze \/ GenerationWorker \/ PublishAgain
         \/ HumanPush \/ HumanEditsPull \/ BaseMoves
         \/ \E h \in Handlers : HandlerStep(h)
  PROVE  OwnerInv'
  <1>1. PublishingInv
    BY DEF OwnerInv
  <1>2. CASE Generate \/ Revise \/ Snooze \/ GenerationWorker \/ PublishAgain
    <2>1. /\ publication' = publication /\ publishers' = publishers /\ github' = github
      BY <1>2 DEF Generate, Revise, Snooze, GenerationWorker, PublishAgain, Outside,
                  storeVars, QueueAttempt, ApplyDeveloperAction, ClaimAttempt,
                  CompleteAttempt, FailAttempt
    <2>2. Opened' = Opened
      BY <2>1 DEF Opened
    <2> QED
      BY <1>1, <1>2, <2>1, <2>2, RequestsSafe, OthersInStep
  <1>3. CASE HumanPush \/ HumanEditsPull \/ BaseMoves
    <2>1. publication' = publication /\ publishers' = publishers
      BY <1>3 DEF HumanPush, HumanEditsPull, BaseMoves, storeVars
    <2> QED
      BY <1>1, <1>3, <2>1, PeopleSafe, OthersInStep
  <1>4. ASSUME NEW h \in Handlers, HandlerStep(h) PROVE OwnerInv'
    <2>1. publication' = publication /\ publishers' = publishers
      BY <1>4 DEF HandlerStep, Begin, Verify, Write, Apply, HandlerDies, storeVars,
                  ApplyDeveloperAction
    <2> QED
      BY <1>1, <1>4, <2>1, HandlersSafe, OthersInStep
  <1> QED
    BY <1>2, <1>3, <1>4

\* A publication is queued only while none is in progress, and a new attempt starts
\* without the old one's objects.
LEMMA PublishKeepsStep ==
  ASSUME OwnerInv, Told, Publish
  PROVE  OwnerInv'
  <1> DEFINE a == migration.current
             tree == Kept(a, publication.tree, 0)
             commit == Kept(a, publication.commit, 0)
             check == Kept(a, publication.check, FALSE)
  <1>1. /\ PublishingInv /\ StoreInv /\ publication \in PublicationRow /\ PublishingInv'
        /\ publishers' = publishers /\ github' = github
    BY PublishSafe DEF OwnerInv, PublishingInv, StoreInv, StoreTypeOK, Publish,
                       Outside
  <1>2. PICK key \in Keys : QueuePublication(key, migration.version)
    BY DEF Publish
  <1>3. publication.status # "publishing"
    <2>1. migration.status \in MigrationStates
      BY <1>1 DEF StoreInv, StoreTypeOK, MigrationRow
    <2>2. migration.status \in {"ready", "blocked"}
      BY <1>2, <2>1, MigrationEdges
         DEF QueuePublication, CanQueuePublication, ValidTransition
    <2> QED
      BY <1>1, <2>2 DEF StoreInv, PublicationFollowsMigration
  <1>4. publication' = [publication EXCEPT !.status = "queued", !.attempt = a,
                          !.tree = tree, !.commit = commit, !.check = check]
    BY <1>2 DEF QueuePublication
  <1>5. /\ publication'.status = "queued" /\ publication'.attempt = a
        /\ publication'.tree = tree /\ publication'.commit = commit
        /\ publication'.check = check /\ publication'.pull = publication.pull
    BY <1>1, <1>4 DEF PublicationRow
  <1>6. Opened' = Opened
    BY <1>1 DEF Opened
  <1>7. Claimants' = Claimants /\ disowned' = disowned /\ Owners' = Owners
        /\ ClaimsAreKept' /\ (~ strayed' => ~ strayed)
    BY <1>1 DEF OwnerInv, Claimants, ClaimsAreKept, Owners, Told
  <1>8. ASSUME ~ strayed PROVE RowInStep' /\ Owners = {}
    <2>1. RowInStep /\ Owners = {}
      BY <1>3, <1>8, NoOwnerAtRest DEF OwnerInv
    <2>2. RowInStep'
      BY <1>1, <1>5, <1>6, <2>1 DEF RowInStep, LastPull, Kept, PublicationRow
    <2> QED
      BY <2>1, <2>2
  <1> QED
    BY <1>1, <1>7, <1>8 DEF OwnerInv

\* What an owner at work knows, spelled out.
AtWork(w) == PublishingInv /\ RowInStep /\ publishers[w] \in InStep

LEMMA KnownAtWork ==
  ASSUME NEW w \in Publishers, AtWork(w)
  PROVE  /\ PublishingInv /\ RowInStep
         /\ publishers[w] \in InStep /\ publishers[w] \in SafePublishers
         /\ publishers[w] \in PublisherState
         /\ publishers[w].record \in PublicationRow /\ publication \in PublicationRow
         /\ publishers \in [Publishers -> SafePublishers]
  BY SafeObjects DEF AtWork, PublishingInv, PublicationInv, PublisherState, InStep

\* A claim starts from the row as it is, and makes the run its owner; one that raises
\* leaves the row as it was.
LEMMA ClaimKeepsStep ==
  ASSUME OwnerInv, Told, NEW w \in Publishers, Claim(w)
  PROVE  OwnerInv'
  <1>1. /\ PublishingInv /\ PublishingInv' /\ github' = github /\ Opened' = Opened
        /\ publishers[w].pc = "idle" /\ w \notin Claimants
        /\ publishers \in [Publishers -> SafePublishers]
    BY ClaimSafe DEF OwnerInv, PublishingInv, Claim, At, Opened, ClaimsAreKept
  <1>2. CASE ClaimPublication
    <2> DEFINE new == [IdlePublisher EXCEPT !.pc = "base", !.record = publication',
                                            !.pull = publication.pull]
    <2>1. /\ publication.status = "queued" /\ publication \in PublicationRow
          /\ publication' = [publication EXCEPT !.status = "publishing"]
      BY <1>1, <1>2, SafeObjects
         DEF ClaimPublication, CanClaimPublication, PublishingInv, PublicationInv
    <2>2. /\ publication' \in PublicationRow /\ publication'.status = "publishing"
          /\ publication'.attempt = publication.attempt
          /\ publication'.tree = publication.tree
          /\ publication'.commit = publication.commit
          /\ publication'.head = publication.head
          /\ publication'.pull = publication.pull
          /\ publication'.check = publication.check
      BY <2>1 DEF PublicationRow, PublicationStates
    <2>3. publishers' = [publishers EXCEPT ![w] = new]
      <3>1. publishers[w].pc = "idle" /\ CanClaimPublication
        BY <1>2 DEF Claim, At, ClaimPublication
      <3>2. ~ UNCHANGED storeVars
        BY <2>1, <2>2 DEF storeVars
      <3> QED
        BY <3>1, <3>2 DEF Claim
    <2>4. RowInStep => RowInStep'
      BY <1>1, <2>2 DEF RowInStep, LastPull
    <2>5. new \in PublisherState /\ new.pc = "base" /\ new.record = publication'
          /\ new.pull = publication.pull
      <3>1. IdlePublisher \in PublisherState
        BY GivingUpIsSafe, SafeObjects
      <3>2. publication.pull \in Nat
        BY <2>1 DEF PublicationRow
      <3> QED
        BY <2>2, <3>1, <3>2 DEF PublisherState, PublisherPCs
    <2> HIDE DEF new
    <2>6. new \in InStep'
      BY <2>2, <2>5 DEF InStep, BeforeTree, FromRef
    <2>7. /\ publishers'[w] = new
          /\ \A v \in Publishers \ {w} : publishers'[v] = publishers[v]
      BY <1>1, <2>3
    <2>8. Claimants' = Claimants \cup {w} /\ ClaimsAreKept'
      BY <2>2, <2>5, <2>7 DEF Claimants, ClaimsAreKept, OwnerInv
    <2>9. disowned' = disowned /\ Owners' = Owners \cup {w} /\ (~ strayed' => ~ strayed)
      BY <1>1, <2>8 DEF Told, Owners, OwnerInv
    <2>10. ASSUME ~ strayed PROVE Owners = {} /\ RowInStep
      BY <2>1, <2>10, NoOwnerAtRest DEF OwnerInv
    <2> QED
      BY <1>1, <2>4, <2>6, <2>7, <2>8, <2>9, <2>10 DEF OwnerInv
  <1>3. CASE UNCHANGED <<storeVars, publishers>>
    BY <1>1, <1>3, OthersInStep DEF storeVars
  <1>4. CASE UNCHANGED storeVars /\ Goto(w, "failing")
    <2> DEFINE new == [publishers[w] EXCEPT !.pc = "failing"]
    <2>1. /\ publishers' = [publishers EXCEPT ![w] = new] /\ new.pc = "failing"
          /\ new.record = publishers[w].record
      BY <1>1, <1>4 DEF Goto, SafePublishers
    <2>2. new.record.status # "publishing" /\ new # publishers[w] /\ w \notin Owners
      BY <1>1, <2>1 DEF Claimants, Owners
    <2> HIDE DEF new
    <2> QED
      BY <1>1, <1>4, <2>1, <2>2, RunKeepsOwner DEF storeVars
  <1> QED
    BY <1>2, <1>3, <1>4 DEF Claim

\* A publisher that stops, without touching its record, is in step for good.
LEMMA StoppedInStep ==
  ASSUME NEW w \in Publishers, AtWork(w), publishers[w].pc # "idle"
  PROVE  /\ IdlePublisher \in InStep
         /\ [publishers[w] EXCEPT !.pc = "failing"] \in InStep
  <1>1. IdlePublisher \in InStep
    BY GivingUpIsSafe, SafeObjects DEF InStep, IdlePublisher
  <1>2. publishers[w] \in InStep /\ publishers[w] \in PublisherState
    BY DEF AtWork, InStep
  <1>3. [publishers[w] EXCEPT !.pc = "failing"] \in InStep
    BY <1>2 DEF InStep, PublisherState, PublisherPCs, BeforeTree, FromRef
  <1> QED
    BY <1>1, <1>3

\* The requests that only read, and the write of the branch.
LEMMA RequestsKeepStep ==
  ASSUME NEW w \in Publishers, AtWork(w),
         \/ CheckBase(w) \/ CheckPull(w) \/ ReadBranch(w) \/ WriteRef(w)
         \/ Raise(w) \/ Crash(w)
  PROVE  RowInStep' /\ publishers'[w] \in InStep'
  <1> DEFINE p == publishers[w]
  <1>1. /\ PublishingInv /\ RowInStep /\ p \in InStep /\ p \in SafePublishers
        /\ p \in PublisherState /\ publishers \in [Publishers -> SafePublishers]
    BY KnownAtWork
  <1>2. PublishingInv'
    BY <1>1, ReadsSafe, WritesSafe
  <1>3. publication' = publication /\ p.pc # "idle"
    BY DEF CheckBase, CheckPull, ReadBranch, WriteRef, Raise, Crash, At, storeVars
  <1>4. Opened' = Opened
    <2>1. CASE WriteRef(w)
      <3>1. github' = github \/ github' = Pushed(p.commit)
        BY <2>1 DEF WriteRef
      <3>2. p.commit # 0 /\ p.commit \in Approved
        BY <1>1, <2>1, SafePublisherFields DEF SafePublishers, WriteRef, At
      <3>3. RepositoryInv /\ Approved' = Approved
        BY <1>1, <2>1 DEF PublishingInv, WriteRef, storeVars, Approved, Publishable
      <3> QED
        BY <3>1, <3>2, <3>3, PushedRepository DEF Opened
    <2>2. CASE ~ WriteRef(w)
      BY <2>2 DEF CheckBase, CheckPull, ReadBranch, Raise, Crash, Opened
    <2> QED
      BY <2>1, <2>2
  <1>5. InStep' = InStep /\ RowInStep'
    BY <1>1, <1>3, <1>4 DEF InStep, RowInStep, LastPull
  <1>6. ASSUME NEW q \in InStep, publishers' = [publishers EXCEPT ![w] = q]
        PROVE  RowInStep' /\ publishers'[w] \in InStep'
    BY <1>1, <1>5, <1>6
  <1>7. IdlePublisher \in InStep /\ [p EXCEPT !.pc = "failing"] \in InStep
    BY <1>3, StoppedInStep
  <1>8. CASE CheckBase(w) \/ CheckPull(w) \/ Raise(w) \/ Crash(w)
    <2>1. p.pc \in {"base", "pull"}
            => \A pc \in {"pull", "branch"} : [p EXCEPT !.pc = pc] \in InStep
      BY <1>1 DEF InStep, PublisherState, PublisherPCs, BeforeTree, FromRef
    <2>2. \/ publishers' = [publishers EXCEPT ![w] = IdlePublisher]
          \/ publishers' = [publishers EXCEPT ![w] = [p EXCEPT !.pc = "failing"]]
          \/ \E pc \in {"pull", "branch"} :
               /\ p.pc \in {"base", "pull"}
               /\ publishers' = [publishers EXCEPT ![w] = [p EXCEPT !.pc = pc]]
      BY <1>8 DEF CheckBase, CheckPull, Raise, Crash, At, Goto
    <2> HIDE DEF p
    <2> QED
      BY <1>6, <1>7, <2>1, <2>2
  <1>9. CASE ReadBranch(w)
    <2> DEFINE tree == [p EXCEPT !.seen = github.branch, !.pc = "tree"]
               fail == [p EXCEPT !.seen = github.branch, !.pc = "failing"]
    <2>1. /\ p.pc = "branch"
          /\ \/ publishers' = [publishers EXCEPT ![w] = tree]
             \/ publishers' = [publishers EXCEPT ![w] = fail]
      BY <1>9 DEF ReadBranch, At
    <2>2. github.branch \in Commits
      BY <1>1 DEF PublishingInv, RepositoryInv, GitHubState
    <2>3. tree \in InStep /\ fail \in InStep
      BY <1>1, <2>1, <2>2 DEF InStep, PublisherState, PublisherPCs, BeforeTree, FromRef
    <2> HIDE DEF p, tree, fail
    <2> QED
      BY <1>6, <2>1, <2>3
  <1>10. CASE WriteRef(w)
    <2>1. /\ p.pc = "ref"
          /\ \E pc \in {"recordRef", "draft", "failing"} :
                publishers' = [publishers EXCEPT ![w] = [p EXCEPT !.pc = pc]]
      BY <1>10 DEF WriteRef, At, Goto, Outcome
    <2>2. \A pc \in {"recordRef", "draft", "failing"} : [p EXCEPT !.pc = pc] \in InStep
      BY <1>1, <2>1 DEF InStep, PublisherState, PublisherPCs, BeforeTree, FromRef
    <2> HIDE DEF p
    <2> QED
      BY <1>6, <2>1, <2>2
  <1> QED
    BY <1>8, <1>9, <1>10

\* Each checkpoint is written while the record is in progress, of the attempt it is for.
LEMMA CheckpointsKeepStep ==
  ASSUME NEW w \in Publishers, AtWork(w),
         \/ MakeTree(w) \/ MakeCommit(w) \/ RecordRef(w) \/ RecordPull(w) \/ MakeCheck(w)
  PROVE  RowInStep' /\ publishers'[w] \in InStep'
  <1> DEFINE p == publishers[w]
  <1>1. /\ PublishingInv /\ RowInStep /\ p \in InStep /\ p \in SafePublishers
        /\ p \in PublisherState /\ publishers \in [Publishers -> SafePublishers]
        /\ p.record \in PublicationRow /\ publication \in PublicationRow
    BY KnownAtWork
  <1>2. PublishingInv' /\ github' = github /\ Opened' = Opened
    BY <1>1, CheckpointsSafe
       DEF Opened, MakeTree, MakeCommit, RecordRef, RecordPull, MakeCheck
  <1>3. p.pc \in {"tree", "commit", "recordRef", "recordPull", "check"}
    BY DEF MakeTree, MakeCommit, RecordRef, RecordPull, MakeCheck, At
  <1>4. publication.status = "publishing" /\ p.record.attempt = publication.attempt
    BY <1>1, <1>3 DEF InStep
  <1>5. ASSUME NEW row, RecordProgress(row) PROVE publication' = row
    BY <1>4, <1>5 DEF RecordProgress
  <1>6. ASSUME NEW q \in InStep', publishers' = [publishers EXCEPT ![w] = q], RowInStep'
        PROVE  RowInStep' /\ publishers'[w] \in InStep'
    BY <1>1, <1>6
  <1>7. CASE MakeTree(w)
    <2> DEFINE tree == IF p.record.tree # 0 THEN p.record.tree ELSE p.record.attempt
               new == [p EXCEPT !.tree = tree, !.pc = "commit"]
    <2>1. /\ p.pc = "tree" /\ publishers' = [publishers EXCEPT ![w] = new]
          /\ IF p.record.tree # 0 THEN publication' = publication
             ELSE publication' = [publication EXCEPT !.tree = tree]
      BY <1>5, <1>7 DEF MakeTree, At, storeVars
    <2>2. /\ tree = publication.attempt
          /\ publication.tree = p.record.tree /\ publication.commit = p.record.commit
          /\ publication.pull = p.record.pull /\ publication.pull = p.pull
          /\ publication.check = p.record.check
      BY <1>1, <1>4, <2>1 DEF InStep, RowInStep, BeforeTree
    <2>3. /\ publication'.tree = publication.attempt
          /\ publication'.status = publication.status
          /\ publication'.attempt = publication.attempt
          /\ publication'.commit = publication.commit
          /\ publication'.head = publication.head
          /\ publication'.pull = publication.pull
          /\ publication'.check = publication.check
      BY <1>1, <2>1, <2>2 DEF PublicationRow, RowInStep
    <2>4. tree \in AttemptIdOrNull
      BY <1>1, <2>2 DEF PublicationRow
    <2> HIDE DEF tree
    <2>5. RowInStep'
      BY <1>1, <1>2, <1>4, <2>1, <2>2, <2>3 DEF RowInStep, LastPull
    <2>6. new \in InStep'
      <3>1. new \in PublisherState /\ new.pc = "commit" /\ new.record = p.record
            /\ new.tree = tree /\ new.pull = p.pull
        BY <1>1, <2>4 DEF PublisherState, PublisherPCs
      <3> HIDE DEF new, p
      <3> QED
        BY <1>4, <2>2, <2>3, <3>1 DEF InStep, BeforeTree, FromRef
    <2> HIDE DEF new, p
    <2> QED
      BY <1>6, <2>1, <2>5, <2>6
  <1>8. CASE MakeCommit(w)
    <2> DEFINE commit == IF p.record.commit # 0 THEN p.record.commit ELSE p.tree
               new == [p EXCEPT !.commit = commit, !.pc = "ref"]
    <2>1. /\ p.pc = "commit" /\ publishers' = [publishers EXCEPT ![w] = new]
          /\ IF p.record.commit # 0 THEN publication' = publication
             ELSE publication' = [publication EXCEPT !.commit = commit]
      BY <1>5, <1>8 DEF MakeCommit, At, storeVars
    <2>2. /\ commit = publication.attempt
          /\ p.tree = publication.attempt /\ publication.tree = publication.attempt
          /\ publication.commit = p.record.commit
          /\ publication.pull = p.record.pull /\ publication.pull = p.pull
          /\ publication.check = p.record.check
      BY <1>1, <1>4, <2>1 DEF InStep, RowInStep, BeforeTree
    <2>3. /\ publication'.commit = publication.attempt
          /\ publication'.status = publication.status
          /\ publication'.attempt = publication.attempt
          /\ publication'.tree = publication.tree
          /\ publication'.head = publication.head
          /\ publication'.pull = publication.pull
          /\ publication'.check = publication.check
      BY <1>1, <2>1, <2>2 DEF PublicationRow, RowInStep
    <2>4. commit \in AttemptIdOrNull
      BY <1>1, <2>2 DEF PublicationRow
    <2> HIDE DEF commit
    <2>5. RowInStep'
      BY <1>1, <1>2, <1>4, <2>1, <2>2, <2>3 DEF RowInStep, LastPull
    <2>6. new \in InStep'
      <3>1. new \in PublisherState /\ new.pc = "ref" /\ new.record = p.record
            /\ new.tree = p.tree /\ new.commit = commit /\ new.pull = p.pull
        BY <1>1, <2>4 DEF PublisherState, PublisherPCs
      <3> HIDE DEF new, p
      <3> QED
        BY <1>4, <2>2, <2>3, <3>1 DEF InStep, BeforeTree, FromRef
    <2> HIDE DEF new, p
    <2> QED
      BY <1>6, <2>1, <2>5, <2>6
  <1>9. CASE RecordRef(w)
    <2> DEFINE new == [p EXCEPT !.pc = "draft"]
    <2>1. /\ p.pc = "recordRef" /\ publishers' = [publishers EXCEPT ![w] = new]
          /\ publication' = [publication EXCEPT !.head = p.commit]
      BY <1>5, <1>9 DEF RecordRef, At, Goto
    <2>2. /\ publication'.status = publication.status
          /\ publication'.attempt = publication.attempt
          /\ publication'.tree = publication.tree
          /\ publication'.commit = publication.commit
          /\ publication'.pull = publication.pull
          /\ publication'.check = publication.check
      BY <1>1, <2>1 DEF PublicationRow
    <2>3. RowInStep'
      BY <1>1, <1>2, <1>4, <2>2 DEF RowInStep, LastPull
    <2>4. new \in InStep'
      BY <1>1, <2>1, <2>2 DEF InStep, PublisherState, PublisherPCs, BeforeTree, FromRef
    <2> HIDE DEF new, p
    <2> QED
      BY <1>6, <2>1, <2>3, <2>4
  <1>10. CASE RecordPull(w)
    <2> DEFINE new == [p EXCEPT !.pc = "check"]
    <2>1. /\ p.pc = "recordPull" /\ publishers' = [publishers EXCEPT ![w] = new]
          /\ publication' = [publication EXCEPT !.pull = p.pull]
      BY <1>5, <1>10 DEF RecordPull, At, Goto
    <2>2. /\ publication'.status = publication.status
          /\ publication'.attempt = publication.attempt
          /\ publication'.tree = publication.tree
          /\ publication'.commit = publication.commit
          /\ publication'.pull = p.pull
          /\ publication'.check = publication.check
      BY <1>1, <2>1 DEF PublicationRow
    <2>3. LastPull(p.pull)
      BY <1>1, <2>1 DEF InStep
    <2>4. RowInStep'
      BY <1>1, <1>2, <1>4, <2>2, <2>3 DEF RowInStep, LastPull
    <2>5. new \in InStep'
      BY <1>1, <2>1, <2>2 DEF InStep, PublisherState, PublisherPCs, BeforeTree, FromRef
    <2> HIDE DEF new, p
    <2> QED
      BY <1>6, <2>1, <2>4, <2>5
  <1>11. CASE MakeCheck(w)
    <2> DEFINE new == [p EXCEPT !.pc = "finish"]
    <2>1. /\ p.pc = "check" /\ publishers' = [publishers EXCEPT ![w] = new]
          /\ \/ publication' = publication
             \/ publication' = [publication EXCEPT !.check = TRUE]
      BY <1>5, <1>11 DEF MakeCheck, At, Goto, storeVars
    <2>2. /\ publication'.status = publication.status
          /\ publication'.attempt = publication.attempt
          /\ publication'.tree = publication.tree
          /\ publication'.commit = publication.commit
          /\ publication'.pull = publication.pull
          /\ publication.commit = publication.attempt
      BY <1>1, <2>1 DEF PublicationRow, InStep, FromRef
    <2>3. RowInStep'
      BY <1>1, <1>2, <1>4, <2>2 DEF RowInStep, LastPull
    <2>4. new \in InStep'
      BY <1>1, <2>1, <2>2 DEF InStep, PublisherState, PublisherPCs, BeforeTree, FromRef
    <2> HIDE DEF new, p
    <2> QED
      BY <1>6, <2>1, <2>3, <2>4
  <1> QED
    BY <1>7, <1>8, <1>9, <1>10, <1>11

\* A pull request is opened only while none is recorded, and nobody else opens one
\* before its number is.
LEMMA WritePullKeepsStep ==
  ASSUME NEW w \in Publishers, AtWork(w), WritePull(w)
  PROVE  RowInStep' /\ publishers'[w] \in InStep'
  <1> DEFINE p == publishers[w]
  <1>1. /\ PublishingInv /\ RowInStep /\ p \in InStep /\ p \in SafePublishers
        /\ p \in PublisherState /\ publishers \in [Publishers -> SafePublishers]
    BY KnownAtWork
  <1>2. /\ PublishingInv' /\ publication' = publication /\ p.pc = "draft"
        /\ RepositoryInv /\ Approved' = Approved
    BY <1>1, WritesSafe
       DEF WritePull, At, storeVars, PublishingInv, Approved, Publishable
  <1>3. /\ publication.status = "publishing" /\ publication.pull = p.record.pull
        /\ publication.pull = p.pull
    BY <1>1, <1>2 DEF InStep
  <1>4. ASSUME NEW q \in InStep', publishers' = [publishers EXCEPT ![w] = q], RowInStep'
        PROVE  RowInStep' /\ publishers'[w] \in InStep'
    BY <1>1, <1>4
  <1>5. CASE p.record.pull = 0 /\ CanOpenPull
    <2>1. PICK n \in Pulls : n = NextPull
      BY <1>2, <1>5, NextPullIsFirstFree
    <2> DEFINE opened == [p EXCEPT !.pull = n, !.pc = "recordPull"]
               fail == [p EXCEPT !.pc = "failing"]
    <2>2. \/ publishers' = [publishers EXCEPT ![w] = opened]
          \/ publishers' = [publishers EXCEPT ![w] = fail]
      BY <1>5, <2>1 DEF WritePull, Goto
    <2>3. \A m \in Pulls : m > n => github'.pulls[m] = NoPull
      <3>1. github' = WithPull(NextPull, [state |-> "open", draft |-> TRUE,
                                          head |-> github.branch])
        BY <1>5 DEF WritePull
      <3> QED
        BY <1>2, <1>5, <2>1, <3>1, OpenedRepository
    <2>4. LastPull(n)'
      <3>1. ASSUME NEW m \in Opened' PROVE m <= n
        <4>1. m = 0 \/ (m \in Pulls /\ github'.pulls[m] # NoPull)
          BY <3>1 DEF Opened, NoPull
        <4>2. m = 0 \/ (m \in Pulls /\ ~ (m > n))
          BY <2>3, <4>1
        <4> QED
          BY <4>2, PublishingAssumption DEF Pulls
      <3> QED
        BY <3>1 DEF LastPull
    <2>5. RowInStep'
      BY <1>1, <1>2, <1>3, <1>5 DEF RowInStep
    <2>6. fail \in InStep' /\ opened \in InStep'
      <3>1. n \in Nat
        BY PublishingAssumption DEF Pulls
      <3>2. /\ opened \in PublisherState
            /\ opened.pull = n /\ opened.record = p.record /\ opened.pc = "recordPull"
            /\ opened.tree = p.tree /\ opened.commit = p.commit
        BY <1>1, <3>1 DEF PublisherState, PublisherPCs
      <3>3. /\ fail \in PublisherState
            /\ fail.record = p.record /\ fail.pc = "failing"
        BY <1>1 DEF PublisherState, PublisherPCs
      <3> HIDE DEF fail, opened
      <3> QED
        BY <1>1, <1>2, <2>4, <3>2, <3>3 DEF InStep, BeforeTree, FromRef
    <2> HIDE DEF p, opened, fail
    <2> QED
      BY <1>4, <2>2, <2>5, <2>6
  <1>6. CASE ~ (p.record.pull = 0 /\ CanOpenPull)
    <2> DEFINE next == [p EXCEPT !.pc = "recordPull"]
               fail == [p EXCEPT !.pc = "failing"]
    <2>1. /\ github' = github
          /\ \/ publishers' = [publishers EXCEPT ![w] = fail]
             \/ /\ p.record.pull # 0
                /\ publishers' = [publishers EXCEPT ![w] = next]
      BY <1>6 DEF WritePull, Goto
    <2>2. Opened' = Opened
      BY <2>1 DEF Opened
    <2>3. RowInStep' /\ InStep' = InStep
      BY <1>1, <1>2, <2>2 DEF RowInStep, LastPull, InStep
    <2>4. fail \in InStep
      BY <1>2, StoppedInStep
    <2>5. p.record.pull # 0 => next \in InStep
      BY <1>1, <1>2, <1>3 DEF InStep, RowInStep, PublisherState, PublisherPCs,
                              BeforeTree, FromRef
    <2> HIDE DEF p, next, fail
    <2> QED
      BY <1>4, <2>1, <2>3, <2>4, <2>5
  <1> QED
    BY <1>5, <1>6

\* A publication ends with everything its publisher made.
LEMMA EndsKeepStep ==
  ASSUME NEW w \in Publishers, AtWork(w), Finish(w) \/ Fail(w)
  PROVE  RowInStep' /\ publishers'[w] \in InStep'
  <1> DEFINE p == publishers[w]
  <1>1. /\ PublishingInv /\ RowInStep /\ p \in InStep /\ p \in SafePublishers
        /\ p \in PublisherState /\ publishers \in [Publishers -> SafePublishers]
        /\ publication \in PublicationRow
    BY KnownAtWork
  <1>2. PublishingInv' /\ Opened' = Opened /\ p.pc \in {"finish", "failing"}
    BY <1>1, EndsSafe DEF Finish, Fail, At, Opened
  <1>3. ASSUME NEW q \in InStep', publishers' = [publishers EXCEPT ![w] = q], RowInStep'
        PROVE  RowInStep' /\ publishers'[w] \in InStep'
    BY <1>1, <1>3
  <1>4. IdlePublisher \in InStep'
    BY GivingUpIsSafe, SafeObjects DEF InStep, IdlePublisher
  <1>5. CASE UNCHANGED storeVars
    <2>1. InStep' = InStep /\ RowInStep'
      BY <1>1, <1>2, <1>5 DEF InStep, RowInStep, LastPull, storeVars
    <2>2. \/ publishers' = [publishers EXCEPT ![w] = IdlePublisher]
          \/ publishers' = [publishers EXCEPT ![w] = [p EXCEPT !.pc = "failing"]]
      BY DEF Finish, Fail, Goto
    <2> QED
      BY <1>2, <1>3, <1>4, <2>1, <2>2, StoppedInStep
  <1>6. CASE /\ p.pc = "finish" /\ publishers' = [publishers EXCEPT ![w] = IdlePublisher]
             /\ CompletePublication(p.record.attempt, p.tree, p.commit, p.pull)
    <2>1. publication' = [publication EXCEPT
                            !.status = "completed", !.tree = p.tree,
                            !.commit = p.commit, !.head = p.commit, !.pull = p.pull,
                            !.check = TRUE]
      BY <1>6 DEF CompletePublication
    <2>2. /\ p.tree = publication.attempt /\ p.commit = publication.attempt
          /\ p.pull = publication.pull
      BY <1>1, <1>6 DEF InStep, FromRef
    <2>3. /\ publication'.attempt = publication.attempt
          /\ publication'.tree = publication.attempt
          /\ publication'.commit = publication.attempt
          /\ publication'.head = publication.attempt
          /\ publication'.pull = publication.pull
          /\ publication'.check = TRUE
      BY <1>1, <2>1, <2>2 DEF PublicationRow
    <2>4. RowInStep'
      BY <1>1, <1>2, <2>3 DEF RowInStep, LastPull
    <2> QED
      BY <1>3, <1>4, <1>6, <2>4
  <1>7. CASE FailPublication /\ publishers' = [publishers EXCEPT ![w] = IdlePublisher]
    <2>1. /\ publication'.attempt = publication.attempt
          /\ publication'.tree = publication.tree
          /\ publication'.commit = publication.commit
          /\ publication'.head = publication.head
          /\ publication'.pull = publication.pull
          /\ publication'.check = publication.check
          /\ publication'.status \in {publication.status, "failed"}
      BY <1>1, <1>7 DEF FailPublication, storeVars, PublicationRow
    <2>2. RowInStep'
      BY <1>1, <1>2, <2>1 DEF RowInStep, LastPull
    <2> QED
      BY <1>3, <1>4, <1>7, <2>2
  <1> QED
    BY <1>5, <1>6, <1>7 DEF Finish, Fail, At

\* What a step of a run past its claim does to the run.
LEMMA RunsMove ==
  ASSUME PublishingInv, NEW w \in Publishers,
         \/ CheckBase(w) \/ CheckPull(w) \/ ReadBranch(w) \/ WriteRef(w) \/ Raise(w)
         \/ Crash(w) \/ MakeTree(w) \/ MakeCommit(w) \/ RecordRef(w) \/ RecordPull(w)
         \/ MakeCheck(w) \/ WritePull(w) \/ Finish(w) \/ Fail(w)
  PROVE  \E p : /\ publishers' = [publishers EXCEPT ![w] = p]
                /\ p # publishers[w] /\ publishers[w].pc # "idle"
                /\ \/ p = IdlePublisher
                   \/ p.pc # "idle" /\ p.record = publishers[w].record
  <1> DEFINE old == publishers[w]
             Moved(p) == p.pc # old.pc /\ p.pc # "idle" /\ p.record = old.record
  <1>1. old \in SafePublishers /\ IdlePublisher.pc = "idle"
    BY DEF PublishingInv, IdlePublisher
  <1>2. ASSUME NEW pc, pc # old.pc, pc # "idle" PROVE Moved([old EXCEPT !.pc = pc])
    BY <1>1, <1>2 DEF SafePublishers
  <1>3. CASE CheckBase(w) \/ CheckPull(w) \/ Raise(w) \/ WriteRef(w) \/ RecordRef(w)
               \/ RecordPull(w) \/ MakeCheck(w)
    <2>1. \E pc : /\ pc # old.pc /\ pc # "idle" /\ old.pc # "idle"
                  /\ publishers' = [publishers EXCEPT ![w] = [old EXCEPT !.pc = pc]]
      BY <1>3 DEF CheckBase, CheckPull, Raise, WriteRef, RecordRef, RecordPull, MakeCheck,
                  At, Goto, Outcome
    <2> QED
      BY <1>2, <2>1
  <1>4. CASE ReadBranch(w)
    <2>1. /\ old.pc = "branch"
          /\ \E pc \in {"tree", "failing"} :
               publishers' = [publishers EXCEPT ![w] =
                                [old EXCEPT !.seen = github.branch, !.pc = pc]]
      BY <1>4 DEF ReadBranch, At
    <2>2. \A pc \in {"tree", "failing"} :
            Moved([old EXCEPT !.seen = github.branch, !.pc = pc])
      BY <1>1, <2>1 DEF SafePublishers
    <2> QED
      BY <2>1, <2>2
  <1>5. CASE MakeTree(w)
    <2>1. /\ old.pc = "tree"
          /\ \E tree : publishers' = [publishers EXCEPT ![w] =
                                        [old EXCEPT !.tree = tree, !.pc = "commit"]]
      BY <1>5 DEF MakeTree, At
    <2>2. \A tree : Moved([old EXCEPT !.tree = tree, !.pc = "commit"])
      BY <1>1, <2>1 DEF SafePublishers
    <2> QED
      BY <2>1, <2>2
  <1>6. CASE MakeCommit(w)
    <2>1. /\ old.pc = "commit"
          /\ \E commit : publishers' = [publishers EXCEPT ![w] =
                                          [old EXCEPT !.commit = commit, !.pc = "ref"]]
      BY <1>6 DEF MakeCommit, At
    <2>2. \A commit : Moved([old EXCEPT !.commit = commit, !.pc = "ref"])
      BY <1>1, <2>1 DEF SafePublishers
    <2> QED
      BY <2>1, <2>2
  <1>7. CASE WritePull(w)
    <2>1. /\ old.pc = "draft"
          /\ \/ \E n : publishers' = [publishers EXCEPT ![w] =
                                        [old EXCEPT !.pull = n, !.pc = "recordPull"]]
             \/ \E pc \in {"recordPull", "failing"} :
                  publishers' = [publishers EXCEPT ![w] = [old EXCEPT !.pc = pc]]
      BY <1>7 DEF WritePull, At, Goto
    <2>2. /\ \A n : Moved([old EXCEPT !.pull = n, !.pc = "recordPull"])
          /\ \A pc \in {"recordPull", "failing"} : Moved([old EXCEPT !.pc = pc])
      BY <1>1, <2>1 DEF SafePublishers
    <2> QED
      BY <2>1, <2>2
  <1>8. CASE Crash(w) \/ Fail(w)
    BY <1>1, <1>8 DEF Crash, Fail, At
  <1>9. CASE Finish(w)
    <2>1. /\ old.pc = "finish"
          /\ \/ publishers' = [publishers EXCEPT ![w] = IdlePublisher]
             \/ publishers' = [publishers EXCEPT ![w] = [old EXCEPT !.pc = "failing"]]
      BY <1>9 DEF Finish, At, Goto
    <2> QED
      BY <1>1, <1>2, <2>1
  <1> QED
    BY <1>3, <1>4, <1>5, <1>6, <1>7, <1>8, <1>9

\* A run past its claim that fails no record.
LEMMA RunsKeepStep ==
  ASSUME OwnerInv, PublishingInv', Told, ~ RecordFails, NEW w \in Publishers,
         \/ CheckBase(w) \/ CheckPull(w) \/ ReadBranch(w) \/ WriteRef(w) \/ Raise(w)
         \/ Crash(w) \/ MakeTree(w) \/ MakeCommit(w) \/ RecordRef(w) \/ RecordPull(w)
         \/ MakeCheck(w) \/ WritePull(w) \/ Finish(w) \/ Fail(w)
  PROVE  OwnerInv'
  <1>1. PublishingInv /\ publication \in PublicationRow
        /\ publishers \in [Publishers -> SafePublishers]
    BY SafeObjects DEF OwnerInv, PublishingInv, PublicationInv
  <1>2. PICK p : /\ publishers' = [publishers EXCEPT ![w] = p]
                 /\ p # publishers[w] /\ publishers[w].pc # "idle"
                 /\ \/ p = IdlePublisher
                    \/ p.pc # "idle" /\ p.record = publishers[w].record
    BY <1>1, RunsMove
  <1>3. IdlePublisher.pc = "idle" /\ IdlePublisher.record.status = "absent"
    BY DEF IdlePublisher, NoRecord
  <1>4. /\ p.pc = "idle" => p.record.status # "publishing"
        /\ p.record.status = "publishing" => w \in Claimants
    BY <1>2, <1>3 DEF Claimants
  <1>5. ASSUME publishers[w].pc \in {"idle", "failing"}
        PROVE  UNCHANGED <<publication, github>> /\ p.pc \in {"idle", "failing"}
    <2>1. Crash(w) \/ Fail(w)
      BY <1>2, <1>5 DEF CheckBase, CheckPull, ReadBranch, WriteRef, Raise, MakeTree,
         MakeCommit, RecordRef, RecordPull, MakeCheck, WritePull, Finish, At
    <2>2. CASE Crash(w)
      BY <1>1, <1>2, <1>3, <2>2 DEF Crash, storeVars
    <2>3. CASE Fail(w)
      <3>1. publication' = publication
        BY <1>1, <2>3 DEF Fail, FailPublication, RecordFails, PublicationRow, storeVars
      <3> QED
        BY <1>1, <1>2, <1>3, <2>3, <3>1 DEF Fail
    <2> QED
      BY <2>1, <2>2, <2>3
  <1>6. p.pc \notin {"idle", "failing"} => p.record.status = "publishing"
    BY <1>2, <1>3, <1>5 DEF OwnerInv, ClaimsAreKept, Claimants
  <1>7. ASSUME ~ strayed, w \in Owners PROVE RowInStep' /\ p \in InStep'
    <2>1. AtWork(w)
      BY <1>7 DEF OwnerInv, AtWork
    <2>2. RowInStep' /\ publishers'[w] \in InStep'
      BY <2>1, RequestsKeepStep, CheckpointsKeepStep, WritePullKeepsStep, EndsKeepStep
    <2> QED
      BY <1>1, <1>2, <2>2
  <1> QED
    BY <1>2, <1>4, <1>5, <1>6, <1>7, RunKeepsOwner

\* Only a run that fails fails the record.
LEMMA RunsFailRecords ==
  ASSUME PublishingInv, PublishersLive, RecordFails
  PROVE  \E w \in Publishers : Fail(w)
  <1>1. publication \in PublicationRow
    BY SafeObjects DEF PublishingInv, PublicationInv
  <1>2. publication'.status # publication.status /\ publication' # publication
    BY DEF RecordFails
  <1>3. ~ (Generate \/ Revise \/ Snooze \/ GenerationWorker \/ PublishAgain)
    BY <1>2 DEF Generate, Revise, Snooze, GenerationWorker, PublishAgain, Outside,
       storeVars, QueueAttempt, ApplyDeveloperAction, ClaimAttempt, CompleteAttempt, FailAttempt
  <1>4. ~ Publish
    BY <1>1 DEF Publish, QueuePublication, RecordFails, PublicationRow
  <1>5. ~ (HumanPush \/ HumanEditsPull \/ BaseMoves)
    BY <1>2 DEF HumanPush, HumanEditsPull, BaseMoves, storeVars
  <1>6. ASSUME NEW h \in Handlers PROVE ~ HandlerStep(h)
    BY <1>2 DEF HandlerStep, Begin, Verify, Write, Apply, HandlerDies, storeVars,
                ApplyDeveloperAction
  <1>7. ASSUME NEW w \in Publishers, PublisherRuns(w) PROVE Fail(w)
    <2>1. ~ Claim(w)
      BY <1>1 DEF Claim, ClaimPublication, RecordFails, PublicationRow, storeVars
    <2>2. ASSUME NEW row, RecordProgress(row), row.status = publication.status PROVE FALSE
      BY <1>2, <2>2 DEF RecordProgress
    <2>3. ~ (MakeTree(w) \/ MakeCommit(w) \/ RecordRef(w) \/ RecordPull(w) \/ MakeCheck(w))
      <3>1. \A x : /\ [publication EXCEPT !.tree = x].status = publication.status
                   /\ [publication EXCEPT !.commit = x].status = publication.status
                   /\ [publication EXCEPT !.head = x].status = publication.status
                   /\ [publication EXCEPT !.pull = x].status = publication.status
                   /\ [publication EXCEPT !.check = x].status = publication.status
        BY <1>1 DEF PublicationRow
      <3> QED
        BY <1>2, <2>2, <3>1 DEF MakeTree, MakeCommit, RecordRef, RecordPull, MakeCheck, storeVars
    <2>4. ~ Finish(w)
      BY <1>1, <1>2 DEF Finish, CompletePublication, RecordFails, PublicationRow, storeVars
    <2>5. ~ (CheckBase(w) \/ CheckPull(w) \/ ReadBranch(w) \/ WriteRef(w) \/ WritePull(w)
               \/ Raise(w))
      BY <1>2 DEF CheckBase, CheckPull, ReadBranch, WriteRef, WritePull, Raise, storeVars
    <2> QED
      BY <1>7, <2>1, <2>3, <2>4, <2>5 DEF PublisherRuns
  <1> QED
    BY <1>3, <1>4, <1>5, <1>6, <1>7 DEF PublishersLive

\* A record that failed has no owner: whoever is still at work on it is disowned.
LEMMA FailureKeepsStep ==
  ASSUME OwnerInv, PublishingInv', PublishersLive, RecordFails,
         disowned' = Claimants', strayed' = (strayed \/ Strays)
  PROVE  OwnerInv'
  <1>1. PICK w \in Publishers : Fail(w)
    BY RunsFailRecords DEF OwnerInv
  <1>2. /\ publication \in PublicationRow /\ publishers \in [Publishers -> SafePublishers]
        /\ publishers' = [publishers EXCEPT ![w] = IdlePublisher] /\ github' = github
        /\ publication' = [publication EXCEPT !.status = "failed"]
    BY <1>1, SafeObjects
       DEF OwnerInv, PublishingInv, PublicationInv, Fail, FailPublication, RecordFails
  <1>3. ClaimsAreKept'
    BY <1>2 DEF OwnerInv, ClaimsAreKept, Claimants, IdlePublisher, NoRecord
  <1>4. RowInStep => RowInStep'
    BY <1>2 DEF RowInStep, LastPull, Opened, PublicationRow
  <1>5. Owners' = {}
    BY DEF Owners
  <1> QED
    BY <1>3, <1>4, <1>5 DEF OwnerInv

\* Every step keeps the record and its owner in step.
LEMMA OwnerInvariance == OwnerSpec => []OwnerInv
  <1>1. OwnerInit => OwnerInv
    <2> SUFFICES ASSUME OwnerInit PROVE OwnerInv
      OBVIOUS
    <2>1. PublishingInv
      BY InitSafe DEF OwnerInit
    <2>2. RowInStep
      BY DEF OwnerInit, Init, StoreInit, RowInStep
    <2>3. Claimants = {} /\ ClaimsAreKept
      BY DEF OwnerInit, Init, Claimants, ClaimsAreKept, IdlePublisher, NoRecord
    <2> QED
      BY <2>1, <2>2, <2>3 DEF OwnerInit, OwnerInv, Owners
  <1>2. OwnerInv /\ [OwnerNext]_ownerVars => OwnerInv'
    <2> SUFFICES ASSUME OwnerInv, [OwnerNext]_ownerVars PROVE OwnerInv'
      OBVIOUS
    <2>1. PublishingInv /\ PublishingInv'
      BY NextSafe DEF OwnerInv, OwnerNext, RunsAreTold, DeathIsTold, Next, ownerVars
    <2>2. CASE RunsAreTold /\ RecordFails
      BY <2>1, <2>2, FailureKeepsStep DEF RunsAreTold
    <2>3. CASE RunsAreTold /\ ~ RecordFails
      <3>1. Told /\ PublishersLive
        BY <2>3 DEF RunsAreTold, Told
      <3>2. ASSUME NEW w \in Publishers, PublisherRuns(w) PROVE OwnerInv'
        BY <2>1, <2>3, <3>1, <3>2, ClaimKeepsStep, RunsKeepStep DEF PublisherRuns
      <3> QED
        BY <3>1, <3>2, OthersKeepStep, PublishKeepsStep DEF PublishersLive
    <2>4. ASSUME NEW w \in Publishers, DeathIsTold(w) PROVE OwnerInv'
      <3>1. Crash(w) /\ UNCHANGED <<publication, github>> /\ ~ RecordFails
        BY <2>4 DEF DeathIsTold, Crash, storeVars, RecordFails
      <3>2. publishers' = [publishers EXCEPT ![w] = IdlePublisher]
        BY <3>1 DEF Crash
      <3>3. Claimants' = Claimants \ {w}
        BY <2>1, <3>2 DEF Claimants, PublishingInv, IdlePublisher, NoRecord
      <3>4. disowned' = disowned \cap Claimants'
        BY <2>4, <3>3 DEF DeathIsTold, OwnerInv
      <3>5. strayed' <=> strayed \/ Strays
        BY <2>4, <3>1 DEF DeathIsTold, Strays
      <3> QED
        BY <2>1, <3>1, <3>4, <3>5, RunsKeepStep DEF Told
    <2>5. CASE UNCHANGED ownerVars
      <3>1. /\ publication' = publication /\ publishers' = publishers
            /\ disowned' = disowned /\ strayed' = strayed /\ Opened' = Opened
        BY <2>5 DEF ownerVars, vars, storeVars, Opened
      <3>2. disowned' = disowned \cap Claimants' /\ ~ Strays
        BY <3>1 DEF Strays, OwnerInv, Claimants
      <3> QED
        BY <2>1, <3>1, <3>2, OthersInStep DEF Told
    <2> QED
      BY <2>2, <2>3, <2>4, <2>5 DEF OwnerNext
  <1> QED
    BY <1>1, <1>2, PTL DEF OwnerSpec

\* The history forbids nothing: what is proved of publishing holds with it.
THEOREM OwnersPreventNothing == OwnerSpec => Spec
  <1>1. OwnerInit => Init
    BY DEF OwnerInit
  <1>2. [OwnerNext]_ownerVars => [Next]_vars
    BY DEF OwnerNext, RunsAreTold, DeathIsTold, Next, ownerVars
  <1> QED
    BY <1>1, <1>2, PTL DEF OwnerSpec, Spec

\* However often it was interrupted and resumed before, a publication that completed
\* published its own attempt: tree, commit, branch, pull request and check.
THEOREM CompletedPublicationIsWhole == OwnerSpec => []CompletedPublicationIsItsAttempt
  <1>1. OwnerInv => CompletedPublicationIsItsAttempt
    <2> SUFFICES ASSUME OwnerInv, ~ strayed, publication.status = "completed"
                 PROVE  CompletedPublicationIsItsAttempt
      BY DEF CompletedPublicationIsItsAttempt
    <2>1. publication.pull \in Opened /\ RowInStep /\ PublicationInv
      BY DEF OwnerInv, PublishingInv, PublicationInv, SafeRow
    <2> QED
      BY <2>1 DEF Opened, RowInStep, PublicationInv, CompletedPublicationIsItsAttempt
  <1> QED
    BY <1>1, OwnerInvariance, PTL

\* A resumed run finds only checkpoints of the attempt it publishes.
THEOREM CheckpointsAreTheAttempts == OwnerSpec => []CheckpointsAreOfThisAttempt
  <1>1. OwnerInv => CheckpointsAreOfThisAttempt
    <2> SUFFICES ASSUME OwnerInv PROVE CheckpointsAreOfThisAttempt
      OBVIOUS
    <2>1. publication.pull \in Opened /\ (~ strayed => RowInStep)
      BY DEF OwnerInv, PublishingInv, PublicationInv, SafeRow
    <2> QED
      BY <2>1 DEF Opened, RowInStep, CheckpointsAreOfThisAttempt
  <1> QED
    BY <1>1, OwnerInvariance, PTL

\* Lost replies, retries and revisions never open a second pull request beside a
\* recorded one.
THEOREM OneDraftForEachMigration == OwnerSpec => []OneDraftPerMigration
  <1>1. OwnerInv => OneDraftPerMigration
    <2> SUFFICES ASSUME OwnerInv, ~ strayed, publication.pull # 0, NEW n \in Pulls,
                        n > publication.pull
                 PROVE  github.pulls[n] = NoPull
      BY DEF OneDraftPerMigration
    <2>1. /\ RowInStep /\ RepositoryInv /\ publication.pull \in Nat /\ n \in Nat
      BY PublishingAssumption
         DEF OwnerInv, PublishingInv, StoreInv, StoreTypeOK, PublicationRow, Pulls
    <2>2. n \notin Opened
      BY <2>1 DEF RowInStep, LastPull
    <2> QED
      BY <2>1, <2>2 DEF Opened, RepositoryInv
  <1> QED
    BY <1>1, OwnerInvariance, PTL

\* A run strays only after a claim that raised: as long as none does, every run at work
\* is the owner of the record, and the three properties hold without exception.
THEOREM OnlyRaisedClaimsLeadAstray ==
  ASSUME ~ ClaimFaults
  PROVE  OwnerSpec => []~ strayed
  <1> DEFINE Faithful == /\ OwnerInv /\ ~ strayed /\ disowned = {}
                         /\ \A w \in Publishers : publishers[w].pc = "failing" => w \in Claimants
  <1>1. OwnerInit /\ OwnerInv => Faithful
    BY DEF OwnerInit, Init, IdlePublisher
  <1>2. Faithful /\ OwnerInv' /\ [OwnerNext]_ownerVars => Faithful'
    <2> SUFFICES ASSUME Faithful, OwnerInv', [OwnerNext]_ownerVars PROVE Faithful'
      OBVIOUS
    <2>1. /\ PublishingInv /\ publishers \in [Publishers -> SafePublishers]
          /\ publication \in PublicationRow
      BY SafeObjects DEF OwnerInv, PublishingInv, PublicationInv
    <2>2. ~ strayed'
      BY DEF OwnerNext, RunsAreTold, DeathIsTold, Strays, ownerVars
    <2>3. disowned' = {}
      <3>1. CASE RunsAreTold /\ RecordFails
        <4>1. PICK w \in Publishers : Fail(w)
          BY <2>1, <3>1, RunsFailRecords DEF RunsAreTold
        <4>2. /\ w \in Owners /\ \A v \in Claimants : v \in Owners
              /\ publishers' = [publishers EXCEPT ![w] = IdlePublisher]
          BY <4>1 DEF Fail, At, Owners
        <4>3. \A v \in Claimants : v = w
          BY <4>2 DEF OwnerInv
        <4>4. Claimants' = {}
          BY <2>1, <4>2, <4>3 DEF Claimants, IdlePublisher, NoRecord
        <4> QED
          BY <3>1, <4>4 DEF RunsAreTold
      <3>2. CASE ~ (RunsAreTold /\ RecordFails)
        BY <3>2 DEF OwnerNext, RunsAreTold, DeathIsTold, ownerVars
      <3> QED
        BY <3>1, <3>2
    <2>4. ASSUME NEW w \in Publishers, publishers'[w].pc = "failing"
          PROVE  w \in Claimants'
      <3>1. CASE publishers' = publishers
        BY <2>4, <3>1 DEF Claimants
      <3>2. ASSUME NEW v \in Publishers, Claim(v), publishers' # publishers
            PROVE  w \in Claimants'
        <4>1. ClaimPublication
          BY <3>2 DEF Claim
        <4>2. publication'.status = "publishing"
          BY <2>1, <4>1 DEF ClaimPublication, PublicationRow
        <4>3. publishers' = [publishers EXCEPT ![v] =
                 [IdlePublisher EXCEPT !.pc = "base", !.record = publication',
                                       !.pull = publication.pull]]
          BY <3>2, <4>1, <4>2 DEF Claim, ClaimPublication
        <4>4. v # w /\ publishers'[w] = publishers[w]
          BY <2>1, <2>4, <4>3 DEF IdlePublisher
        <4> QED
          BY <2>4, <4>4 DEF Claimants
      <3>3. ASSUME NEW v \in Publishers, PublisherRuns(v) \/ Crash(v), ~ Claim(v)
            PROVE  w \in Claimants'
        <4>1. PICK p : /\ publishers' = [publishers EXCEPT ![v] = p]
                       /\ p # publishers[v] /\ publishers[v].pc # "idle"
                       /\ \/ p = IdlePublisher
                          \/ p.pc # "idle" /\ p.record = publishers[v].record
          BY <2>1, <3>3, RunsMove DEF PublisherRuns
        <4>2. \A u \in Publishers : publishers[u].pc # "idle" => u \in Claimants
          BY DEF OwnerInv, ClaimsAreKept
        <4>3. CASE v = w
          BY <2>1, <2>4, <4>1, <4>2, <4>3 DEF Claimants, IdlePublisher
        <4>4. CASE v # w
          BY <2>1, <2>4, <4>1, <4>2, <4>4 DEF Claimants
        <4> QED
          BY <4>3, <4>4
      <3>4. \/ publishers' = publishers
            \/ \E v \in Publishers : PublisherRuns(v) \/ Crash(v)
        <4>1. CASE RunsAreTold
          BY <4>1 DEF RunsAreTold, PublishersLive, Generate, Revise, Snooze,
             GenerationWorker, Publish, PublishAgain, HumanPush, HumanEditsPull, BaseMoves,
             Outside, HandlerStep, Begin, Verify, Write, Apply, HandlerDies
        <4>2. CASE ~ RunsAreTold
          BY <4>2 DEF OwnerNext, DeathIsTold, ownerVars, vars
        <4> QED
          BY <4>1, <4>2
      <3> QED
        BY <3>1, <3>2, <3>3, <3>4
    <2> QED
      BY <2>2, <2>3, <2>4
  <1> QED
    BY <1>1, <1>2, OwnerInvariance, PTL DEF OwnerSpec

--------------------------------------------------------------------------------
(* The rows still follow their lifecycle *)

\* However a publication is cut into requests and resumed, whoever decides meanwhile,
\* the rows move along their tables or not at all.
LEMMA PublishingMoves ==
  ASSUME PublishingInv, RowsCountFromZero, [Next]_vars
  PROVE  EntitiesMove
  <1>1. /\ StoreInv /\ migration.version \in Nat
        /\ publishers \in [Publishers -> SafePublishers]
        /\ handlers \in [Handlers -> SafeHandlers]
    BY DEF PublishingInv, StoreInv, StoreTypeOK, MigrationRow
  <1>2. CASE Generate \/ Revise \/ Snooze
    <2>1. CASE Generate
      BY <1>1, <2>1, QueueAttemptFollows DEF Generate
    <2>2. CASE Revise \/ Snooze
      BY <1>1, <2>2, ApplyDeveloperActionFollows DEF Revise, Snooze, DeveloperActions
    <2> QED
      BY <1>2, <2>1, <2>2
  <1>3. CASE GenerationWorker
    BY <1>1, <1>3, GenerationFollows DEF GenerationWorker, DeveloperActions
  <1>4. CASE Publish
    BY <1>1, <1>4, PublicationFollows DEF Publish
  <1>5. CASE PublishAgain \/ HumanPush \/ HumanEditsPull \/ BaseMoves
    BY <1>5, NothingMoves DEF PublishAgain, HumanPush, HumanEditsPull, BaseMoves, storeVars
  <1>6. ASSUME NEW w \in Publishers, PublisherRuns(w) \/ Crash(w)
        PROVE  EntitiesMove
    <2>1. CASE Claim(w)
      BY <1>1, <2>1, PublicationFollows, NothingMoves DEF Claim, storeVars
    <2>2. CASE Finish(w)
      <3> DEFINE p == publishers[w]
      <3>1. /\ p.record.attempt \in AttemptIdOrNull /\ p.tree \in AttemptIdOrNull
            /\ p.commit \in AttemptIdOrNull /\ p.pull \in Nat
        BY <1>1, SafePublisherFields, SafeObjects
      <3>2. \/ CompletePublication(p.record.attempt, p.tree, p.commit, p.pull)
            \/ UNCHANGED storeVars
        BY <2>2 DEF Finish
      <3> HIDE DEF p
      <3> QED
        BY <1>1, <3>1, <3>2, PublicationFollows, NothingMoves DEF storeVars
    <2>3. CASE Fail(w)
      BY <1>1, <2>3, PublicationFollows DEF Fail
    <2>4. CASE MakeTree(w) \/ MakeCommit(w) \/ RecordRef(w) \/ RecordPull(w) \/ MakeCheck(w)
      BY <2>4, NothingMoves
         DEF MakeTree, MakeCommit, RecordRef, RecordPull, MakeCheck, RecordProgress, storeVars
    <2>5. CASE CheckBase(w) \/ CheckPull(w) \/ ReadBranch(w) \/ WriteRef(w) \/ WritePull(w)
                 \/ Raise(w) \/ Crash(w)
      BY <2>5, NothingMoves
         DEF CheckBase, CheckPull, ReadBranch, WriteRef, WritePull, Raise, Crash, storeVars
    <2> QED
      BY <1>6, <2>1, <2>2, <2>3, <2>4, <2>5 DEF PublisherRuns
  <1>7. ASSUME NEW h \in Handlers, HandlerStep(h)
        PROVE  EntitiesMove
    <2>1. handlers[h].action \in DeveloperActions /\ handlers[h].expected \in Nat
      BY <1>1 DEF SafeHandlers, HandlerState, DeveloperActions
    <2>2. CASE Apply(h)
      BY <1>1, <2>1, <2>2, ApplyDeveloperActionFollows, NothingMoves DEF Apply, storeVars
    <2>3. CASE ~ Apply(h)
      BY <1>7, <2>3, NothingMoves DEF HandlerStep, Begin, Verify, Write, HandlerDies, storeVars
    <2> QED
      BY <2>2, <2>3
  <1>8. CASE UNCHANGED vars
    BY <1>8, NothingMoves DEF vars, storeVars
  <1> QED
    BY <1>2, <1>3, <1>4, <1>5, <1>6, <1>7, <1>8 DEF Next, PublishersLive

LEMMA PublishingAlwaysMoves == Spec => []RowsCountFromZero /\ [][EntitiesMove]_vars
  <1>1. Init => RowsCountFromZero
    BY StoreStarts DEF Init
  <1>2. RowsCountFromZero /\ PublishingInv /\ [Next]_vars => RowsCountFromZero'
    BY PublishingMoves DEF EntitiesMove
  <1> QED
    BY PublishingInvariance, PublishingMoves, <1>1, <1>2, PTL DEF Spec

\* A migration whose publication is taken apart, raced by decisions and by people using
\* the repository, still implements the versioned lifecycle of its table.
THEOREM PublishingImplementsTheLifecycle == Spec => MigrationIsVersioned
  <1>1. Init => MigrationEntity!Init
    BY StoreStarts DEF Init
  <1>2. [EntitiesMove]_vars => [MigrationEntity!Next]_(MigrationEntity!vars)
    BY EntitiesStep DEF vars
  <1> QED
    BY PublishingAlwaysMoves, <1>1, <1>2, PTL
       DEF Spec, MigrationIsVersioned, MigrationEntity!Spec

\* So do its attempts.
THEOREM PublishingKeepsTheAttempts == Spec => AttemptsAreVersioned
  <1> DEFINE Steps == \A a \in AttemptIds : [AttemptEntity(a)!Next]_(attempts[a])
  <1>1. Init => \A a \in AttemptIds : AttemptEntity(a)!Init
    BY StoreStarts DEF Init
  <1>2. [EntitiesMove]_vars => [Steps]_storeVars
    BY EntitiesStep DEF vars
  <1> QED
    BY PublishingAlwaysMoves, <1>1, <1>2, PTL DEF Spec, AttemptsAreVersioned

================================================================================
