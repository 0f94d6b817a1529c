---------------------------- MODULE DraftPublishing ----------------------------
(***************************************************************************)
(* Publishing a migration as a draft pull request: the steps of            *)
(* GitHubPullRequestPublisher.publish, each GitHub request and each        *)
(* checkpoint on its own, over the transactions of MigrationStore, while   *)
(* developers approve and decline (a GitHub write, then the database) and  *)
(* people use the repository directly.                                     *)
(*                                                                         *)
(* Requests the database alone serves (generate, revise, snooze, publish)  *)
(* are single transactions here: MigrationLifecycle takes them apart.      *)
(***************************************************************************)
EXTENDS MigrationStore

CONSTANTS
  Publishers,   \* workers that may run publish_migration_draft
  Handlers,     \* HTTP handlers of approve and decline that may overlap
  MaxPulls,     \* bound: pull requests opened for the branch
  MaxJobs,      \* bound: copies of the publication job in the queue
  People,       \* BOOLEAN: may people push, close, ready or move the base
  LostReplies,  \* BOOLEAN: may a GitHub write take effect and still raise
  Crashes,      \* BOOLEAN: may a process die
  ClaimFaults   \* BOOLEAN: may a claim raise before it runs

ASSUME PublishingAssumption ==
  /\ MaxPulls \in Nat \ {0}
  /\ MaxJobs \in Nat
  /\ People \in BOOLEAN /\ LostReplies \in BOOLEAN
  /\ Crashes \in BOOLEAN /\ ClaimFaults \in BOOLEAN

VARIABLES
  github,      \* the repository as GitHub holds it
  pubJobs,     \* copies of publish_migration_draft in the queue
  publishers,  \* each worker's place in publish()
  handlers     \* each handler's place in _developer_action

vars == <<storeVars, github, pubJobs, publishers, handlers>>

Pulls == 1 .. MaxPulls
HumanCommit == MaxAttempts + 1        \* any commit Delta Code did not make
Commits == 0 .. HumanCommit           \* 0: no such ref

NoPull == [state |-> "none", draft |-> FALSE, head |-> 0]

\* moved: the base branch has left the commit every attempt was verified on.
GitHubState ==
  [moved : BOOLEAN, branch : Commits,
   pulls : [Pulls -> [state : {"none", "open", "closed"}, draft : BOOLEAN, head : Commits]]]

PublisherPCs ==
  {"idle", "base", "pull", "branch", "tree", "commit", "ref", "recordRef", "draft",
   "recordPull", "check", "finish", "failing"}

\* record is the context's frozen copy of the row, seen the branch head it read,
\* tree, commit and pull the locals of publish().
PublisherState ==
  [pc : PublisherPCs, record : PublicationRow, seen : Commits,
   tree : AttemptIdOrNull, commit : AttemptIdOrNull, pull : Nat]

HandlerState ==
  [pc : {"idle", "verify", "write", "apply"}, action : {"approve", "decline"},
   expected : Nat, pull : Nat, head : AttemptIdOrNull]

IdleHandler ==
  [pc |-> "idle", action |-> "approve", expected |-> 0, pull |-> 0, head |-> 0]

NoRecord ==
  [status |-> "absent", attempt |-> 0, tree |-> 0, commit |-> 0, head |-> 0,
   pull |-> 0, check |-> FALSE]

IdlePublisher ==
  [pc |-> "idle", record |-> NoRecord, seen |-> 0, tree |-> 0, commit |-> 0, pull |-> 0]

Init ==
  /\ StoreInit
  /\ github = [moved |-> FALSE, branch |-> 0, pulls |-> [n \in Pulls |-> NoPull]]
  /\ pubJobs = 0
  /\ publishers = [w \in Publishers |-> IdlePublisher]
  /\ handlers = [h \in Handlers |-> IdleHandler]

--------------------------------------------------------------------------------
(* GitHub (external: modelled from how the publisher uses it) *)

OpenPulls == {n \in Pulls : github.pulls[n].state = "open"}

\* A ref update moves the head of the pull requests open from that branch.
Pushed(commit) ==
  [github EXCEPT !.branch = commit,
                 !.pulls = [n \in Pulls |->
                    IF n \in OpenPulls THEN [github.pulls[n] EXCEPT !.head = commit]
                    ELSE github.pulls[n]]]

\* GitHub refuses a second open pull request of one branch.
CanOpenPull ==
  /\ github.branch # 0
  /\ OpenPulls = {}
  /\ \E n \in Pulls : github.pulls[n].state = "none"

NextPull == CHOOSE n \in Pulls :
  /\ github.pulls[n].state = "none"
  /\ \A m \in Pulls : m < n => github.pulls[m].state # "none"

WithPull(n, pull) == [github EXCEPT !.pulls = [github.pulls EXCEPT ![n] = pull]]

\* People work on the repository directly.
HumanPush ==
  /\ People
  /\ github.branch \notin {0, HumanCommit}
  /\ github' = Pushed(HumanCommit)
  /\ UNCHANGED <<storeVars, pubJobs, publishers, handlers>>

HumanEditsPull ==
  /\ People
  /\ \E n \in OpenPulls :
       \/ github' = WithPull(n, [github.pulls[n] EXCEPT !.state = "closed"])
       \/ /\ github.pulls[n].draft
          /\ github' = WithPull(n, [github.pulls[n] EXCEPT !.draft = FALSE])
  /\ UNCHANGED <<storeVars, pubJobs, publishers, handlers>>

BaseMoves ==
  /\ People
  /\ ~ github.moved
  /\ github' = [github EXCEPT !.moved = TRUE]
  /\ UNCHANGED <<storeVars, pubJobs, publishers, handlers>>

--------------------------------------------------------------------------------
(* Requests and generation, as transactions of MigrationStore *)

Outside == <<github, publishers, handlers>>

Generate ==
  /\ \E key \in Keys : QueueAttempt(key, migration.version)
  /\ UNCHANGED <<pubJobs, Outside>>

Revise ==
  /\ \E key \in Keys : ApplyDeveloperAction("revise", key, migration.version)
  /\ UNCHANGED <<pubJobs, Outside>>

Snooze ==
  /\ \E key \in Keys : ApplyDeveloperAction("snooze", key, migration.version)
  /\ UNCHANGED <<pubJobs, Outside>>

GenerationWorker ==
  /\ \E a \in AttemptIds :
       \/ ClaimAttempt(a)
       \/ CompleteAttempt(a, "approve", TRUE)
       \/ attempts[a].status = "generating" /\ FailAttempt(a)
  /\ UNCHANGED <<pubJobs, Outside>>

Publish ==
  /\ \E key \in Keys : QueuePublication(key, migration.version)
  /\ pubJobs < MaxJobs
  /\ pubJobs' = pubJobs + 1
  /\ UNCHANGED Outside

\* A retry with a recorded key defers the job once more.
PublishAgain ==
  /\ \E key \in Keys : Recorded("publish", key)
  /\ pubJobs < MaxJobs
  /\ pubJobs' = pubJobs + 1
  /\ UNCHANGED <<storeVars, Outside>>

--------------------------------------------------------------------------------
(* publish_migration_draft *)

At(w, pc) == publishers[w].pc = pc
Goto(w, pc) == publishers' = [publishers EXCEPT ![w] = [publishers[w] EXCEPT !.pc = pc]]

Claim(w) ==
  /\ At(w, "idle")
  /\ pubJobs > 0
  /\ pubJobs' = pubJobs - 1
  /\ \/ /\ ClaimPublication
        /\ publishers' =
             [publishers EXCEPT ![w] =
                [IdlePublisher EXCEPT !.pc = "base", !.record = publication',
                                      !.pull = publication.pull]]
     \/ /\ ~ CanClaimPublication
        /\ UNCHANGED <<storeVars, publishers>>
     \/ /\ ClaimFaults
        /\ Goto(w, "failing")
        /\ UNCHANGED storeVars
  /\ UNCHANGED <<github, handlers>>

\* GET the base ref: it must still be the verified commit.
CheckBase(w) ==
  /\ At(w, "base")
  /\ Goto(w, IF github.moved THEN "failing"
             ELSE IF publishers[w].record.pull # 0 THEN "pull" ELSE "branch")
  /\ UNCHANGED <<storeVars, github, pubJobs, handlers>>

\* The recorded pull request is open, a draft, and at the recorded head.
Untouched(record) ==
  github.pulls[record.pull] =
    [state |-> "open", draft |-> TRUE, head |-> record.head]

\* GET the recorded pull request.
CheckPull(w) ==
  /\ At(w, "pull")
  /\ Goto(w, IF Untouched(publishers[w].record) THEN "branch" ELSE "failing")
  /\ UNCHANGED <<storeVars, github, pubJobs, handlers>>

\* Mutation: the branch is never somebody else's.
Owned_Always(record, head) == TRUE

\* Without a pull request the branch is absent or already at the recorded commit;
\* with one it is at the recorded head or commit.
Owned(record, head) ==
  IF record.pull = 0
  THEN head = 0 \/ (record.commit # 0 /\ head = record.commit)
  ELSE head \in {record.head, record.commit}

\* GET the branch ref.
ReadBranch(w) ==
  /\ At(w, "branch")
  /\ publishers' =
       [publishers EXCEPT ![w] =
          [publishers[w] EXCEPT
             !.seen = github.branch,
             !.pc = IF Owned(publishers[w].record, github.branch)
                    THEN "tree" ELSE "failing"]]
  /\ UNCHANGED <<storeVars, github, pubJobs, handlers>>

\* POST the tree and checkpoint it, unless the record has one.  No ref reaches the
\* object yet, so creating it again after a lost reply changes nothing.
MakeTree(w) ==
  /\ At(w, "tree")
  /\ LET record == publishers[w].record
         tree   == IF record.tree # 0 THEN record.tree ELSE record.attempt
     IN  /\ publishers' = [publishers EXCEPT ![w] =
                             [publishers[w] EXCEPT !.tree = tree, !.pc = "commit"]]
         /\ IF record.tree # 0 THEN UNCHANGED storeVars
            ELSE RecordProgress([publication EXCEPT !.tree = tree])
  /\ UNCHANGED <<github, pubJobs, handlers>>

\* POST the commit of that tree and checkpoint it, unless the record has one.
MakeCommit(w) ==
  /\ At(w, "commit")
  /\ LET record == publishers[w].record
         commit == IF record.commit # 0 THEN record.commit ELSE publishers[w].tree
     IN  /\ publishers' = [publishers EXCEPT ![w] =
                             [publishers[w] EXCEPT !.commit = commit, !.pc = "ref"]]
         /\ IF record.commit # 0 THEN UNCHANGED storeVars
            ELSE RecordProgress([publication EXCEPT !.commit = commit])
  /\ UNCHANGED <<github, pubJobs, handlers>>

\* The write raises: refused, or done but the reply lost.
Outcome(w, next) == Goto(w, next) \/ (LostReplies /\ Goto(w, "failing"))

\* Create the branch, or force-update it when it belongs to the pull request.
WriteRef(w) ==
  /\ At(w, "ref")
  /\ LET p == publishers[w]
     IN  \/ /\ p.record.pull = 0 /\ p.seen = 0
            /\ IF github.branch = 0
               THEN github' = Pushed(p.commit) /\ Outcome(w, "recordRef")
               ELSE UNCHANGED github /\ Goto(w, "failing")
         \/ /\ p.record.pull = 0 /\ p.seen # 0
            /\ Goto(w, IF p.record.head # p.commit THEN "recordRef" ELSE "draft")
            /\ UNCHANGED github
         \/ /\ p.record.pull # 0 /\ p.seen # p.commit
            /\ github' = Pushed(p.commit)
            /\ Outcome(w, "recordRef")
         \/ /\ p.record.pull # 0 /\ p.seen = p.commit
            /\ Goto(w, "draft")
            /\ UNCHANGED github
  /\ UNCHANGED <<storeVars, pubJobs, handlers>>

RecordRef(w) ==
  /\ At(w, "recordRef")
  /\ RecordProgress([publication EXCEPT !.head = publishers[w].commit])
  /\ Goto(w, "draft")
  /\ UNCHANGED <<github, pubJobs, handlers>>

\* POST a draft pull request, or verify and retitle the recorded one.
WritePull(w) ==
  /\ At(w, "draft")
  /\ LET p == publishers[w]
         n == NextPull
     IN  IF p.record.pull = 0
         THEN \/ /\ CanOpenPull
                 /\ github' = WithPull(n, [state |-> "open", draft |-> TRUE,
                                           head |-> github.branch])
                 /\ \/ publishers' = [publishers EXCEPT ![w] =
                                        [p EXCEPT !.pull = n, !.pc = "recordPull"]]
                    \/ LostReplies /\ Goto(w, "failing")
              \/ /\ ~ CanOpenPull
                 /\ Goto(w, "failing")
                 /\ UNCHANGED github
         ELSE /\ Goto(w, IF github.pulls[p.record.pull].head = p.commit
                         THEN "recordPull" ELSE "failing")
              /\ UNCHANGED github
  /\ UNCHANGED <<storeVars, pubJobs, handlers>>

RecordPull(w) ==
  /\ At(w, "recordPull")
  /\ RecordProgress([publication EXCEPT !.pull = publishers[w].pull])
  /\ Goto(w, "check")
  /\ UNCHANGED <<github, pubJobs, handlers>>

\* POST the check run of the commit and checkpoint it, unless the record has one.
MakeCheck(w) ==
  /\ At(w, "check")
  /\ IF publishers[w].record.check THEN UNCHANGED storeVars
     ELSE RecordProgress([publication EXCEPT !.check = TRUE])
  /\ Goto(w, "finish")
  /\ UNCHANGED <<github, pubJobs, handlers>>

Finish(w) ==
  /\ At(w, "finish")
  /\ LET p == publishers[w]
     IN  \/ /\ CompletePublication(p.record.attempt, p.tree, p.commit, p.pull)
            /\ publishers' = [publishers EXCEPT ![w] = IdlePublisher]
         \/ /\ ~ CanCompletePublication(p.record.attempt)
            /\ Goto(w, "failing")
            /\ UNCHANGED storeVars
  /\ UNCHANGED <<github, pubJobs, handlers>>

\* Any step raises before its effect: permissions, GitHub errors, the gate.
Raise(w) ==
  /\ publishers[w].pc \notin {"idle", "failing"}
  /\ Goto(w, "failing")
  /\ UNCHANGED <<storeVars, github, pubJobs, handlers>>

Fail(w) ==
  /\ At(w, "failing")
  /\ FailPublication
  /\ publishers' = [publishers EXCEPT ![w] = IdlePublisher]
  /\ UNCHANGED <<github, pubJobs, handlers>>

Crash(w) ==
  /\ Crashes
  /\ ~ At(w, "idle")
  /\ publishers' = [publishers EXCEPT ![w] = IdlePublisher]
  /\ UNCHANGED <<storeVars, github, pubJobs, handlers>>

--------------------------------------------------------------------------------
(* _developer_action for approve and decline, with publishing enabled *)

HandlerGoto(h, pc) ==
  handlers' = [handlers EXCEPT ![h] = [handlers[h] EXCEPT !.pc = pc]]

\* load_pull_request_action.
LoadedPull == [pull |-> publication.pull, head |-> publication.head]

\* synchronize_developer_action: nothing to do on GitHub unless the migration is
\* pr_opened, else load_pull_request_action reads the record.
Begin(h, action) ==
  /\ handlers[h].pc = "idle"
  /\ ACTION_STATES[action] \in MIGRATION_TRANSITIONS[migration.status]
  /\ handlers' = [handlers EXCEPT ![h] =
       IF migration.status = "pr_opened"
       THEN [pc |-> "verify", action |-> action, expected |-> migration.version,
             pull |-> LoadedPull.pull, head |-> LoadedPull.head]
       ELSE [pc |-> "apply", action |-> action, expected |-> migration.version,
             pull |-> 0, head |-> 0]]
  /\ UNCHANGED <<storeVars, github, pubJobs, publishers>>

\* synchronize_action, its GET.
Verify(h) ==
  /\ handlers[h].pc = "verify"
  /\ LET pull == github.pulls[handlers[h].pull]
     IN  \/ /\ pull.head # handlers[h].head
            /\ HandlerGoto(h, "idle")
         \/ /\ pull.head = handlers[h].head
            /\ handlers[h].action = "approve"
            /\ HandlerGoto(h, IF pull.state # "open" THEN "idle"
                              ELSE IF pull.draft THEN "write" ELSE "apply")
         \/ /\ pull.head = handlers[h].head
            /\ handlers[h].action = "decline"
            /\ HandlerGoto(h, IF pull.state = "closed" THEN "apply" ELSE "write")
  /\ UNCHANGED <<storeVars, github, pubJobs, publishers>>

\* synchronize_action, its write: mark ready (refused once closed) or close.
Write(h) ==
  /\ handlers[h].pc = "write"
  /\ LET n    == handlers[h].pull
         pull == github.pulls[n]
     IN  \/ /\ handlers[h].action = "approve" /\ pull.state = "open"
            /\ github' = WithPull(n, [pull EXCEPT !.draft = FALSE])
            /\ HandlerGoto(h, "apply") \/ (LostReplies /\ HandlerGoto(h, "idle"))
         \/ /\ handlers[h].action = "approve" /\ pull.state # "open"
            /\ HandlerGoto(h, "idle")
            /\ UNCHANGED github
         \/ /\ handlers[h].action = "decline"
            /\ github' = WithPull(n, [pull EXCEPT !.state = "closed"])
            /\ HandlerGoto(h, "apply") \/ (LostReplies /\ HandlerGoto(h, "idle"))
  /\ UNCHANGED <<storeVars, pubJobs, publishers>>

\* apply_developer_action: commits, or raises because the version has moved on.
Apply(h) ==
  LET q == handlers[h]
  IN  /\ q.pc = "apply"
      /\ \/ \E key \in Keys : ApplyDeveloperAction(q.action, key, q.expected)
         \/ /\ \A key \in Keys : ~ CanApplyDeveloperAction(q.action, key, q.expected)
            /\ UNCHANGED storeVars
      /\ handlers' = [handlers EXCEPT ![h] = IdleHandler]
      /\ UNCHANGED <<github, pubJobs, publishers>>

HandlerDies(h) ==
  /\ Crashes
  /\ handlers[h].pc # "idle"
  /\ HandlerGoto(h, "idle")
  /\ UNCHANGED <<storeVars, github, pubJobs, publishers>>

--------------------------------------------------------------------------------

PublisherRuns(w) ==
  \/ Claim(w) \/ CheckBase(w) \/ CheckPull(w) \/ ReadBranch(w) \/ MakeTree(w)
  \/ MakeCommit(w) \/ WriteRef(w) \/ RecordRef(w) \/ WritePull(w) \/ RecordPull(w)
  \/ MakeCheck(w) \/ Finish(w) \/ Raise(w) \/ Fail(w)

HandlerStep(h) ==
  \/ \E action \in {"approve", "decline"} : Begin(h, action)
  \/ Verify(h) \/ Write(h) \/ Apply(h) \/ HandlerDies(h)

\* Every step that no publisher dies in.
PublishersLive ==
  \/ Generate \/ Revise \/ Snooze \/ GenerationWorker \/ Publish \/ PublishAgain
  \/ HumanPush \/ HumanEditsPull \/ BaseMoves
  \/ \E w \in Publishers : PublisherRuns(w)
  \/ \E h \in Handlers : HandlerStep(h)

Next == PublishersLive \/ \E w \in Publishers : Crash(w)

Spec == Init /\ [][Next]_vars

\* A queued job is taken by some worker, and a publisher that is not killed goes on:
\* every request it makes has a time limit and ends in a reply or an exception.
Progress(w) ==
  \/ CheckBase(w) \/ CheckPull(w) \/ ReadBranch(w) \/ MakeTree(w) \/ MakeCommit(w)
  \/ WriteRef(w) \/ RecordRef(w) \/ WritePull(w) \/ RecordPull(w) \/ MakeCheck(w)
  \/ Finish(w) \/ Fail(w)

Fairness ==
  /\ WF_vars(\E w \in Publishers : Claim(w))
  /\ \A w \in Publishers : WF_vars(Progress(w))

--------------------------------------------------------------------------------
(* Properties that hold *)

\* The rows, the repository and the processes have their types.
TypeOK ==
  /\ StoreTypeOK
  /\ github \in GitHubState
  /\ pubJobs \in Nat
  /\ publishers \in [Publishers -> PublisherState]
  /\ handlers \in [Handlers -> HandlerState]

\* Delta Code only ever pushes commits of attempts that completed with an approve
\* recommendation and passed checks, and that somebody asked to publish.
OnlyApprovedCommitsAreOnTheBranch ==
  github.branch \notin {0, HumanCommit} =>
    /\ attempts[github.branch].status = "completed"
    /\ attempts[github.branch].recommendation = "approve"
    /\ attempts[github.branch].passed
    /\ \E r \in records : r.op = "publish" /\ r.attempt = github.branch

\* Delta Code replaces what people pushed only if they pushed it after the branch
\* was read in the same run.
OverwritesOnlyUnseenPushes ==
  [][github.branch = HumanCommit /\ github'.branch # HumanCommit
       => \E w \in Publishers :
            publishers[w].pc = "ref" /\ publishers[w].seen \notin {0, HumanCommit}]_vars

\* A migration whose pull request is open is approved or declined only by a handler
\* that synchronized that pull request first, even when the decision started while
\* there was no pull request yet.
DecisionsAreSynchronized ==
  [][migration.status = "pr_opened" /\ migration'.status \in {"approved", "declined"}
       => \E h \in Handlers :
            /\ handlers[h].pc = "apply" /\ handlers'[h] = IdleHandler
            /\ handlers[h].pull = publication.pull]_vars

================================================================================
