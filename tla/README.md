# DeltaCode in TLA+

DeltaCode watches the documentation and changelogs of API providers, finds the
repositories a change affects, generates a migration for each of them in a
sandbox, and publishes it as a draft pull request for a developer to decide on.
This directory holds TLA+ models of that workflow and of the pages a developer
follows it on, the TLC configurations that check them on small instances, and
TLAPS proofs of the results that matter most. Every definition is translated from
the code under `src/`; `PROJECT.json` names the lines each one stands for.

## 1. The system

| component | state it keeps | operations | hard parts |
|---|---|---|---|
| `control_plane` | `migrations`, `migration_attempts`, `developer_decisions`, `idempotency_records` | approve, revise, snooze, decline; reads | optimistic versions; requests overlap; a state is stored twice (columns and JSON) |
| `migration_generation` | attempts, artifacts | queue, claim, complete, fail an attempt; the job that runs it; the client of the sandbox | duplicate and lost jobs; a worker outlives its attempt; one transaction, several edges |
| `github_publishing` | `pull_request_records`, and GitHub's branch and pull request | queue, claim, checkpoint, complete, fail; synchronise a decision | not one transaction but a dozen requests; lost replies, crashes, people working on the same branch |
| `ingestion` | sources, artifacts, change events, fan-out jobs, sync requests | sync a source, commit its changes, health | overlapping syncs, crash between commit and fan-out |
| `repository_intelligence` | snapshots, impacts, fan-out jobs | claim, analyse, complete, fail; creates migrations | job lifecycle, one active migration per change and repository |
| `sandbox-worker` | one container per request | write files, run checks, destroy, answer | time limits, containers that stop, partial results |
| `workspace_intelligence` | briefs, chat messages | queue, refresh, claim, complete, fail | refresh while running, unconditional failure, several questions of a thread |
| `pull_request_intelligence` | overviews and their attempts | queue, claim, complete, fail | claim accepts a running attempt; two tables updated under separate conditions |
| `intelligence_history` | none; lists the tables of the others | list, detail | lists change while they are paged |
| `oauth` | login states, completion tickets, sessions | login, callback, complete, logout | three transactions, several tabs, one cookie |
| `frontend` | the state hooks of each page, requests under way | load, poll, command, select, filter | answers that land late, out of order, or under another selection |
| `openai_responses`, `hardening`, `github_client`, `repo_fetch` | a token budget; counters | | decide only whether a job succeeds |

The server's parts interact through PostgreSQL and the Procrastinate queue only. An
HTTP handler commits a transaction and *then* defers a job; a worker claims its row
with a compare-and-set, works without holding anything, and commits its result
or its failure in another transaction. Decisions are guarded by the version the
client read; retries by idempotency keys. No job is retried by the queue. The
pages follow jobs by polling: a POST answers with the row it queued, and an
interval fetches it again while its status is one of work in progress.

What makes a component correct, one line each:

- control plane: two decisions never build on the same version; what the API
  serves is what the transactions check;
- generation: a migration is never ready on an attempt that was not approved and
  fully checked; a superseded worker moves nothing; a run always ends;
- sandbox: a pass that is accepted happened, on the requested tree as the request's own
  commands left it, and every request that got as far as its checks is answered;
- publishing: only approved commits reach the branch; the record is of one attempt and
  has one draft, unless a run goes on writing after another has failed it; what people
  pushed is lost at most in a window;
- ingestion and analysis: every change reaches every enabled repository once;
- AI jobs: nothing is left in progress with nobody on it; a row tells what its
  newest attempt tells;
- pages: a command is one the server takes, on what the server has; what is shown as
  in progress ends, except that a `generating` flag may be left set (section 6); a detail
  belongs to its heading, or gives way to the one that does;
- sign-in: a state, a ticket and a session are of one sign-in.

## 2. Modules

| module | models | extends / composes |
|---|---|---|
| `LifecycleTables` | `control_plane/state.py`: the two transition tables and `validate_transition` | |
| `VersionedLifecycle` | abstract specification: an entity moves along its published edges and its version counts them | |
| `MigrationStore` | the rows of one migration and every transaction that changes them; what implementing `VersionedLifecycle` means for the migration and its attempts | `LifecycleTables`, `VersionedLifecycle` |
| `MigrationLifecycle` | HTTP handlers, the job queue and workers running those transactions | `MigrationStore` |
| `DraftPublishing` | `GitHubPullRequestPublisher` request by request, the decision handlers, GitHub and people | `MigrationStore` |
| `PublicationOwner` | the same told with the history of whose record it is: which runs another one has failed the record under, whether one of them has written since, whether the run of the record has died | `DraftPublishing` |
| `MigrationStoreProofs` | three lemmas per transaction: it preserves `StoreInv`, takes nothing back (`RowsAdvance`), and moves the rows along their lifecycle (`EntitiesMove`) | `MigrationStore` |
| `MigrationLifecycleProofs`, `DraftPublishingProofs`, `MigrationPageProofs` | the theorems about the three compositions over `MigrationStore` | `MigrationLifecycle`, `PublicationOwner`, `MigrationPage`; each with `MigrationStoreProofs` |
| `SourceSync` | ingestion: requests, the hourly tick, the sync job and its three transactions, health | |
| `ProviderHealth` | ingestion told with the history of which transaction overtook which, for the status of the provider | `SourceSync` |
| `ChangeVerdict` | abstract specification: a change is put to a repository once, answered at most once, and the migration comes with the answer | |
| `RepositoryFanout` | the batch a sync defers, the analysis jobs, verdicts and the migrations they create; what implementing `ChangeVerdict` means for each job | `SourceSync`, `ChangeVerdict` |
| `IngestionProofs` | the theorems about these | `RepositoryFanout`, `ProviderHealth` |
| `SandboxPolicy` | `policy.ts`: which paths, commands and requests are accepted, how a command line is quoted, and how a shell reads it | |
| `SandboxWorker` | `index.ts` and its client `executor.py`: executions, containers, answers | `SandboxPolicy` |
| `SandboxWorkerProofs` | the theorems about executions | `SandboxWorker` |
| `MigrationPage` | the migration page: its two reads, its refresh, its commands | `MigrationStore` |
| `Browser` | what the intelligence pages share: polls and their bounds | |
| `PullRequestPage` | the pull request radar over `pull_request_intelligence` | `Browser` |
| `BriefPage` | the briefing page over the briefs of `workspace_intelligence` | `Browser` |
| `AskDelta` | the chat over the messages of `workspace_intelligence` | `Browser` |
| `RadarAndChat` | one of two pages that follow jobs of the model, whichever was navigated to | `PullRequestPage`, `AskDelta` |
| `IntelligencePagesProofs` | the theorems about the three pages | `PullRequestPage`, `BriefPage`, `AskDelta` |
| `HistoryPage` | the intelligence history: filters, pages, details | |
| `MigrationInbox` | the inbox over the keyset pages of `control_plane` | |
| `SignIn` | `oauth.py` and the header: tabs, one cookie, three tables | |
| `Dashboard` | the lighter panels, one of which a window shows | `HistoryPage`, `MigrationInbox`, `SignIn` |
| `DashboardProofs` | the theorems about the panels | `Dashboard` |
| `Workspace` | the migration page or one of the lighter panels, whichever was navigated to | `Dashboard`, `MigrationPage` |
| `MC...` | instances and symmetry for TLC | the module named |

### State and actions

`MigrationStore` has one variable per table. `migration` is the row with its
`data` column beside the columns it repeats; `attempts` is indexed by the
attempt's number; `publication` is the one `pull_request_records` row of the
migration, with the checkpoints `tree`, `commit`, `head`, `pull`, `check`;
`records` are the idempotency records, kept as what was asked and answered. A
Git object built for attempt *a* is written *a*: trees and commits are
content-addressed, and the commit's date is the evidence's `completed_at`, so
building the same attempt twice gives the same object.

Each action is one committed transaction, whole: `QueueAttempt` is everything
`queue_attempt` writes, including the record and the migration's new owner. For
each there is a `CanX`, the condition under which it commits; otherwise it raises
and is rolled back.

`MigrationLifecycle` takes the callers apart. A handler is `Lookup` (the
idempotency lookup, without a lock), then `Commit` or `Reject` (the transaction
under the row lock, with a version that may be stale by now), then `Defer`, or
`LoseRequest` if the process dies first. A worker is `Claim`, `Skip` or
`ClaimRaises`, then `Complete` or `Raise`, then `Fail` (the except clause), or
`Crash` anywhere. The same job may be in the queue several times because a retried
request defers it again.

`DraftPublishing` takes `publish` apart: each GitHub request is a step, each
checkpoint another, in the order of the code, so that a crash, a lost reply
(`LostReplies`: the write took effect and the request raised), a person or a
decision can come in between. `record` is the frozen copy of the row that
`claim_publication` returned, `publication` the row as it is. The decision
handlers are `Begin` (which reads whether there is a pull request), `Verify` and
`Write` (the GitHub calls) and `Apply` (the transaction). GitHub is modelled from
how the publisher uses it: a ref, pull requests whose head follows the ref while
they are open, and at most one open pull request of a branch. Requests that only
the database serves are single steps in this module, since `MigrationLifecycle`
takes them apart.

`PublicationOwner` prevents none of this and adds three history variables.
`fail_publication` asks for the record's status and not for the run, and a run fails the
record for any exception, one of its own claim included: `RecordFails` is that step, and
it disowns every other run at work on the record (`disowned`). `Strays` is a step of such a
run that changes the record or the repository; from then on `strayed` holds. `forsaken`
says that the process of the record's own run has died.

`SourceSync` has one record per sync request: its row (`request`), where its
requester is (`requester`: queue the row, defer the job, or mark it failed) and
where its job is (`pc`). The job is a step per read, request or transaction:
`ReadPrevious`, `Fetch`, `Normalize`, then one of `RecordNotModified`,
`RecordFailure` and `CommitChanges`, then the two updates of the request and the
deferral of the batch. The transactions are two steps (`OpenTransaction`, then the
commit), since each reads the other sources' status in between; the lock on the
source's row is what `OpenTransaction` waits for. A page is the set of operations
it lists, or of changes it states: an OpenAPI adapter reports the difference of two
pages, deduplicated on the operation and the new page's digest, a feed adapter
what the new page states, deduplicated on its key. (A field that becomes required
is one more thing a page may list; it is reported when it appears.) An event is its
dedupe key. `origins` is history: the baselines committed without a previous page.

`ProviderHealth` adds two history variables to it and prevents nothing: `overtaken` are
the transactions since whose reads another one has committed, `misled` says that such a
one was the last to write the provider's row. `SyncNext` is divided for it into
`QuietStep`, which writes no table, and `Commit`.

`RepositoryFanout` extends it. `copies` counts the analysis jobs in the queue for
each `change_fanout_jobs` row: the batch lists the rows that are `queued`, and
two batches may list the same row. `analysts` are the workers; `ClaimJob` claims
with the row's status as the guard, `CompleteJob` inserts verdict and migration and
then updates the row if it is still `analyzing`, `FailJob` is the except clause. A
verdict depends on the commit the default branch showed when it was checked out
(`Snapshots`, `Affecting`), so analysing twice could give opposite ones. The
migration it creates is the row `StoreInit` of `MigrationStore` starts from.

`SandboxWorker` has one record per execution: where `execute` is (`state`), the
next file and check, the results so far, `status` and `destroyed`. A container is
external and belongs to a name: it is started by the first call, keeps files and
processes, and may stop at any call, which then throws. A command may change any of the
files (`CommandWrites`), while its check runs and after it timed out: the imports check
puts the originals over the edits and restores them, formatters, installs and builds
write, and repository code does what it likes. `ownTree` is history: the bundled files
with the edits over them, as the commands of this very execution have changed them since.
So is `observed`: the checks that exited with success while no command of another
execution ran, on that tree. `client` is what `CloudflareSandboxExecutor.execute` makes
of it: it may give up before the answer, and otherwise accepts or refuses it by its own
validation (`Acceptable`), once it can read it at all (`Legible`: within its response
limit, and no log cut by `redactLog` between the halves of a surrogate pair). A
command is a sequence of words of characters, so that quoting is modelled by what it
does: `CommandLine` is the string handed to `exec`, `ShellWords` the words a shell makes
of it, one character at a time, and `ShellTakesLiterally` whether it would give any
character of it a meaning of its own.

The pages are models of React components as far as requests are concerned. A
variable holds the state hooks (`page`, `radar`, `desk`, `chat`, `history`, `inbox`),
others the requests under way. A request is sent, answered (the server reads or
commits), and lands (the callback runs) in separate steps wherever its answer can be
overtaken; a GET that is aborted by the next one is read as it lands.

When a click sets a state, the effect that depends on it runs in the same step, with the cleanup of the effect before it: React
flushes them before the next event. When the callback of a fetch sets it, the effect runs
in a later task: in the history, whose list may bring a selection of its own, it is a step
of its own (`effectDue`, `SelectionTakesEffect`), and the detail of the item before may land
ahead of it. The other pages leave this delay out: a list that reselects, a
poll or a POST clears nothing there, so that an old GET that lands in the gap leaves what it
would have left just before, or a status older than the poll's, until the GET that the
effect sends, or the next poll, replaces it. Which fetches a cleanup aborts and which it
does not is what these modules are about. A reload drops the answers still to
come, not the commands. An answer of 401 and a connection that breaks are one
outcome, an error.

`MigrationPage` composes the page with the rows of `MigrationStore`: `get_migration`
is two statements (`NextStatement`), a command carries the version on screen, and
`OtherTab` and the workers move the rows meanwhile, as `MigrationStore` allows.
`PullRequestPage`, `BriefPage` and `AskDelta` each hold their rows, their jobs with
the workers on them, and the page. `queue_brief` looks for the row without a lock and
writes it whatever it is by then (`BriefLooksUp`, `BriefCommits`); a kept brief that is
still queued has its job deferred again (`BriefKept`). In `SignIn` the answer of a request
may reach the browser later than the server's commit, or never: a sign-out deletes the
session of the cookie it was sent with (`SignOut`), and its answer deletes whatever cookie
the browser has by then (`SignedOut`). Every link is a full navigation, so that `Dashboard`,
`RadarAndChat` and `Workspace` are one page at a time; their pages share nothing but the
server, and a page that was not navigated to stays as it starts.

## 3. Runs

| run | expects | shows |
|---|---|---|
| `MigrationLifecycle` | pass | consistency of the rows, superseded workers, lost jobs that a retry defers again, and that migration and attempts implement `VersionedLifecycle` |
| `GenerationEnds` | pass | a queued generation always ends, in spite of failing claims and duplicate jobs, and what is in progress is always in somebody's hands |
| `DraftPublishing` | pass | checkpoints, completion and pull request stay those of one attempt under crashes, lost replies, revisions and claims that raise, unless a run writes after another has failed the record under it |
| `PublicationEnds` | pass | the branch holds approved commits or people's, decisions follow the pull request, and a claimed publication ends unless the process of its own run dies |
| `SourceSync` | pass | overlapping syncs keep health consistent, leave no difference between baselines without an event, and the provider follows its sources unless an overtaken transaction wrote its status |
| `ChangePipeline` | pass | each job is analysed once and implements `ChangeVerdict`; if nothing disturbs the processes, every queued job is in somebody's hands, and is analysed or failed |
| `SandboxExecution` | pass | accepted passes happened, only answers that cannot be read are refused, command lines survive the shell, written requests are answered |
| `Workspace` | pass | the commands the migration page offers are legal and informed, and progress on screen ends; a detail is of what is selected or gives way, the inbox skips and repeats nothing, sign-ins do not mix |
| `RadarAndChat` | pass | overviews agree with their attempts; a review in progress on screen ends, or `generating` was left set; the chat stops waiting |
| `BriefPage` | pass | no brief is stranded; a brief in progress on screen ends, or `generating` was left set |
| `PublishReply` | violation | the answer to a publication puts the publication's status on the screen as the migration's |
| `AnalysisEnds` | violation | a review that ends before a poll sees it leaves the radar "Analyzing PR…" for good |

`PublishReply` checks a sentence of `docs/architecture/phase-6-migration-inbox.md`,
`AnalysisEnds` what the page itself says while it shows a review in progress;
`PROJECT.json` quotes both under `findings`.

**Bounds.** `MaxAttempts = 2` gives a first attempt, a revision or retry that
supersedes it, and a publication of each: all that the code compares is "current
or not" and "same attempt as before or not". Two handlers are enough because a
decision conflicts with one other decision at a time (the row lock serialises
them); two workers because a claim is lost to one other worker. Two keys give a
retry with the same key and a new request. `MaxJobs = 1` still gives duplicate
jobs, since the first copy leaves the queue before the second is deferred.
`MaxPulls = 2` (of `DraftPublishing`; `PublicationEnds` has one) leaves room for the second
pull request that must not be opened.
Handlers, workers, keys, syncs and operations are symmetric: nothing orders them. No
liveness run uses symmetry; `GenerationEnds` has one worker, `PublicationEnds` one
publisher, and both publishing runs one handler, so that two publishers with a record
between them are in `DraftPublishing`, people and a fair queue in `PublicationEnds`: each
together would not end in the time a run is given. Their theorems are for any number of
both. The runs of a migration, of a page and of an execution do not check for
deadlock, because they may stop for good (a migration is approved, snoozed, declined or
at the bound on attempts; the bounds on sign-ins, reviews and questions are reached);
`SourceSync` and `ChangePipeline` do, because a page may always change.

`SourceSync` has two sources and three syncs. Two are of one source: the order in which
they read a baseline and the order in which they commit can differ, and an older page
can replace a newer one. The third is of the other source, which is a feed, and meets
them in the provider's status only. One operation gives a page that adds it and one that
removes it; the lost pages, rollbacks and crashes multiply the rest (with two operations
the run does not end in the time it is given). A third consecutive failure, which makes a
source failing, is out of its reach; the theorems, which have no bounds, cover it.
`ChangePipeline` has two syncs of a feed: the second states again
what the first stated while its job is in the queue or being analysed, so that two
copies of a job meet two workers; the two snapshots give opposite verdicts.

`SandboxExecution` has two executions and room for one container, so that one is
turned away while the other runs; of its six requests two are of the same attempt, one
has a damaged file, and three break one rule each. Two files, of which the edit replaces
one, and two checks give every position of a failure: before, between and after.
Executions meet only in the number of containers. A command may put the original of the
edited file back (`SomeOutputs`). A log is short, long or cut inside a character (`Logs`),
and one long log fits in the client's 2,000,000 bytes (`MaxLongLogs = 1`): in the code ten
checks have two logs of 20,000 UTF-16 units each, and JSON writes a control character in
six bytes, so that eight results of that kind fit and nine do not.

The migration page of `Workspace` has three commands in all, from this page or another
tab: one to make the page's version old, one of the page, and one after it. It has one refresh under
way besides the initial load (`MaxPolls = 1`): with two the run does not end in the
time it is given. Of the lighter panels, the history has three items of which a filter
keeps two, the inbox six keys for pages of two, and two tabs have two sign-ins. The radar of
`RadarAndChat` has two pull requests, one of which leaves GitHub's list, and two reviews, of
one or of both; `BriefPage` two scopes in a workspace that changes once, and two briefs
queued or deferred again; both have one poll that may be overtaken by anything. The chat has
two questions under way, of one thread of two exchanges or of two threads (`ThreadLimit = 2`:
the code's forty messages are more than a thread reaches here, and section 6 says what
happens beyond them). `AnalysisEnds` needs one review. Pages that were not navigated to
together multiply nothing, and so share a run.

`ClaimFaults` (a claim may raise because the database cannot be reached) is off in
`MigrationLifecycle` only, whose states it would multiply beyond the time a run is given;
its theorems are proved with it. `Crashes` is off in `GenerationEnds` only, because without
a restart procedure nothing ends what a dead process began. `PublicationEnds` has it on,
and names what cannot end: a record whose own run's process has died (`forsaken`). The death of
any other run, and of a handler, leaves no publication in progress.

**Fairness.** Only where a run states it, and only on what cannot be held up by
others.

- Server (`GenerationEnds`, `PublicationEnds`): each handler that has committed goes on
  to defer its job, each worker that has claimed goes on to a result or an exception
  (weak fairness: checkout, model calls, sandbox and GitHub requests all have time
  limits, and the except clause is plain code). A job in the queue is eventually taken
  although other jobs compete for the same workers (strong fairness per task:
  Procrastinate serves its queue in order). Nothing is assumed about clients, people or
  GitHub's answers.
- `ChangePipeline`: a copy of an analysis is taken by some worker as long as one is idle,
  a sync that has been requested goes on; nothing is assumed of pages and new requests.
  `EveryJobIsAnalysed` has its condition in the property, since crashes and claims that
  raise are on: while no process has died and no claim has raised before it ran
  (`Undisturbed`), what is queued is completed or failed. `JobsAreInHands` has the same
  condition and needs no fairness.
- `SandboxExecution`: what the code bounds, ends: a command by its timeout, the
  teardown by ten seconds, and the code between awaits runs. `mkdir` and `writeFile`
  have no limit, so nothing is assumed of them, and the property begins after them.
- Pages: workers end their jobs, a POST that committed defers, the interval fires while
  the effect that set it lives (weak), the server answers (weak), and of infinitely
  many polls one lands (strong). Nothing is assumed of the user, of other tabs or of the
  initial load. A job that is never deferred or whose worker dies is an alternative the
  properties of the intelligence pages name, and so is a `generating` flag that nothing is
  left to clear. Of the POSTs of the radar, the chat and the briefs, and of the GET of what is
  selected, it is also assumed that they end, with or without an answer.

## 4. Proofs

`MigrationLifecycleProofs` proves, for every set of handlers, workers and keys,
every bound, with and without crashes and failing claims:

- `TypeCorrect`, `CurrentAttemptAlwaysExplains`, `AttemptsAlwaysFormAChain`,
  `DataAlwaysMirrorsColumns`, `PublicationAlwaysFollows`,
  `DecisionsAlwaysSerialized`: the invariants of the rows;
- `TerminalAttemptsNeverChange`, `SupersededWorkersNeverMove`: the action
  properties;
- `LostJobsAreNeverStranded`: a job is deferred after its transaction, and when the
  process dies in between only a retry brings it back. Safety is what can be said of that
  without assuming that anybody retries: while a generation or a publication waits, the
  idempotency record that the retry is answered from is there and names what the job can
  claim. The inductive part is `WaitingJobIsAnswered`: the record is that of the
  migration's last move (`HandlersAnswer`), and no worker brings a migration to where a
  job waits (`WorkersLetNothingWait`);
- `NothingIsLeftWaiting`: unless a process dies, a generation in progress has a handler
  that will defer its job, a job, or a worker, and a publication likewise. A row and its
  job are never written together, so there are three arguments: a handler that makes a
  row wait goes on to defer (`HandlersLeaveNothing`), a worker that takes the job and finds
  that it cannot claim leaves a row that does not wait (`TakersLeaveNothing`), and one
  that ends moves the row of its own attempt or finds it moved (`EndersLeaveNothing`). The
  exception is a publication whose claim raised (section 6). With the fairness of
  `FairSpec` this is what `GenerationEnds` and `PublicationEnds` rest on, for any number
  of handlers and workers;
- `MigrationImplementsItsLifecycle`, `AttemptsImplementTheirLifecycle`: the
  migration and each of its attempts implement `VersionedLifecycle`. Every
  transaction has a lemma that it moves the entities it names along their tables, one
  version for each edge (`QueueAttemptFollows`, ...), and `NextMoves` reduces the
  processes to them; `complete_attempt` takes three edges at once, which is why an
  abstract step takes up to three. The same formulas are proved of the other two
  compositions: `PublishingImplementsTheLifecycle`, `PublishingKeepsTheAttempts` and
  `PagesFollowTheLifecycle`.

The only assumptions are that `MaxAttempts` and `MaxJobs` are positive, and the types
of the other constants.

The inductive invariant is `LifecycleInv`: `StoreInv` and the types of the
processes. None of the parts of `StoreInv` is inductive alone, and each supplies
what another needs:

- `CurrentAttemptExplainsMigration` needs `AttemptsFormAChain`, because a new
  attempt is numbered `latest + 1` and must not be a row that exists, and because
  a failing attempt that is not current must be one that can fail without the
  migration noticing;
- `AttemptsFormAChain` needs `DataMirrorsColumns`, because
  `apply_developer_action` copies `current_attempt_id` from the JSON;
- `PublicationFollowsMigration` needs `CurrentAttemptExplainsMigration`, because
  `blocked` may lead back to `pr_opening`, and only a completed attempt may;
- `CurrentAttemptExplainsMigration` in turn needs
  `PublicationFollowsMigration`: a migration blocked by a failed publication
  still has a completed attempt, and must be told apart from a failed one.

What the processes remember does not enter the invariant: the transactions check
all they need, which is the design the code intends. `MigrationStoreProofs` has
one lemma per transaction (`QueueAttemptInv`, ...), each with one step per part of
`StoreInv`; `RequestStepInv` and `WorkerStepInv` reduce every action of the
processes to them.

`DraftPublishingProofs` has two inductive invariants, and assumes of neither that claims do
not raise. `PublishingInv` holds however many publishers run at once: whatever a
record, a publisher's copy of it or its locals name, an approved attempt's object
(`Approved`) or a pull request that was opened (`Opened`). Both sets only grow
(`WorldAdvances`), because idempotency records and completed attempts are final
(`RowsAdvance`), so that what a publisher read long ago is still safe to push. From it
follow `PublishingTypeCorrect`, `OnlyApprovedCommitsAreEverPushed`,
`OverwritesAreOfUnseenPushes` and `OpenPullsAreDecidedInSync`. The last one needs that the
recorded pull request of an opened migration is replaced only with a new version: a
handler compares versions and never looks at the record again.

`CompletedPublicationIsWhole`, `CheckpointsAreTheAttempts` and
`OneDraftForEachMigration` are of `OwnerSpec`, which `OwnersPreventNothing` shows to be
`Spec` with a history. When a claim raises after another worker has claimed the
publication, its failure handler ends that worker's run, the publication can be queued again
for a newer attempt, and a checkpoint of the old run lands in it (section 6). The three
properties except the behaviours in which that has happened (`strayed`), and nothing else:
that a record has been failed under a run is no exception until the run has written.
`OwnerInv` says that until then the record has one owner at a time, the run that claimed it
and has not been disowned (`Owners`), and relates the owner's locals to the row at
each step: `RowInStep` says which checkpoints a row may have, `InStep` what the owner
has read and written since (`LastPull`: the pull request it is about to record is the
last one opened). `RunKeepsOwner` is the step of a run, the owner's or a disowned one's,
`FailureKeepsStep` the failure that disowns. `OnlyRaisedClaimsLeadAstray` closes the
exception: as long as no claim raises no run strays, whatever is lost, dies or is retried,
so that the three properties then hold without it.

`MigrationPageProofs` proves `PageTypeCorrect`, `OffersAreTaken` and
`DecisionsAreOnWhatIsShown` from `PageInv`. A page is two reads, merged answers and
overlapping refreshes; what makes it sound is that the server never changes a row
without a new version (`RowsMove`): each thing the page holds is of an older version, or
is what the server has now (`SafeFetches`, `SafePages`, `SafeCommands`). A GET
reads the row before the attempts, so that newer evidence can stand beside an old row
but not the other way round. The evidence beside the answer of a command is stale; it
is harmless because no command answers with a status in which the page offers a
decision (`ReadStatuses`), and because no refresh is under way while a command is
(`CommandInv`, `FetchInv`).

`DashboardProofs`: a step of one panel leaves the others, so that each panel has an
invariant of its own, and `PanelsKeepTheirInvariants` puts them together.
`DetailsAreNotMixed` is about the one gap in which two details may be under way: a list
brings a selection of its own, and its effect is still to run. `HistoryInv` says that once a
selection has taken effect only the selected item is being opened, and that a detail of
another item has the effect or the right answer still to come, which replaces it
(`MixedGivesWay`). `PagesListEverything` needs that the cursor is below all
that is listed, so that the next page, the largest keys below it, neither repeats nor
skips one (`PageOf`, `NextPage`); a migration committed late appears above the cursor
and is not owed to this list. `SignInsAreKeptApart` follows the three tables row by row:
what a tab carries is of its own sign-in (`SafeTabs`), a callback that has used up its
state opens the only session of it (`CallbacksAreSafe`), and a session's ticket leads where
its sign-in was asked to (`SessionsAreSafe`).

`IngestionProofs` proves `SyncTypes`, `HealthStaysConsistent` and
`NoChangeGoesUnnoticed` for any number of sources, overlapping syncs, operations and
repositories, with crashes and lost pages; the assumption is `SyncAssumption` (the
types of the constants). `NothingChangesUnnoticed` says of a committed baseline that
the events explain it; a sync commits a baseline that it compared with one it read
long before, so the invariant also carries the explanation along with each sync
(`SyncsBuildOnBaselines`: what a sync read is explained, and what it is about to
report is what the adapter finds between the two pages). `ChangesExplain` is the
argument about the adapters: an explained page and the difference to the next explain
the next; `ExplainedStays` says that events and origins are never taken back, so that
an old reading stays explained whatever is committed in between.

`ProvidersFollowTheirSources` is proved of `ProviderHealth`. Its invariant adds to that
of ingestion that what has not been overtaken has read what is still so
(`ReadsAreFresh`), which a commit keeps by overtaking whatever is open beside it
(`CommitsKeepReadsFresh`), and that the last such transaction wrote the status of the
sources as they are (`StatusIsFresh`). The window is real: without `~ misled` TLC refutes
the property in a behaviour of sixteen states, with two sources whose first syncs overlap.
`HistoryPreventsNothing` is the refinement of `SourceSync`.

Of the composed system, with claims that raise and processes that die, it proves
`FanoutTypesHold`, `EachJobIsAnalysedOnce`, `MigrationsAreFromVerdicts`, that the
two invariants of ingestion hold there too (`NothingIsLostDownstream`), and
`PipelineImplementsChangeVerdict`: every job of every repository implements
`ChangeVerdict`, so that its verdict, once there, never changes and never comes without
its migration. `StepsMoveJobs` maps each step of the system to a step of one job or a
stutter; the one that needs the invariant is `CompletingAnswers`, where another worker
may have failed the job meanwhile (`failed` stays `failed`, and is answered). What makes a job
analysed once is that nothing returns it to `queued`: `JobsHaveEvents` (a job exists
only for an event that does) is why a commit cannot, and `OneAnalystEach` (while a job
is analysed it is not queued, has no verdict, and one worker does it) is what the claim
establishes.

`NoJobIsPutDown` is the safety under `EveryJobIsAnalysed`: while nothing disturbs the
processes, a queued job has a copy in the queue, or a sync or its batch that has still to
ask for it, and a job being analysed has its worker. A commit that queues a job names it
in its changes (`SyncsHandOn`), a batch lets go of a change only by adding a copy
(`EnqueueingKeepsHands`), and a worker that consumes a copy has claimed the job or found
it claimed (`WorkersKeepHands`).

`SandboxWorkerProofs` proves, for any requests, executions and number of containers,
`WorkerTypeCorrect`, `AcceptedPassesAreReal` and `OnlyIllegibleAnswersAreRefused`, from
`WorkerAssumption` and `PolicyAssumption` alone. The invariant is `CallOK`, of one
execution at a time: since a sandbox has a name of its own, no other execution touches
it (`OneExecutionMoves`). It says of each phase what the results, the observed checks
and the tree of the container are: until the first check starts, the files written so far
(`WrittenIsTheNextTree` is the step of the tree by one file, and `AllWrittenIsRequested`
that the files followed by the edits make the requested tree); from then on, that tree as
the execution's own commands have changed it, whatever they write and whenever
(`CommandWritesKeepsInv`). A later check therefore need not run on the requested tree, and
the theorem does not say so: only that nobody else's files or commands are among what it
ran on. A container that stopped needs nothing said of it, since every later
call throws; what it had already observed stays, and is worth nothing without the
rest. Of an answer the client refuses, it is proved that it could not be read.

`CommandLinesAreReadBack` is about the quoting alone, for every list of arguments: the
shell reads the command line as exactly these arguments and takes all of it literally.
`CommandsAreReadBack` says so of every command of every execution. This is an induction
over characters and words, for which the library's induction theorems cannot be used
(they take an operator as a parameter). It is done by the shortest counterexample
instead: `LeastNatural` gives the first prefix at which the claim fails, and the step
before it contradicts that. `ShellReads` is a recursive function of the length read;
`ReadingExists` and the lemmas after it give its equations, `ReadInParts` that a line may
be read in two parts, `QuotedWordIsRead` follows one quoted argument through the three
states of the shell, and `CommandLineIsRead` goes through the arguments.

`IntelligencePagesProofs` proves `ReviewInvariance`, `ReviewTypeCorrect` and
`TheRowIsItsCurrentReview`. A row and its attempt are updated by statements with
separate conditions (the attempt's is its status, the row's is that the attempt is its
current one), and a worker may work on an attempt that is no longer current or already
ended. `MovingKeepsRows` shows that the two are moved together or the row not at all;
`QueueReviewKeepsRows` needs that attempts are used in order
(`ReviewsFormAPrefix`). What the page does is shown to leave the rows alone.

Of the briefing page it proves `BriefInvariance`, `BriefTypeCorrect` and
`BriefsAreNotStranded`. `fail_brief` has no condition and a claim takes whatever is
queued, so jobs and workers are counted per digest and not told apart: the invariant
holds because every step that makes a brief queued or running adds a job or a worker,
and every step that takes one away leaves the brief in a state that needs none. The
POST between its commit and its deferral stands for the job it is about to add, and one
that has looked the row up without queueing it stands for nothing (`BriefKeptKeepsInv` and
`BriefCommitsKeepsInv` are the two ways on). Of the chat it proves `ChatTypeCorrect`.

Every invariant and action property of the passing runs is a theorem, of the component
where a run checks it in a composition whose other part stands still. Only
model-checked is liveness (`GenerationEnds`, `PublicationEnds`, `EveryJobIsAnalysed`,
`WrittenRequestsAreAnswered`, `ProgressEnds`, `ReviewProgressEnds`, `BriefProgressEnds`,
`ChatWaitEnds`), because fairness is stated with ENABLED, which the prover does not
handle. What the first three and `BriefProgressEnds` need beside fairness is proved:
`NothingIsLeftWaiting`, `NoJobIsPutDown` and `BriefsAreNotStranded`. The theorems about pages are of `Spec`, and hold of `FairSpec`, which only adds
fairness.

## 5. Not modelled, and why

- Authentication, origins, permissions and request validation: they refuse a
  request before it reaches the modelled code.
- `developer_decisions`, `audit_events`, timestamps, error codes, titles and
  bodies: written, never read back by these operations.
- The content of a generation: planning, editing, verification and review end in
  a recommendation and whether all checks passed; both are free in the model, and
  `CanCompleteAttempt` is the code's own check of them.
- Publishing disabled (`GITHUB_PUBLISHING_ENABLED`): decisions then touch the
  database only, which `MigrationLifecycle` covers.
- Row locks are not modelled as such: a transaction is atomic. The order in which
  two transactions lock the same two rows differs between `queue_attempt` and the
  workers; the hazard list says why they do not meet.
- Ingestion: sources are neither created, disabled nor deleted while syncs run; the
  collector's checks of hosts, redirects, sizes and media types are each one way for
  `Fetch` to fail; evidence links and the audit are written only. A deferral that
  raises although the job was queued would let two writers mark one request; nothing
  decides on that status. The lookup by idempotency key in `commit` finds nothing,
  since a key is deferred once and jobs are not retried.
- Repositories are not connected or disabled while changes are analysed: the jobs of
  an event are those of the repositories enabled when it is committed.
- The model's answers and what is asked of it: briefs, reviews, chat answers and
  generations end in a result or raise. The token budget of `openai_responses` and its
  retries decide only between the two. `hardening` holds limits and evaluation
  harnesses, `github_client` and `repo_fetch` are HTTP plumbing.
- The content of logs, and the encodings of digests and files: a log is short, long or cut
  inside a character, a file either is what its digest says or is not.
- A `fail_publication` or `fail_attempt` that itself raises: it leaves what a death of the
  process at that point leaves.
- Of the frontend: marketing, documentation, settings, the provider and change
  pages, the health indicator and the previews shown without an API: each displays
  what one GET answered. The tabs and searches of the inbox hide rows on the screen.
  Which attempt the migration page inspects moves no command.
- GitHub's list of pull requests is any of a few; the SQL of the history listings any
  part of what matches.

## 6. Observations

What the models showed of the code while they were written, beside `PublishReply` and
`AnalysisEnds`. No run states them; each is in the model unless it is said not to be, and
the properties above hold with it, or name it as their exception.

- Generation and publishing. A copy of a job whose claim raises fails the attempt
  another worker is running (`migration_generation/tasks.py:85`), and a checkpoint of
  the old run can then land in the next publication's record, which may go on to
  complete with the older attempt's tree and commit, or open a second draft: that is what
  `strayed` excepts. A publication that failed while its
  claim raised stays queued until a client retries with the same key
  (`github_publishing/store.py:428`). A publisher that dies leaves the record publishing
  and the migration `pr_opening` for good (`store.py:234`), which is what `forsaken`
  excepts. A push between the
  publisher's read of the branch and its forced update is overwritten
  (`publisher.py:316`). A run interrupted between a write to GitHub and its checkpoint,
  followed by a regeneration, is taken for somebody else's work and refused
  (`publisher.py:234`). An approve and a decline that overlap can leave an approved
  migration with a closed pull request (`control_plane/router.py:150`). A migration
  declined from `ready` after a published revision leaves its draft open.
- Ingestion. Transactions of two sources of a provider can each miss the other's status
  (`store.py:252`): the provider then shows what its sources no longer are until the next
  sync that is not overtaken (`ProviderFollowsItsSources`). An exception that is not a `CollectionError`, such as a connection
  that breaks while the body is read (`collector.py:141`), is not counted as a failure
  of the source.
- Sandbox. A genuine answer can be refused: ten checks whose logs are full of control
  characters exceed the client's 2,000,000 bytes once escaped (`executor.py:63`), and
  `redactLog`'s `slice` may leave half of a surrogate pair at the end of a log
  (`policy.ts:210`), which is no string to the client's schema. The imports check puts the
  originals back over the edits while it runs (`verify_python.py:207`): a check that times
  out there leaves them for the rest, but then the execution is no pass.
- Migration page. The attempt inspected is kept over a regeneration, so that the evidence
  on screen stays that of the old one until another is chosen. A migration that waits in
  `queued` is in no tab of the inbox but "All".
- Intelligence pages. Clicking what is already selected (a pull request, a scope at its
  limit, a record) shows a spinner that no fetch ends. `generating` stays on when a POST
  answers with a finished result, or when a load and not a poll brings it: `AnalysisEnds`
  shows it of the radar, and the briefing page has the same flag
  (`MigrationWorkspace.tsx:339`), which `BriefForgotten` excepts. Polls and POSTs
  of one selection are shown under the next. The failure of an earlier run of a brief
  overwrites a queued refresh, whose job then finds nothing to claim.
- Ask Delta. The first poll after a question ends `sending` before the question
  commits, so that a second can be asked; `claim_message` of both then answers the latest.
  A poll sent before the question erases it from the screen. A thread of more than
  forty messages shows its oldest forty.
- History. When the filters or a reload of the list select another item, the old one's
  detail may be shown under the new heading until the new one's arrives (`DetailToCome`).
  An error is never cleared; "Load older activity" of earlier filters, or
  clicked twice, adds its items to the list of the present ones.
- Sign-in. The header's link always leads to `/migrations`; a sign-out that overlaps the
  sign-in of another tab deletes the new cookie when its answer comes last (`SignedOut`).

## 7. Plan

Done: the lifecycle of a migration, publishing, ingestion and fan-out, the sandbox, the AI
jobs with their pages, the migration page, the inbox, the history and the sign-in, with
their proofs and the refinements of the lifecycle and of the verdict on a change.

Left: `GenerationRun`, the plan, edit, verify and repair loop over `SandboxWorker` and the
token budget, with the bound on model calls.

Running everything: `tlc -workers 2 -config <run>.cfg <module>` with the names of
section 3 and `PROJECT.json`, and `tlapm` on each of the eight `*Proofs.tla`.
