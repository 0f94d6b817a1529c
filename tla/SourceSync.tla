------------------------------- MODULE SourceSync -------------------------------
(***************************************************************************)
(* Ingestion: a sync request or an hourly tick queues one job for a source *)
(* and a key; the job reads the last captured artifact, fetches the page,  *)
(* compares the two and commits the new baseline together with the change  *)
(* events, their fan-out jobs and the health of source and provider.       *)
(*                                                                         *)
(* Syncs of one source overlap: nothing but the row locks of their         *)
(* transactions orders them.  A transaction is two steps here, because it  *)
(* reads the other sources' health before it updates the provider.         *)
(***************************************************************************)
EXTENDS Naturals, FiniteSets

CONSTANTS
  Sources,       \* the enabled sources of one provider
  Feeds,         \* those whose adapter reads a feed of stated changes
  Syncs,         \* sync requests, each a source and an idempotency key
  SourceOf,      \* the source of each sync
  Operations,    \* what a page may list: API operations or stated changes
  Repositories,  \* the connected repositories
  LostObjects,   \* BOOLEAN: may the bytes of a captured page be lost
  Crashes        \* BOOLEAN: may a process die

ASSUME SyncAssumption ==
  /\ Feeds \subseteq Sources
  /\ SourceOf \in [Syncs -> Sources]
  /\ LostObjects \in BOOLEAN /\ Crashes \in BOOLEAN

VARIABLES
  page,      \* what each source shows now (external)
  sources,   \* the rows of provider_sources
  provider,  \* the status of the provider
  origins,   \* history: the baselines that were committed without a previous one
  events,    \* change_events, by their dedupe key
  fanout,    \* change_fanout_jobs: the status of each event in each repository
  sync       \* each request: its row, its requester and its job

syncVars == <<page, sources, provider, origins, events, fanout, sync>>

Pages == SUBSET Operations

\* A page, or none: the row or the variable that holds it may be NULL.
Artifact == {{}} \cup {{p} : p \in Pages}

\* A diff is deduplicated on the operation and the page it was found in, a
\* stated change on its key alone; neither names the source.
Changes ==
  (UNION {[kind : {"added"}, of : p, on : {p}] : p \in Pages})
    \cup (UNION {[kind : {"removed"}, of : Operations \ p, on : {p}] : p \in Pages})
    \cup [kind : {"stated"}, of : Operations]

Jobs == Changes \X Repositories

HealthStatus == {"never_synced", "healthy", "degraded", "failing"}
JobStatus == {"absent", "queued", "analyzing", "completed", "failed"}

\* data is the JSON copy of the row that the API serves.
SourceRow ==
  [status : HealthStatus, failures : Nat, succeeded : BOOLEAN,
   baseline : Artifact,
   data : [status : HealthStatus, failures : Nat, baseline : Artifact]]

\* open: the transaction of this step has locked the source and read seen.
SyncState ==
  [request : {"absent", "queued", "running", "completed", "failed"},
   requester : {"idle", "defer", "mark", "done", "dead"},
   pc : {"none", "queued", "read", "fetch", "captured", "unchanged", "failure",
         "changes", "returned", "raised", "defer", "batch", "ended", "dead"},
   previous : Artifact, captured : Artifact,
   changes : SUBSET Changes, open : BOOLEAN, seen : [Sources -> HealthStatus]]

NewSource ==
  [status |-> "never_synced", failures |-> 0, succeeded |-> FALSE, baseline |-> {},
   data |-> [status |-> "never_synced", failures |-> 0, baseline |-> {}]]

NothingSeen == [s \in Sources |-> "never_synced"]

NewSync ==
  [request |-> "absent", requester |-> "idle", pc |-> "none", previous |-> {}, captured |-> {},
   changes |-> {}, open |-> FALSE, seen |-> NothingSeen]

SyncInit ==
  /\ page \in [Sources -> Pages]
  /\ sources = [s \in Sources |-> NewSource]
  /\ provider = "disconnected"
  /\ origins = [s \in Sources |-> {}]
  /\ events = {}
  /\ fanout = [j \in Jobs |-> "absent"]
  /\ sync = [y \in Syncs |-> NewSync]

--------------------------------------------------------------------------------
(* Adapters, and the rows a transaction writes *)

Diff_Additions(previous, after) == UNION
  {[kind : {"added"}, of : after \ before, on : {after}] : before \in previous}

\* OpenAPIAdapter.normalize: nothing without a previous page, else its diff.
Diff(previous, after) == UNION
  {[kind : {"added"}, of : after \ before, on : {after}]
     \cup [kind : {"removed"}, of : before \ after, on : {after}] : before \in previous}

\* StructuredReleaseAdapter.normalize reads the new page alone.
Normalized(s, previous, captured) == UNION
  {IF s \in Feeds THEN [kind : {"stated"}, of : after] ELSE Diff(previous, after)
     : after \in captured}

Health(failures, succeeded) ==
  IF failures >= 3 THEN "failing"
  ELSE IF failures > 0 THEN "degraded"
  ELSE IF succeeded THEN "healthy" ELSE "never_synced"

FailedSource_StaleData(row) ==
  [row EXCEPT !.failures = @ + 1, !.status = Health(row.failures + 1, row.succeeded)]

FailedSource(row) ==
  LET failures == row.failures + 1
      status == Health(failures, row.succeeded)
  IN [status |-> status, failures |-> failures, succeeded |-> row.succeeded,
      baseline |-> row.baseline,
      data |-> [status |-> status, failures |-> failures, baseline |-> row.data.baseline]]

\* record_not_modified keeps the baseline.
UnchangedSource(row) ==
  [status |-> "healthy", failures |-> 0, succeeded |-> TRUE, baseline |-> row.baseline,
   data |-> [status |-> "healthy", failures |-> 0, baseline |-> row.data.baseline]]

CapturedSource(row, captured) ==
  [status |-> "healthy", failures |-> 0, succeeded |-> TRUE, baseline |-> captured,
   data |-> [status |-> "healthy", failures |-> 0, baseline |-> captured]]

ProviderStatus(statuses) ==
  IF \E s \in Sources : statuses[s] \in {"degraded", "failing"} THEN "degraded"
  ELSE IF \A s \in Sources : statuses[s] = "healthy" THEN "active"
  ELSE "disconnected"

Statuses == [s \in Sources |-> sources[s].status]

\* Only an event that is new gets its jobs, one for every repository.
QueuedFanout(found) ==
  [j \in Jobs |-> IF j[1] \in found \ events THEN "queued" ELSE fanout[j]]

--------------------------------------------------------------------------------
(* The request: POST .../sync, or one source of the hourly sweep *)

PageChanges(s) ==
  /\ \E p \in Pages \ {page[s]} : page' = [page EXCEPT ![s] = p]
  /\ UNCHANGED <<sources, provider, origins, events, fanout, sync>>

\* Everything else of the request's record stays as it is.
Move(y, record) ==
  /\ sync' = [sync EXCEPT ![y] = record]
  /\ UNCHANGED page

Store == <<sources, provider, origins, events, fanout>>

\* A repeated key finds its row and changes nothing.
QueueSync(y) ==
  /\ sync[y].request = "absent"
  /\ Move(y, [sync[y] EXCEPT !.request = "queued", !.requester = "defer"])
  /\ UNCHANGED Store

DeferSync(y) ==
  /\ sync[y].requester = "defer"
  /\ \/ Move(y, [sync[y] EXCEPT !.requester = "done", !.pc = "queued"])
     \/ Move(y, [sync[y] EXCEPT !.requester = "mark"])
  /\ UNCHANGED Store

\* mark_sync_status looks at nothing but the key.
MarkUnqueued(y) ==
  /\ sync[y].requester = "mark"
  /\ Move(y, [sync[y] EXCEPT !.requester = "done", !.request = "failed"])
  /\ UNCHANGED Store

RequesterDies(y) ==
  /\ Crashes
  /\ sync[y].requester \in {"defer", "mark"}
  /\ Move(y, [sync[y] EXCEPT !.requester = "dead"])
  /\ UNCHANGED Store

--------------------------------------------------------------------------------
(* The job: sync_provider_source and IngestionService.sync *)

StartSync(y) ==
  /\ sync[y].pc = "queued"
  /\ Move(y, [sync[y] EXCEPT !.request = "running", !.pc = "read"])
  /\ UNCHANGED Store

ReadPrevious(y) ==
  /\ sync[y].pc = "read"
  /\ Move(y, [sync[y] EXCEPT !.previous = sources[SourceOf[y]].baseline, !.pc = "fetch"])
  /\ UNCHANGED Store

\* A page is unchanged by its validators or by its digest.  A request that
\* fails as a CollectionError is recorded; an error while the body is read is
\* not one, and leaves sync() at once.
Fetch(y) ==
  LET shown == page[SourceOf[y]] IN
  /\ sync[y].pc = "fetch"
  /\ \/ /\ {shown} = sync[y].previous
        /\ Move(y, [sync[y] EXCEPT !.pc = "unchanged"])
     \/ /\ {shown} # sync[y].previous
        /\ Move(y, [sync[y] EXCEPT !.pc = "captured", !.captured = {shown}])
     \/ \E reached \in {"failure", "raised"} : Move(y, [sync[y] EXCEPT !.pc = reached])
  /\ UNCHANGED Store

\* Without the bytes of the previous page the captured one is a new baseline.
Normalize(y) ==
  /\ sync[y].pc = "captured"
  /\ \/ \E known \in {sync[y].previous} \cup (IF LostObjects THEN {{}} ELSE {}) :
          Move(y, [sync[y] EXCEPT
            !.previous = known, !.pc = "changes",
            !.changes = Normalized(SourceOf[y], known, sync[y].captured)])
     \/ \E reached \in {"failure", "raised"} : Move(y, [sync[y] EXCEPT !.pc = reached])
  /\ UNCHANGED Store

\* The transaction updates the source, which locks its row, and then reads the
\* status of the provider's other sources as they are committed.
OpenTransaction(y) ==
  /\ sync[y].pc \in {"unchanged", "failure", "changes"}
  /\ ~ sync[y].open
  /\ \A z \in Syncs : SourceOf[z] = SourceOf[y] => ~ sync[z].open
  /\ Move(y, [sync[y] EXCEPT !.open = TRUE, !.seen = Statuses])
  /\ UNCHANGED Store

CommitHealth_OwnStatusBefore(y, row) ==
  /\ sources' = [sources EXCEPT ![SourceOf[y]] = row]
  /\ provider' = ProviderStatus(sync[y].seen)

\* _refresh_provider_health, and the commit of the source's new row.
CommitHealth(y, row) ==
  /\ sources' = [sources EXCEPT ![SourceOf[y]] = row]
  /\ provider' = ProviderStatus([sync[y].seen EXCEPT ![SourceOf[y]] = row.status])

Closed(y, pc) == [sync[y] EXCEPT !.pc = pc, !.open = FALSE, !.seen = NothingSeen]

RecordNotModified(y) ==
  /\ sync[y].pc = "unchanged" /\ sync[y].open
  /\ CommitHealth(y, UnchangedSource(sources[SourceOf[y]]))
  /\ Move(y, Closed(y, "returned"))
  /\ UNCHANGED <<origins, events, fanout>>

RecordFailure(y) ==
  /\ sync[y].pc = "failure" /\ sync[y].open
  /\ CommitHealth(y, FailedSource(sources[SourceOf[y]]))
  /\ Move(y, Closed(y, "raised"))
  /\ UNCHANGED <<origins, events, fanout>>

\* The lookup by idempotency key finds nothing: a key is deferred once.
CommitChanges(y) ==
  LET s == SourceOf[y] IN
  /\ sync[y].pc = "changes" /\ sync[y].open
  /\ CommitHealth(y, CapturedSource(sources[s], sync[y].captured))
  /\ origins' = [origins EXCEPT ![s] =
       @ \cup (IF sync[y].previous = {} THEN sync[y].captured ELSE {})]
  /\ events' = events \cup sync[y].changes
  /\ fanout' = QueuedFanout(sync[y].changes)
  /\ Move(y, Closed(y, "returned"))

\* Any of the three transactions may be rolled back.
TransactionRaises(y) ==
  /\ sync[y].pc \in {"unchanged", "failure", "changes"}
  /\ Move(y, Closed(y, "raised"))
  /\ UNCHANGED Store

MarkCompleted(y) ==
  /\ sync[y].pc = "returned"
  /\ Move(y, [sync[y] EXCEPT !.request = "completed", !.pc = "defer"])
  /\ UNCHANGED Store

MarkFailed(y) ==
  /\ sync[y].pc = "raised"
  /\ Move(y, [sync[y] EXCEPT !.request = "failed", !.pc = "ended"])
  /\ UNCHANGED Store

\* enqueue_repository_analysis is deferred with the events of the result.
DeferAnalysis(y) ==
  /\ sync[y].pc = "defer"
  /\ Move(y, [sync[y] EXCEPT !.pc = "batch"])
  /\ UNCHANGED Store

\* The process dies, or a call outside the try block raises.
WorkerDies(y) ==
  /\ Crashes
  /\ sync[y].pc \notin {"none", "batch", "ended", "dead"}
  /\ Move(y, Closed(y, "dead"))
  /\ UNCHANGED Store

RequestStep(y) == DeferSync(y) \/ MarkUnqueued(y)

WorkStep(y) ==
  \/ StartSync(y) \/ ReadPrevious(y) \/ Fetch(y) \/ Normalize(y) \/ OpenTransaction(y)
  \/ TransactionRaises(y) \/ MarkCompleted(y) \/ MarkFailed(y) \/ DeferAnalysis(y)

\* The steps that commit a transaction.
Commit(y) == RecordNotModified(y) \/ RecordFailure(y) \/ CommitChanges(y)

JobStep(y) == WorkStep(y) \/ Commit(y)

\* Every step that leaves the tables of ingestion as they are.
QuietStep ==
  \/ \E s \in Sources : PageChanges(s)
  \/ \E y \in Syncs : QueueSync(y) \/ RequestStep(y) \/ RequesterDies(y)
  \/ \E y \in Syncs : WorkStep(y) \/ WorkerDies(y)

SyncNext == QuietStep \/ \E y \in Syncs : Commit(y)

SyncSpec == SyncInit /\ [][SyncNext]_syncVars

--------------------------------------------------------------------------------
(* Properties *)

SyncTypeOK ==
  /\ page \in [Sources -> Pages]
  /\ sources \in [Sources -> SourceRow]
  /\ provider \in {"disconnected", "active", "degraded"}
  /\ origins \in [Sources -> SUBSET Pages]
  /\ events \subseteq Changes
  /\ fanout \in [Jobs -> JobStatus]
  /\ sync \in [Syncs -> SyncState]

\* However the syncs of a source overlap, its status is the one its failures
\* and successes stand for, and the JSON copy the API serves says the same.
HealthIsConsistent ==
  \A s \in Sources :
    /\ sources[s].status = Health(sources[s].failures, sources[s].succeeded)
    /\ sources[s].data = [status |-> sources[s].status, failures |-> sources[s].failures,
                          baseline |-> sources[s].baseline]

\* The events tell how s came from a page it started from to this one; a feed
\* states all of it.
Explained(s, now) ==
  IF s \in Feeds
  THEN \A o \in now : [kind |-> "stated", of |-> o] \in events
  ELSE \E first \in origins[s] :
         /\ \A o \in now \ first : \E p \in Pages :
              [kind |-> "added", of |-> o, on |-> p] \in events
         /\ \A o \in first \ now : \E p \in Pages :
              [kind |-> "removed", of |-> o, on |-> p] \in events

\* Everything in which a source's baseline differs from one of the pages it
\* started from has an event, though overlapping syncs may commit in any order
\* and an older page may replace a newer one.
NothingChangesUnnoticed ==
  \A s \in Sources : \A now \in sources[s].baseline : Explained(s, now)

================================================================================
