---------------------------- MODULE IngestionProofs -----------------------------
(***************************************************************************)
(* SourceSync, and RepositoryFanout on top of it.  The invariant of        *)
(* ingestion is kept by every step of the composed system, and cited there.*)
(***************************************************************************)
EXTENDS RepositoryFanout, ProviderHealth, TLAPS

--------------------------------------------------------------------------------
(***************************************************************************)
(* SourceSync for any number of sources, syncs, operations and             *)
(* repositories.  The health of a source is a property of its row alone;   *)
(* that no change goes unnoticed is carried from the baseline to the sync  *)
(* that read it, and from there to the baseline this sync commits.         *)
(***************************************************************************)

\* Every page a sync holds is one the events explain, and what it is about to
\* commit is what its adapter finds between the two.
SyncsBuildOnBaselines ==
  \A y \in Syncs :
    /\ \A p \in sync[y].previous : Explained(SourceOf[y], p)
    /\ sync[y].pc = "changes" =>
         sync[y].changes = Normalized(SourceOf[y], sync[y].previous, sync[y].captured)

SyncInv ==
  /\ SyncTypeOK
  /\ HealthIsConsistent
  /\ NothingChangesUnnoticed
  /\ SyncsBuildOnBaselines

--------------------------------------------------------------------------------
(* Adapters *)

\* normalize reports changes of the types the events are made of.
LEMMA NormalizedType ==
  ASSUME NEW s \in Sources, NEW previous \in Artifact, NEW captured \in Artifact
  PROVE  Normalized(s, previous, captured) \in SUBSET Changes
<1>1. SUFFICES ASSUME NEW c \in Normalized(s, previous, captured)
               PROVE  c \in Changes
  OBVIOUS
<1>2. PICK after \in captured :
        c \in (IF s \in Feeds THEN [kind : {"stated"}, of : after] ELSE Diff(previous, after))
  BY <1>1 DEF Normalized
<1>3. after \in Pages
  BY <1>2 DEF Artifact
<1>4. CASE s \in Feeds
  BY <1>2, <1>3, <1>4 DEF Changes, Pages
<1>5. CASE s \notin Feeds
  <2>1. PICK before \in previous :
          c \in [kind : {"added"}, of : after \ before, on : {after}]
                  \cup [kind : {"removed"}, of : before \ after, on : {after}]
    BY <1>2, <1>5 DEF Diff
  <2>2. before \in Pages
    BY <2>1 DEF Artifact
  <2>3. CASE c \in [kind : {"added"}, of : after \ before, on : {after}]
    <3>1. c \in [kind : {"added"}, of : after, on : {after}]
      BY <2>3
    <3>2. QED
      BY <3>1, <1>3 DEF Changes
  <2>4. CASE c \in [kind : {"removed"}, of : before \ after, on : {after}]
    <3>1. c \in [kind : {"removed"}, of : Operations \ after, on : {after}]
      BY <2>4, <2>2 DEF Pages
    <3>2. QED
      BY <3>1, <1>3 DEF Changes
  <2>5. QED
    BY <2>1, <2>3, <2>4
<1>6. QED
  BY <1>4, <1>5

\* What is explained stays so while events and origins are only added to.
LEMMA ExplainedStays ==
  ASSUME NEW s \in Sources, NEW p,
         Explained(s, p),
         events \subseteq events', origins[s] \subseteq origins'[s]
  PROVE  Explained(s, p)'
<1>1. CASE s \in Feeds
  BY <1>1 DEF Explained
<1>2. CASE s \notin Feeds
  <2>1. PICK first \in origins[s] :
          /\ \A o \in p \ first : \E q \in Pages :
               [kind |-> "added", of |-> o, on |-> q] \in events
          /\ \A o \in first \ p : \E q \in Pages :
               [kind |-> "removed", of |-> o, on |-> q] \in events
    BY <1>2 DEF Explained
  <2>2. /\ first \in origins'[s]
        /\ \A o \in p \ first : \E q \in Pages :
             [kind |-> "added", of |-> o, on |-> q] \in events'
        /\ \A o \in first \ p : \E q \in Pages :
             [kind |-> "removed", of |-> o, on |-> q] \in events'
    BY <2>1
  <2>3. QED
    BY <1>2, <2>2 DEF Explained
<1>3. QED
  BY <1>1, <1>2

\* The changes between a page that is explained and a captured one explain the
\* captured one; without a previous page it is a page to start from.
LEMMA ChangesExplain ==
  ASSUME NEW s \in Sources, NEW previous \in Artifact, NEW captured \in Artifact,
         \A p \in previous : Explained(s, p),
         events' = events \cup Normalized(s, previous, captured),
         origins'[s] = origins[s] \cup (IF previous = {} THEN captured ELSE {}),
         NEW now \in captured
  PROVE  Explained(s, now)'
<1>1. CASE s \in Feeds
  <2>1. [kind : {"stated"}, of : now] \subseteq Normalized(s, previous, captured)
    BY <1>1 DEF Normalized
  <2>2. \A o \in now : [kind |-> "stated", of |-> o] \in events'
    BY <2>1
  <2>3. QED
    BY <1>1, <2>2 DEF Explained
<1>2. CASE s \notin Feeds /\ previous = {}
  <2>1. now \in origins'[s]
    BY <1>2
  <2>2. QED
    BY <1>2, <2>1 DEF Explained
<1>3. CASE s \notin Feeds /\ previous # {}
  <2>1. PICK before \in previous : before \in Pages
    BY <1>3 DEF Artifact
  <2>2. PICK first \in origins[s] :
          /\ \A o \in before \ first : \E p \in Pages :
               [kind |-> "added", of |-> o, on |-> p] \in events
          /\ \A o \in first \ before : \E p \in Pages :
               [kind |-> "removed", of |-> o, on |-> p] \in events
    BY <1>3, <2>1 DEF Explained
  <2>3. now \in Pages
    BY DEF Artifact
  <2>4. /\ [kind : {"added"}, of : now \ before, on : {now}] \subseteq Diff(previous, now)
        /\ [kind : {"removed"}, of : before \ now, on : {now}] \subseteq Diff(previous, now)
    BY <2>1 DEF Diff
  <2>5. Diff(previous, now) \subseteq events'
    BY <1>3 DEF Normalized
  <2>6. ASSUME NEW o \in now \ first
        PROVE  \E p \in Pages : [kind |-> "added", of |-> o, on |-> p] \in events'
    <3>1. CASE o \in before
      BY <2>2, <2>6, <3>1
    <3>2. CASE o \notin before
      <4>1. [kind |-> "added", of |-> o, on |-> now]
              \in [kind : {"added"}, of : now \ before, on : {now}]
        BY <2>6, <3>2
      <4>2. QED
        BY <4>1, <2>3, <2>4, <2>5
    <3>3. QED
      BY <3>1, <3>2
  <2>7. ASSUME NEW o \in first \ now
        PROVE  \E p \in Pages : [kind |-> "removed", of |-> o, on |-> p] \in events'
    <3>1. CASE o \notin before
      BY <2>2, <2>7, <3>1
    <3>2. CASE o \in before
      <4>1. [kind |-> "removed", of |-> o, on |-> now]
              \in [kind : {"removed"}, of : before \ now, on : {now}]
        BY <2>7, <3>2
      <4>2. QED
        BY <4>1, <2>3, <2>4, <2>5
    <3>3. QED
      BY <3>1, <3>2
  <2>8. first \in origins'[s]
    BY <2>2
  <2>9. QED
    BY <1>3, <2>6, <2>7, <2>8 DEF Explained
<1>4. QED
  BY <1>1, <1>2, <1>3

--------------------------------------------------------------------------------
(* Rows *)

Consistent(row) ==
  /\ row.status = Health(row.failures, row.succeeded)
  /\ row.data = [status |-> row.status, failures |-> row.failures,
                 baseline |-> row.baseline]

\* Each of the three updates of a source keeps its status and its copy in step
\* with its failures and its success.
LEMMA RowsStayConsistent ==
  ASSUME NEW row \in SourceRow, Consistent(row), NEW captured \in Artifact
  PROVE  /\ UnchangedSource(row) \in SourceRow /\ Consistent(UnchangedSource(row))
         /\ FailedSource(row) \in SourceRow /\ Consistent(FailedSource(row))
         /\ CapturedSource(row, captured) \in SourceRow
         /\ Consistent(CapturedSource(row, captured))
<1>1. /\ row.failures \in Nat /\ row.baseline \in Artifact
      /\ row.succeeded \in BOOLEAN
  BY DEF SourceRow
<1>2. row.data.baseline = row.baseline
  BY DEF Consistent
<1>3. UnchangedSource(row) \in SourceRow /\ Consistent(UnchangedSource(row))
  BY <1>1, <1>2 DEF UnchangedSource, SourceRow, HealthStatus, Consistent, Health
<1>4. FailedSource(row) \in SourceRow /\ Consistent(FailedSource(row))
  <2>1. row.failures + 1 \in Nat
    BY <1>1
  <2>2. Health(row.failures + 1, row.succeeded) \in HealthStatus
    BY DEF Health, HealthStatus
  <2>3. QED
    BY <1>1, <1>2, <2>1, <2>2 DEF FailedSource, SourceRow, Consistent
<1>5. CapturedSource(row, captured) \in SourceRow /\ Consistent(CapturedSource(row, captured))
  BY <1>1 DEF CapturedSource, SourceRow, HealthStatus, Consistent, Health
<1>6. QED
  BY <1>3, <1>4, <1>5


--------------------------------------------------------------------------------
(* Steps *)

\* A step that leaves the tables alone keeps the invariant if the record it
\* writes does.
LEMMA MovesKeepSyncInv ==
  ASSUME SyncInv,
         NEW y \in Syncs, NEW record \in SyncState,
         \A p \in record.previous : Explained(SourceOf[y], p),
         record.pc = "changes" =>
           record.changes = Normalized(SourceOf[y], record.previous, record.captured),
         Move(y, record), UNCHANGED Store
  PROVE  SyncInv'
<1>1. sync' \in [Syncs -> SyncState]
  BY DEF SyncInv, SyncTypeOK, Move
<1>2. SyncTypeOK'
  BY <1>1 DEF SyncInv, SyncTypeOK, Move, Store
<1>3. HealthIsConsistent'
  BY DEF SyncInv, HealthIsConsistent, Store
<1>4. \A s, p : Explained(s, p)' <=> Explained(s, p)
  BY DEF Explained, Store
<1>5. NothingChangesUnnoticed'
  BY <1>4 DEF SyncInv, NothingChangesUnnoticed, Store
<1>6. ASSUME NEW z \in Syncs
      PROVE  /\ \A p \in sync'[z].previous : Explained(SourceOf[z], p)'
             /\ sync'[z].pc = "changes" =>
                  sync'[z].changes = Normalized(SourceOf[z], sync'[z].previous, sync'[z].captured)
  <2>1. sync'[z] = IF z = y THEN record ELSE sync[z]
    BY DEF Move, SyncInv, SyncTypeOK
  <2>2. QED
    BY <1>4, <2>1 DEF SyncInv, SyncsBuildOnBaselines
<1>7. SyncsBuildOnBaselines'
  BY <1>6 DEF SyncsBuildOnBaselines
<1>8. QED
  BY <1>2, <1>3, <1>5, <1>7 DEF SyncInv

\* A transaction keeps the invariant if the row it commits is consistent and
\* its baseline is explained.
LEMMA CommitsKeepSyncInv ==
  ASSUME SyncInv, SyncAssumption,
         NEW y \in Syncs, NEW pc \in {"returned", "raised"}, NEW row \in SourceRow,
         Consistent(row), CommitHealth(y, row), Move(y, Closed(y, pc)),
         events \subseteq events', events' \subseteq Changes,
         \A s \in Sources : origins[s] \subseteq origins'[s],
         origins' \in [Sources -> SUBSET Pages],
         fanout' \in [Jobs -> JobStatus],
         \A now \in row.baseline : Explained(SourceOf[y], now)'
  PROVE  SyncInv'
<1>1. SourceOf[y] \in Sources
  BY DEF SyncAssumption
<1>2. Closed(y, pc) \in SyncState
  <2>1. NothingSeen \in [Sources -> HealthStatus]
    BY DEF NothingSeen, HealthStatus
  <2>2. sync[y] \in SyncState
    BY DEF SyncInv, SyncTypeOK
  <2>3. QED
    BY <2>1, <2>2 DEF Closed, SyncState
<1>3. provider' \in {"disconnected", "active", "degraded"}
  BY DEF CommitHealth, ProviderStatus
<1>4. SyncTypeOK'
  BY <1>2, <1>3 DEF SyncInv, SyncTypeOK, CommitHealth, Move
<1>5. \A s \in Sources : sources'[s] = IF s = SourceOf[y] THEN row ELSE sources[s]
  BY DEF SyncInv, SyncTypeOK, CommitHealth
<1>6. HealthIsConsistent'
  BY <1>5 DEF SyncInv, HealthIsConsistent, Consistent
<1>7. \A s \in Sources : \A p : Explained(s, p) => Explained(s, p)'
  BY ExplainedStays
<1>8. NothingChangesUnnoticed'
  <2>1. SUFFICES ASSUME NEW s \in Sources, NEW now \in sources'[s].baseline
                 PROVE  Explained(s, now)'
    BY DEF NothingChangesUnnoticed
  <2>2. CASE s = SourceOf[y]
    BY <1>5, <2>2
  <2>3. CASE s # SourceOf[y]
    BY <1>5, <1>7, <2>3 DEF SyncInv, NothingChangesUnnoticed
  <2>4. QED
    BY <2>2, <2>3
<1>9. SyncsBuildOnBaselines'
  <2>1. SUFFICES ASSUME NEW z \in Syncs
        PROVE  /\ \A p \in sync'[z].previous : Explained(SourceOf[z], p)'
               /\ sync'[z].pc = "changes" =>
                    sync'[z].changes
                      = Normalized(SourceOf[z], sync'[z].previous, sync'[z].captured)
    BY DEF SyncsBuildOnBaselines
  <2>2. SourceOf[z] \in Sources
    BY DEF SyncAssumption
  <2>3. \A p \in sync[z].previous : Explained(SourceOf[z], p)'
    BY <1>7, <2>2 DEF SyncInv, SyncsBuildOnBaselines
  <2>4. sync[y] \in SyncState
    BY DEF SyncInv, SyncTypeOK
  <2>5. /\ Closed(y, pc).previous = sync[y].previous
        /\ Closed(y, pc).pc = pc
    BY <2>4 DEF Closed, SyncState
  <2>6. sync'[z] = IF z = y THEN Closed(y, pc) ELSE sync[z]
    BY DEF Move, SyncInv, SyncTypeOK
  <2>7. CASE z = y
    BY <2>3, <2>5, <2>6, <2>7
  <2>8. CASE z # y
    BY <2>3, <2>6, <2>8 DEF SyncInv, SyncsBuildOnBaselines
  <2>9. QED
    BY <2>7, <2>8
<1>10. QED
  BY <1>4, <1>6, <1>8, <1>9 DEF SyncInv

\* Queueing, reading, fetching, comparing and opening a transaction write
\* nothing but the record of their sync.
LEMMA PreparingKeepsSyncInv ==
  ASSUME SyncInv, SyncAssumption, NEW y \in Syncs,
         \/ QueueSync(y) \/ RequestStep(y) \/ RequesterDies(y)
         \/ StartSync(y) \/ ReadPrevious(y) \/ Fetch(y) \/ Normalize(y) \/ OpenTransaction(y)
         \/ TransactionRaises(y) \/ MarkCompleted(y) \/ MarkFailed(y) \/ DeferAnalysis(y)
         \/ WorkerDies(y)
  PROVE  SyncInv'
<1>1. SourceOf[y] \in Sources
  BY DEF SyncAssumption
<1>2. /\ sync[y] \in SyncState
      /\ sources[SourceOf[y]].baseline \in Artifact
      /\ {page[SourceOf[y]]} \in Artifact
      /\ Statuses \in [Sources -> HealthStatus]
      /\ NothingSeen \in [Sources -> HealthStatus]
  BY <1>1 DEF SyncInv, SyncTypeOK, SourceRow, Artifact, Statuses, NothingSeen, HealthStatus
<1>3. /\ \A p \in sync[y].previous : Explained(SourceOf[y], p)
      /\ sync[y].pc = "changes" =>
           sync[y].changes = Normalized(SourceOf[y], sync[y].previous, sync[y].captured)
  BY DEF SyncInv, SyncsBuildOnBaselines
<1>4. ASSUME NEW record \in SyncState,
             record.previous = sync[y].previous,
             \/ record.pc # "changes"
             \/ /\ record.pc = sync[y].pc
                /\ record.changes = sync[y].changes /\ record.captured = sync[y].captured,
             Move(y, record), UNCHANGED Store
      PROVE  SyncInv'
  BY <1>3, <1>4, MovesKeepSyncInv
<1>5. CASE QueueSync(y)
  <2> DEFINE record == [sync[y] EXCEPT !.request = "queued", !.requester = "defer"]
  <2>1. /\ record \in SyncState /\ record.previous = sync[y].previous
        /\ record.pc = sync[y].pc
        /\ record.changes = sync[y].changes /\ record.captured = sync[y].captured
    BY <1>2 DEF SyncState
  <2>2. QED
    BY <1>4, <1>5, <2>1 DEF QueueSync
<1>6. CASE DeferSync(y)
  <2> DEFINE deferred == [sync[y] EXCEPT !.requester = "done", !.pc = "queued"]
             refused == [sync[y] EXCEPT !.requester = "mark"]
  <2>1. /\ deferred \in SyncState /\ deferred.previous = sync[y].previous
        /\ deferred.pc # "changes"
    BY <1>2 DEF SyncState
  <2>2. /\ refused \in SyncState /\ refused.previous = sync[y].previous
        /\ refused.pc = sync[y].pc
        /\ refused.changes = sync[y].changes /\ refused.captured = sync[y].captured
    BY <1>2 DEF SyncState
  <2>3. QED
    BY <1>4, <1>6, <2>1, <2>2 DEF DeferSync
<1>7. CASE MarkUnqueued(y)
  <2> DEFINE record == [sync[y] EXCEPT !.requester = "done", !.request = "failed"]
  <2>1. /\ record \in SyncState /\ record.previous = sync[y].previous
        /\ record.pc = sync[y].pc
        /\ record.changes = sync[y].changes /\ record.captured = sync[y].captured
    BY <1>2 DEF SyncState
  <2>2. QED
    BY <1>4, <1>7, <2>1 DEF MarkUnqueued
<1>8. CASE RequesterDies(y)
  <2> DEFINE record == [sync[y] EXCEPT !.requester = "dead"]
  <2>1. /\ record \in SyncState /\ record.previous = sync[y].previous
        /\ record.pc = sync[y].pc
        /\ record.changes = sync[y].changes /\ record.captured = sync[y].captured
    BY <1>2 DEF SyncState
  <2>2. QED
    BY <1>4, <1>8, <2>1 DEF RequesterDies
<1>9. CASE StartSync(y)
  <2> DEFINE record == [sync[y] EXCEPT !.request = "running", !.pc = "read"]
  <2>1. /\ record \in SyncState /\ record.previous = sync[y].previous
        /\ record.pc # "changes"
    BY <1>2 DEF SyncState
  <2>2. QED
    BY <1>4, <1>9, <2>1 DEF StartSync
<1>10. CASE ReadPrevious(y)
  <2> DEFINE record == [sync[y] EXCEPT !.previous = sources[SourceOf[y]].baseline,
                                       !.pc = "fetch"]
  <2>1. /\ record \in SyncState /\ record.pc # "changes"
        /\ record.previous = sources[SourceOf[y]].baseline
    BY <1>2 DEF SyncState
  <2>2. \A p \in record.previous : Explained(SourceOf[y], p)
    BY <1>1, <2>1 DEF SyncInv, NothingChangesUnnoticed
  <2>3. QED
    BY <1>10, <2>1, <2>2, MovesKeepSyncInv DEF ReadPrevious
<1>11. CASE Fetch(y)
  <2> DEFINE shown == page[SourceOf[y]]
             Reached(pc) == [sync[y] EXCEPT !.pc = pc]
             captured == [sync[y] EXCEPT !.pc = "captured", !.captured = {shown}]
  <2>1. ASSUME NEW pc \in {"unchanged", "failure", "raised"}
        PROVE  /\ Reached(pc) \in SyncState /\ Reached(pc).previous = sync[y].previous
               /\ Reached(pc).pc # "changes"
    BY <1>2 DEF SyncState
  <2>2. /\ captured \in SyncState /\ captured.previous = sync[y].previous
        /\ captured.pc # "changes"
    BY <1>2 DEF SyncState
  <2>3. \/ Move(y, captured)
        \/ \E pc \in {"unchanged", "failure", "raised"} : Move(y, Reached(pc))
    BY <1>11 DEF Fetch
  <2>4. UNCHANGED Store
    BY <1>11 DEF Fetch
  <2> HIDE DEF Reached, captured
  <2>5. QED
    BY <1>4, <2>1, <2>2, <2>3, <2>4
<1>12. CASE Normalize(y)
  <2>1. CASE \E reached \in {"failure", "raised"} :
               Move(y, [sync[y] EXCEPT !.pc = reached])
    <3>1. PICK reached \in {"failure", "raised"} :
                 Move(y, [sync[y] EXCEPT !.pc = reached])
      BY <2>1
    <3> DEFINE record == [sync[y] EXCEPT !.pc = reached]
    <3>2. /\ record \in SyncState /\ record.previous = sync[y].previous
          /\ record.pc # "changes"
      BY <1>2 DEF SyncState
    <3>3. QED
      BY <1>4, <1>12, <3>1, <3>2 DEF Normalize
  <2>2. CASE \E known \in {sync[y].previous} \cup (IF LostObjects THEN {{}} ELSE {}) :
               Move(y, [sync[y] EXCEPT
                 !.previous = known, !.pc = "changes",
                 !.changes = Normalized(SourceOf[y], known, sync[y].captured)])
    <3>1. PICK known \in {sync[y].previous} \cup (IF LostObjects THEN {{}} ELSE {}) :
                 Move(y, [sync[y] EXCEPT
                   !.previous = known, !.pc = "changes",
                   !.changes = Normalized(SourceOf[y], known, sync[y].captured)])
      BY <2>2
    <3> DEFINE found == Normalized(SourceOf[y], known, sync[y].captured)
               record == [sync[y] EXCEPT !.previous = known, !.pc = "changes",
                                         !.changes = found]
    <3>2. /\ sync[y].previous \in Artifact /\ sync[y].captured \in Artifact
          /\ {} \in Artifact
      BY <1>2 DEF SyncState, Artifact
    <3>3. known \in Artifact /\ \A p \in known : Explained(SourceOf[y], p)
      BY <1>3, <3>2
    <3>4. found \in SUBSET Changes
      BY <1>1, <3>2, <3>3, NormalizedType
    <3> HIDE DEF found
    <3>5. /\ record \in SyncState /\ record.previous = known
          /\ record.changes = found /\ record.captured = sync[y].captured
      BY <1>2, <3>3, <3>4 DEF SyncState
    <3>6. Move(y, record)
      BY <3>1 DEF found
    <3>7. record.changes = Normalized(SourceOf[y], record.previous, record.captured)
      BY <3>5 DEF found
    <3> HIDE DEF record
    <3>8. QED
      BY <1>12, <3>3, <3>5, <3>6, <3>7, MovesKeepSyncInv DEF Normalize
  <2>3. QED
    BY <1>12, <2>1, <2>2 DEF Normalize
<1>13. CASE OpenTransaction(y)
  <2> DEFINE record == [sync[y] EXCEPT !.open = TRUE, !.seen = Statuses]
  <2>1. /\ record \in SyncState /\ record.previous = sync[y].previous
        /\ record.pc = sync[y].pc
        /\ record.changes = sync[y].changes /\ record.captured = sync[y].captured
    BY <1>2 DEF SyncState
  <2>2. QED
    BY <1>4, <1>13, <2>1 DEF OpenTransaction
<1>14. ASSUME NEW pc \in {"raised", "dead"}
       PROVE  /\ Closed(y, pc) \in SyncState
              /\ Closed(y, pc).previous = sync[y].previous /\ Closed(y, pc).pc # "changes"
  BY <1>2 DEF Closed, SyncState
<1>15. CASE TransactionRaises(y)
  BY <1>4, <1>14, <1>15 DEF TransactionRaises
<1>16. CASE WorkerDies(y)
  BY <1>4, <1>14, <1>16 DEF WorkerDies
<1>17. CASE MarkCompleted(y)
  <2> DEFINE record == [sync[y] EXCEPT !.request = "completed", !.pc = "defer"]
  <2>1. /\ record \in SyncState /\ record.previous = sync[y].previous
        /\ record.pc # "changes"
    BY <1>2 DEF SyncState
  <2>2. QED
    BY <1>4, <1>17, <2>1 DEF MarkCompleted
<1>18. CASE MarkFailed(y)
  <2> DEFINE record == [sync[y] EXCEPT !.request = "failed", !.pc = "ended"]
  <2>1. /\ record \in SyncState /\ record.previous = sync[y].previous
        /\ record.pc # "changes"
    BY <1>2 DEF SyncState
  <2>2. QED
    BY <1>4, <1>18, <2>1 DEF MarkFailed
<1>19. CASE DeferAnalysis(y)
  <2> DEFINE record == [sync[y] EXCEPT !.pc = "batch"]
  <2>1. /\ record \in SyncState /\ record.previous = sync[y].previous
        /\ record.pc # "changes"
    BY <1>2 DEF SyncState
  <2>2. QED
    BY <1>4, <1>19, <2>1 DEF DeferAnalysis
<1>20. QED
  BY <1>5, <1>6, <1>7, <1>8, <1>9, <1>10, <1>11, <1>12, <1>13, <1>15, <1>16, <1>17,
     <1>18, <1>19 DEF RequestStep

\* Each of the three transactions commits a consistent row with an explained
\* baseline.
LEMMA CommittingKeepsSyncInv ==
  ASSUME SyncInv, SyncAssumption, NEW y \in Syncs,
         RecordNotModified(y) \/ RecordFailure(y) \/ CommitChanges(y)
  PROVE  SyncInv'
<1> DEFINE s == SourceOf[y]
           row == sources[s]
<1>1. s \in Sources
  BY DEF SyncAssumption
<1>2. /\ row \in SourceRow /\ Consistent(row) /\ row.baseline \in Artifact
      /\ sync[y] \in SyncState
      /\ events \subseteq Changes
      /\ origins \in [Sources -> SUBSET Pages]
      /\ fanout \in [Jobs -> JobStatus]
  BY <1>1 DEF SyncInv, SyncTypeOK, HealthIsConsistent, Consistent, SourceRow
<1>3. \A now \in row.baseline : Explained(s, now)
  BY <1>1 DEF SyncInv, NothingChangesUnnoticed
<1>4. {} \in Artifact
  BY DEF Artifact
<1> HIDE DEF row
<1>5. CASE RecordNotModified(y)
  <2>1. UnchangedSource(row).baseline = row.baseline
    BY DEF UnchangedSource
  <2>2. /\ CommitHealth(y, UnchangedSource(row)) /\ Move(y, Closed(y, "returned"))
        /\ UNCHANGED <<origins, events, fanout>>
    BY <1>5 DEF RecordNotModified, row
  <2>3. \A now \in UnchangedSource(row).baseline : Explained(s, now)'
    BY <1>1, <1>3, <2>1, <2>2, ExplainedStays
  <2>4. UnchangedSource(row) \in SourceRow /\ Consistent(UnchangedSource(row))
    BY <1>2, <1>4, RowsStayConsistent
  <2>5. QED
    BY <1>2, <2>2, <2>3, <2>4, CommitsKeepSyncInv
<1>6. CASE RecordFailure(y)
  <2>1. FailedSource(row).baseline = row.baseline
    BY DEF FailedSource
  <2>2. /\ CommitHealth(y, FailedSource(row)) /\ Move(y, Closed(y, "raised"))
        /\ UNCHANGED <<origins, events, fanout>>
    BY <1>6 DEF RecordFailure, row
  <2>3. \A now \in FailedSource(row).baseline : Explained(s, now)'
    BY <1>1, <1>3, <2>1, <2>2, ExplainedStays
  <2>4. FailedSource(row) \in SourceRow /\ Consistent(FailedSource(row))
    BY <1>2, <1>4, RowsStayConsistent
  <2>5. QED
    BY <1>2, <2>2, <2>3, <2>4, CommitsKeepSyncInv
<1>7. CASE CommitChanges(y)
  <2> DEFINE previous == sync[y].previous
             captured == sync[y].captured
             found == Normalized(s, previous, captured)
  <2>1. previous \in Artifact /\ captured \in Artifact
    BY <1>2 DEF SyncState
  <2>2. /\ \A p \in previous : Explained(s, p)
        /\ sync[y].changes = found
    BY <1>7 DEF SyncInv, SyncsBuildOnBaselines, CommitChanges
  <2>3. found \in SUBSET Changes
    BY <1>1, <2>1, NormalizedType
  <2> HIDE DEF found
  <2>4. /\ CommitHealth(y, CapturedSource(row, captured)) /\ Move(y, Closed(y, "returned"))
        /\ events' = events \cup found
        /\ fanout' = QueuedFanout(found)
    BY <1>7, <2>2 DEF CommitChanges, row
  <2>5. \A r \in Sources :
          origins'[r] = IF r = s THEN origins[r] \cup (IF previous = {} THEN captured ELSE {})
                        ELSE origins[r]
    BY <1>2, <1>7 DEF CommitChanges
  <2>6. origins' \in [Sources -> SUBSET Pages]
    <3>1. origins' = [origins EXCEPT ![s] =
                        @ \cup (IF previous = {} THEN captured ELSE {})]
      BY <1>7 DEF CommitChanges
    <3>2. captured \subseteq Pages
      BY <2>1 DEF Artifact
    <3>3. QED
      BY <1>2, <3>1, <3>2
  <2>7. events \subseteq events' /\ events' \subseteq Changes
    BY <1>2, <2>3, <2>4
  <2>8. fanout' \in [Jobs -> JobStatus]
    BY <1>2, <2>4 DEF QueuedFanout, JobStatus
  <2>9. CapturedSource(row, captured).baseline = captured
    BY DEF CapturedSource
  <2>10. \A now \in captured : Explained(s, now)'
    <3>1. events' = events \cup Normalized(s, previous, captured)
      BY <2>4 DEF found
    <3>2. origins'[s] = origins[s] \cup (IF previous = {} THEN captured ELSE {})
      BY <1>1, <2>5
    <3>3. \A p \in previous : Explained(s, p)
      BY <2>2
    <3> HIDE DEF s, previous, captured
    <3>4. QED
      BY <1>1, <2>1, <3>1, <3>2, <3>3, ChangesExplain
  <2>11. CapturedSource(row, captured) \in SourceRow /\ Consistent(CapturedSource(row, captured))
    BY <1>2, <2>1, RowsStayConsistent
  <2>12. QED
    BY <2>4, <2>5, <2>6, <2>7, <2>8, <2>9, <2>10, <2>11, CommitsKeepSyncInv
<1>8. QED
  BY <1>5, <1>6, <1>7

\* SyncInv is inductive.
LEMMA SyncStepsKeepSyncInv ==
  ASSUME SyncInv, SyncAssumption, [SyncNext]_syncVars
  PROVE  SyncInv'
<1>1. ASSUME page' \in [Sources -> Pages], UNCHANGED <<Store, sync>>
      PROVE  SyncInv'
  <2>1. SyncTypeOK'
    BY <1>1 DEF SyncInv, SyncTypeOK, Store
  <2>2. HealthIsConsistent'
    BY <1>1 DEF SyncInv, HealthIsConsistent, Store
  <2>3. \A s, p : Explained(s, p)' <=> Explained(s, p)
    BY <1>1 DEF Explained, Store
  <2>4. NothingChangesUnnoticed' /\ SyncsBuildOnBaselines'
    BY <1>1, <2>3 DEF SyncInv, NothingChangesUnnoticed, SyncsBuildOnBaselines, Store
  <2>5. QED
    BY <2>1, <2>2, <2>4 DEF SyncInv
<1>2. ASSUME (\E s \in Sources : PageChanges(s)) \/ UNCHANGED syncVars
      PROVE  SyncInv'
  <2>1. page' \in [Sources -> Pages]
    BY <1>2 DEF PageChanges, SyncInv, SyncTypeOK, syncVars
  <2>2. UNCHANGED <<Store, sync>>
    BY <1>2 DEF PageChanges, Store, syncVars
  <2>3. QED
    BY <1>1, <2>1, <2>2
<1>3. ASSUME NEW y \in Syncs,
             QueueSync(y) \/ RequestStep(y) \/ RequesterDies(y) \/ JobStep(y) \/ WorkerDies(y)
      PROVE  SyncInv'
  BY <1>3, PreparingKeepsSyncInv, CommittingKeepsSyncInv DEF JobStep, WorkStep, Commit
<1>4. QED
  BY <1>2, <1>3 DEF SyncNext, QuietStep, JobStep

\* Nothing is configured yet.
LEMMA SyncInitSyncInv ==
  ASSUME SyncInit
  PROVE  SyncInv
<1>1. NewSource \in SourceRow /\ NewSource.baseline = {} /\ Consistent(NewSource)
  BY DEF NewSource, SourceRow, HealthStatus, Artifact, Consistent, Health
<1>2. NothingSeen \in [Sources -> HealthStatus]
  BY DEF NothingSeen, HealthStatus
<1>3. NewSync \in SyncState /\ NewSync.previous = {} /\ NewSync.pc = "none"
  BY <1>2 DEF NewSync, SyncState, Artifact
<1>4. SyncTypeOK
  BY <1>1, <1>3 DEF SyncInit, SyncTypeOK, JobStatus
<1>5. HealthIsConsistent /\ NothingChangesUnnoticed /\ SyncsBuildOnBaselines
  BY <1>1, <1>3 DEF SyncInit, HealthIsConsistent, NothingChangesUnnoticed,
                    SyncsBuildOnBaselines, Consistent
<1>6. QED
  BY <1>4, <1>5 DEF SyncInv

\* SyncInv holds in every reachable state.
LEMMA SyncInvHolds == SyncSpec => []SyncInv
<1>1. SyncInit => SyncInv
  BY SyncInitSyncInv
<1>2. SyncInv /\ [SyncNext]_syncVars => SyncInv'
  BY SyncStepsKeepSyncInv, SyncAssumption
<1>3. QED
  BY <1>1, <1>2, PTL DEF SyncSpec

--------------------------------------------------------------------------------

\* Every row, request and job of ingestion keeps its type.
THEOREM SyncTypes == SyncSpec => []SyncTypeOK
<1>1. SyncInv => SyncTypeOK
  BY DEF SyncInv
<1>2. QED
  BY <1>1, SyncInvHolds, PTL

\* However the syncs of a source overlap, its status and the copy the API
\* serves stand for its failures and successes.
THEOREM HealthStaysConsistent == SyncSpec => []HealthIsConsistent
<1>1. SyncInv => HealthIsConsistent
  BY DEF SyncInv
<1>2. QED
  BY <1>1, SyncInvHolds, PTL

\* However the syncs of a source overlap and commit, its baseline differs from
\* a page it started from only by what the events say.
THEOREM NoChangeGoesUnnoticed == SyncSpec => []NothingChangesUnnoticed
<1>1. SyncInv => NothingChangesUnnoticed
  BY DEF SyncInv
<1>2. QED
  BY <1>1, SyncInvHolds, PTL

--------------------------------------------------------------------------------
(***************************************************************************)
(* ProviderHealth for any number of sources and syncs.  What a transaction *)
(* has read stays true as long as no other one commits, and a commit       *)
(* overtakes every transaction that is open beside it.                     *)
(***************************************************************************)

\* What has not been overtaken has read what is still so.
ReadsAreFresh ==
  \A y \in Syncs : sync[y].open /\ y \notin overtaken => sync[y].seen = Statuses

StatusIsFresh == ~ misled => provider = ProviderStatus(Statuses)

HealthInv == SyncInv /\ ReadsAreFresh /\ StatusIsFresh

\* A step that leaves the tables alone keeps the reads fresh if it closes a
\* transaction or opens it with what is committed now.
LEMMA MovesKeepReadsFresh ==
  ASSUME ReadsAreFresh, StatusIsFresh, UNCHANGED Store, UNCHANGED <<overtaken, misled>>,
         \A z \in Syncs : \/ ~ sync'[z].open
                          \/ sync'[z].open = sync[z].open /\ sync'[z].seen = sync[z].seen
                          \/ sync'[z].seen = Statuses
  PROVE  ReadsAreFresh' /\ StatusIsFresh'
<1>1. Statuses' = Statuses /\ provider' = provider
  BY DEF Statuses, Store
<1>2. ReadsAreFresh'
  BY <1>1 DEF ReadsAreFresh
<1>3. StatusIsFresh'
  BY <1>1 DEF StatusIsFresh, ProviderStatus
<1>4. QED
  BY <1>2, <1>3

\* No step but a commit writes a table.
LEMMA QuietStepsKeepReadsFresh ==
  ASSUME SyncInv, ReadsAreFresh, StatusIsFresh,
         QuietStep, UNCHANGED <<overtaken, misled>>
  PROVE  ReadsAreFresh' /\ StatusIsFresh'
<1>1. CASE \E s \in Sources : PageChanges(s)
  BY <1>1, MovesKeepReadsFresh DEF PageChanges, Store
<1>2. ASSUME NEW y \in Syncs,
             \/ QueueSync(y) \/ RequestStep(y) \/ RequesterDies(y) \/ WorkStep(y) \/ WorkerDies(y)
      PROVE  ReadsAreFresh' /\ StatusIsFresh'
  <2>1. sync[y] \in SyncState
    BY DEF SyncInv, SyncTypeOK
  <2>2. UNCHANGED Store
    BY <1>2 DEF QueueSync, RequestStep, DeferSync, MarkUnqueued, RequesterDies, WorkStep,
       StartSync, ReadPrevious, Fetch, Normalize, OpenTransaction, TransactionRaises,
       MarkCompleted, MarkFailed, DeferAnalysis, WorkerDies
  <2>3. \A z \in Syncs \ {y} : sync'[z] = sync[z]
    BY <1>2 DEF QueueSync, RequestStep, DeferSync, MarkUnqueued, RequesterDies, WorkStep,
       StartSync, ReadPrevious, Fetch, Normalize, OpenTransaction, TransactionRaises,
       MarkCompleted, MarkFailed, DeferAnalysis, WorkerDies, Move, SyncInv, SyncTypeOK
  <2>4. ASSUME NEW record, Move(y, record)
        PROVE  sync'[y] = record
    BY <2>4 DEF Move, SyncInv, SyncTypeOK
  <2>5. \/ ~ sync'[y].open
        \/ sync'[y].open = sync[y].open /\ sync'[y].seen = sync[y].seen
        \/ sync'[y].seen = Statuses
    <3>1. CASE QueueSync(y) \/ RequestStep(y) \/ RequesterDies(y)
      BY <2>1, <2>4, <3>1
      DEF QueueSync, RequestStep, DeferSync, MarkUnqueued, RequesterDies, SyncState
    <3>2. CASE StartSync(y) \/ ReadPrevious(y) \/ MarkCompleted(y) \/ MarkFailed(y)
                 \/ DeferAnalysis(y)
      BY <2>1, <2>4, <3>2
      DEF StartSync, ReadPrevious, MarkCompleted, MarkFailed, DeferAnalysis, SyncState
    <3>3. CASE Fetch(y)
      BY <2>1, <2>4, <3>3 DEF Fetch, SyncState
    <3>4. CASE Normalize(y)
      BY <2>1, <2>4, <3>4 DEF Normalize, SyncState
    <3>5. CASE OpenTransaction(y)
      BY <2>1, <2>4, <3>5 DEF OpenTransaction, SyncState
    <3>6. CASE TransactionRaises(y) \/ WorkerDies(y)
      BY <2>1, <2>4, <3>6 DEF TransactionRaises, WorkerDies, Closed, SyncState
    <3>7. QED
      BY <1>2, <3>1, <3>2, <3>3, <3>4, <3>5, <3>6 DEF WorkStep
  <2>6. QED
    BY <2>2, <2>3, <2>5, MovesKeepReadsFresh
<1>3. QED
  BY <1>1, <1>2 DEF QuietStep

\* A commit that nothing has overtaken writes the status of all sources as
\* they are now, its own included, and overtakes the others that are open.
LEMMA CommitsKeepReadsFresh ==
  ASSUME SyncInv, SyncAssumption, ReadsAreFresh, NEW y \in Syncs, CommitOvertakes(y)
  PROVE  ReadsAreFresh' /\ StatusIsFresh'
<1>1. SourceOf[y] \in Sources
  BY DEF SyncAssumption
<1>2. PICK row, pc : CommitHealth(y, row) /\ Move(y, Closed(y, pc)) /\ sync[y].open
  BY DEF CommitOvertakes, Commit, RecordNotModified, RecordFailure, CommitChanges
<1>3. \A z \in Syncs : sync'[z] = IF z = y THEN Closed(y, pc) ELSE sync[z]
  BY <1>2 DEF Move, SyncInv, SyncTypeOK
<1>4. ~ Closed(y, pc).open
  BY DEF Closed, SyncInv, SyncTypeOK, SyncState
<1>5. ReadsAreFresh'
  BY <1>3, <1>4 DEF ReadsAreFresh, CommitOvertakes, OpenBeside
<1>6. Statuses' = [Statuses EXCEPT ![SourceOf[y]] = row.status]
  BY <1>1, <1>2 DEF CommitHealth, Statuses, SyncInv, SyncTypeOK
<1>7. y \notin overtaken => sync[y].seen = Statuses
  BY <1>2 DEF ReadsAreFresh
<1>8. y \notin overtaken => provider' = ProviderStatus(Statuses')
  BY <1>2, <1>6, <1>7 DEF CommitHealth
<1>9. StatusIsFresh'
  BY <1>8 DEF StatusIsFresh, CommitOvertakes, ProviderStatus
<1>10. QED
  BY <1>5, <1>9

\* The history is told beside the steps of ingestion and prevents none.
LEMMA HistoryKeepsSyncSteps ==
  ASSUME [HealthNext]_healthVars
  PROVE  [SyncNext]_syncVars
BY DEF HealthNext, healthVars, CommitOvertakes, SyncNext

\* HealthInv is inductive.
LEMMA HealthInvHolds == HealthSpec => []HealthInv
<1>1. HealthInit => HealthInv
  <2>1. SUFFICES ASSUME HealthInit
                 PROVE  HealthInv
    OBVIOUS
  <2>2. SyncInv
    BY <2>1, SyncInitSyncInv DEF HealthInit
  <2>3. ReadsAreFresh
    BY <2>1 DEF HealthInit, SyncInit, NewSync, ReadsAreFresh
  <2>4. \A s \in Sources : Statuses[s] = "never_synced"
    BY <2>1 DEF HealthInit, SyncInit, NewSource, Statuses
  <2>5. ProviderStatus(Statuses) = "disconnected"
    BY <2>4, HealthAssumption DEF ProviderStatus
  <2>6. QED
    BY <2>1, <2>2, <2>3, <2>5 DEF HealthInv, StatusIsFresh, HealthInit, SyncInit
<1>2. HealthInv /\ [HealthNext]_healthVars => HealthInv'
  <2>1. SUFFICES ASSUME HealthInv, [HealthNext]_healthVars
                 PROVE  HealthInv'
    OBVIOUS
  <2>2. SyncInv'
    BY <2>1, HistoryKeepsSyncSteps, SyncStepsKeepSyncInv, SyncAssumption DEF HealthInv
  <2>3. CASE QuietStep /\ UNCHANGED <<overtaken, misled>>
    BY <2>1, <2>2, <2>3, QuietStepsKeepReadsFresh DEF HealthInv
  <2>4. CASE \E y \in Syncs : CommitOvertakes(y)
    BY <2>1, <2>2, <2>4, CommitsKeepReadsFresh, SyncAssumption DEF HealthInv
  <2>5. CASE UNCHANGED healthVars
    <3>1. /\ sync' = sync /\ provider' = provider /\ overtaken' = overtaken
          /\ misled' = misled /\ Statuses' = Statuses
      BY <2>5 DEF healthVars, syncVars, Statuses
    <3>2. QED
      BY <2>1, <2>2, <3>1 DEF HealthInv, ReadsAreFresh, StatusIsFresh, ProviderStatus
  <2>6. QED
    BY <2>1, <2>3, <2>4, <2>5 DEF HealthNext
<1>3. QED
  BY <1>1, <1>2, PTL DEF HealthSpec

\* The status of a provider is that of its sources together, however many of
\* them are synced at once, unless an overtaken transaction has written it.
THEOREM ProvidersFollowTheirSources == HealthSpec => []ProviderFollowsItsSources
<1>1. HealthInv => ProviderFollowsItsSources
  BY HealthAssumption DEF HealthInv, StatusIsFresh, ProviderStatus, Statuses,
     ProviderFollowsItsSources
<1>2. QED
  BY <1>1, HealthInvHolds, PTL

\* Told with its history, ingestion is still the ingestion it was.
THEOREM HistoryPreventsNothing == HealthSpec => SyncSpec
<1>1. HealthInit => SyncInit
  BY DEF HealthInit
<1>2. [HealthNext]_healthVars => [SyncNext]_syncVars
  BY HistoryKeepsSyncSteps
<1>3. QED
  BY <1>1, <1>2, PTL DEF HealthSpec, SyncSpec

--------------------------------------------------------------------------------
(***************************************************************************)
(* RepositoryFanout for any number of syncs, repositories, workers and     *)
(* copies of a job in the queue: the claim is what makes a job analysed    *)
(* once, because nothing returns a job to queued.                          *)
(***************************************************************************)

FanoutTypes ==
  /\ copies \in [Jobs -> Nat]
  /\ analysts \in [Analysts -> AnalystState]
  /\ assessments \subseteq Jobs \X Snapshots
  /\ migrations \subseteq Jobs

\* A job exists only for an event that does, so that no commit queues it again.
JobsHaveEvents == \A j \in Jobs : fanout[j] # "absent" => j[1] \in events

Analyses(w, j) == analysts[w].pc = "analyze" /\ j \in analysts[w].job

HasVerdict(j) == \E d \in Snapshots : <<j, d>> \in assessments

\* While a job is analysed it is not queued and has no verdict yet, and only
\* one worker does it.
OneAnalystEach ==
  \A j \in Jobs :
    /\ \A w \in Analysts :
         Analyses(w, j) => fanout[j] \notin {"absent", "queued"} /\ ~ HasVerdict(j)
    /\ \A w, v \in Analysts : Analyses(w, j) /\ Analyses(v, j) => w = v

\* AnalysedOnce, said of the pairs in assessments.
OneVerdictEach ==
  \A j \in Jobs :
    /\ fanout[j] \in {"absent", "queued"} => ~ HasVerdict(j)
    /\ fanout[j] = "completed" => HasVerdict(j)
    /\ \A c, d \in Snapshots :
         <<j, c>> \in assessments /\ <<j, d>> \in assessments => c = d

FanoutInv ==
  /\ SyncInv
  /\ FanoutTypes
  /\ JobsHaveEvents
  /\ OneAnalystEach
  /\ OneVerdictEach
  /\ MigrationsFollowVerdicts

--------------------------------------------------------------------------------
(* Steps of ingestion, and of the queue *)

\* SyncInv asks no more of the fan-out jobs than their type.
LEMMA JobsKeepSyncInv ==
  ASSUME SyncInv, fanout' \in [Jobs -> JobStatus],
         UNCHANGED <<page, sources, provider, origins, events, sync>>
  PROVE  SyncInv'
<1>1. SyncTypeOK'
  BY DEF SyncInv, SyncTypeOK
<1>2. HealthIsConsistent'
  BY DEF SyncInv, HealthIsConsistent
<1>3. \A s, p : Explained(s, p)' <=> Explained(s, p)
  BY DEF Explained
<1>4. NothingChangesUnnoticed' /\ SyncsBuildOnBaselines'
  BY <1>3 DEF SyncInv, NothingChangesUnnoticed, SyncsBuildOnBaselines
<1>5. QED
  BY <1>1, <1>2, <1>4 DEF SyncInv

\* A step of ingestion leaves every fan-out job as it is, or queues it for an
\* event that was not there.
LEMMA SyncStepsQueueOnlyNewJobs ==
  ASSUME FanoutInv, [SyncNext]_syncVars
  PROVE  /\ events \subseteq events'
         /\ \A j \in Jobs : \/ fanout'[j] = fanout[j]
                            \/ fanout[j] = "absent" /\ fanout'[j] = "queued" /\ j[1] \in events'
<1>1. CASE UNCHANGED <<events, fanout>>
  BY <1>1
<1>2. ASSUME NEW y \in Syncs, CommitChanges(y)
      PROVE  /\ events \subseteq events'
             /\ \A j \in Jobs : \/ fanout'[j] = fanout[j]
                                \/ fanout[j] = "absent" /\ fanout'[j] = "queued" /\ j[1] \in events'
  BY <1>2 DEF CommitChanges, QueuedFanout, FanoutInv, JobsHaveEvents
<1>3. QED
  BY <1>1, <1>2 DEF SyncNext, QuietStep, Commit, syncVars, PageChanges, QueueSync, RequestStep,
     DeferSync, MarkUnqueued, RequesterDies, WorkStep, StartSync, ReadPrevious, Fetch, Normalize,
     OpenTransaction, RecordNotModified, RecordFailure, TransactionRaises, MarkCompleted,
     MarkFailed, DeferAnalysis, WorkerDies, Store

\* What leaves the workers and their verdicts alone keeps the invariant, as
\* long as the jobs it touches are new.
LEMMA QueueingKeepsFanoutInv ==
  ASSUME FanoutInv, SyncInv', copies' \in [Jobs -> Nat], events \subseteq events',
         UNCHANGED <<analysts, assessments, migrations>>,
         \A j \in Jobs : \/ fanout'[j] = fanout[j]
                         \/ fanout[j] = "absent" /\ fanout'[j] = "queued" /\ j[1] \in events'
  PROVE  FanoutInv'
<1>1. FanoutTypes'
  BY DEF FanoutInv, FanoutTypes
<1>2. JobsHaveEvents'
  BY DEF FanoutInv, JobsHaveEvents
<1>3. OneAnalystEach'
  BY DEF FanoutInv, OneAnalystEach, Analyses, HasVerdict
<1>4. OneVerdictEach'
  BY DEF FanoutInv, OneVerdictEach, HasVerdict
<1>5. MigrationsFollowVerdicts'
  BY DEF FanoutInv, MigrationsFollowVerdicts
<1>6. QED
  BY <1>1, <1>2, <1>3, <1>4, <1>5 DEF FanoutInv

\* The batch that a sync deferred only adds copies to the queue.
LEMMA EnqueueingKeepsFanoutInv ==
  ASSUME FanoutInv, NEW y \in Syncs, EnqueueAnalysis(y) \/ EnqueueStops(y)
  PROVE  FanoutInv'
<1>1. \A batch : WithCopies(batch) \in [Jobs -> Nat]
  BY DEF FanoutInv, FanoutTypes, WithCopies
<1>2. copies' \in [Jobs -> Nat]
  BY <1>1 DEF EnqueueAnalysis, EnqueueStops
<1>3. /\ sync[y] \in SyncState
      /\ \A p \in sync[y].previous : Explained(SourceOf[y], p)
  BY DEF FanoutInv, SyncInv, SyncTypeOK, SyncsBuildOnBaselines
<1> DEFINE Reached(pc) == [sync[y] EXCEPT !.pc = pc]
<1>4. ASSUME NEW pc \in {"ended", "dead"}
      PROVE  /\ Reached(pc) \in SyncState /\ Reached(pc).previous = sync[y].previous
             /\ Reached(pc).pc # "changes"
  BY <1>3 DEF SyncState
<1>5. \E pc \in {"ended", "dead"} : Move(y, Reached(pc))
  BY DEF EnqueueAnalysis, EnqueueStops
<1>6. UNCHANGED Store /\ UNCHANGED <<analysts, assessments, migrations>>
  BY DEF EnqueueAnalysis, EnqueueStops
<1> HIDE DEF Reached
<1>7. SyncInv'
  BY <1>3, <1>4, <1>5, <1>6, MovesKeepSyncInv DEF FanoutInv
<1>8. QED
  BY <1>2, <1>6, <1>7, QueueingKeepsFanoutInv DEF Store

--------------------------------------------------------------------------------
(* Steps of the workers *)

\* Where the workers are after one of them has moved.
LEMMA OthersStay ==
  ASSUME FanoutTypes, NEW w \in Analysts, NEW analyst \in AnalystState,
         analysts' = [analysts EXCEPT ![w] = analyst]
  PROVE  /\ analysts' \in [Analysts -> AnalystState]
         /\ \A v \in Analysts : analysts'[v] = IF v = w THEN analyst ELSE analysts[v]
BY DEF FanoutTypes

\* Updating the status of one job keeps the jobs' type, and the other jobs.
LEMMA OneJobChanges ==
  ASSUME fanout \in [Jobs -> JobStatus], NEW j \in Jobs, NEW status \in JobStatus
  PROVE  /\ [fanout EXCEPT ![j] = status] \in [Jobs -> JobStatus]
         /\ \A i \in Jobs : [fanout EXCEPT ![j] = status][i]
                              = IF i = j THEN status ELSE fanout[i]
OBVIOUS

\* Only a queued job is claimed, and then it is not queued any more.
LEMMA ClaimingKeepsFanoutInv ==
  ASSUME FanoutInv, NEW w \in Analysts, NEW j \in Jobs, ClaimJob(w, j)
  PROVE  FanoutInv'
<1>1. /\ copies \in [Jobs -> Nat] /\ fanout \in [Jobs -> JobStatus]
      /\ fanout[j] = "queued" /\ copies[j] > 0
  BY DEF FanoutInv, FanoutTypes, SyncInv, SyncTypeOK, ClaimJob, CanClaimJob, Take
<1>2. PICK pc \in {"analyze", "failing"} : Take(w, j, pc)
  BY DEF ClaimJob
<1> DEFINE analyst == [pc |-> pc, job |-> {j}]
<1>3. analyst \in AnalystState /\ analyst.job = {j}
  BY DEF AnalystState
<1>4. analysts' = [analysts EXCEPT ![w] = analyst]
  BY <1>2 DEF Take
<1> HIDE DEF analyst
<1>5. /\ analysts' \in [Analysts -> AnalystState]
      /\ \A v \in Analysts : analysts'[v] = IF v = w THEN analyst ELSE analysts[v]
  BY <1>3, <1>4, OthersStay DEF FanoutInv
<1>6. copies' \in [Jobs -> Nat]
  BY <1>1, <1>2 DEF Take
<1>7. /\ fanout' \in [Jobs -> JobStatus]
      /\ \A i \in Jobs : fanout'[i] = IF i = j THEN "analyzing" ELSE fanout[i]
  BY <1>1, OneJobChanges DEF ClaimJob, Claimed, JobStatus
<1>8. UNCHANGED <<page, sources, provider, origins, events, sync, assessments, migrations>>
  BY DEF ClaimJob
<1>9. SyncInv'
  BY <1>7, <1>8, JobsKeepSyncInv DEF FanoutInv
<1>10. FanoutTypes'
  BY <1>5, <1>6, <1>8 DEF FanoutInv, FanoutTypes
<1>11. JobsHaveEvents'
  BY <1>1, <1>7, <1>8 DEF FanoutInv, JobsHaveEvents
<1>12. OneAnalystEach'
  <2>1. \A v \in Analysts : ~ Analyses(v, j)
    BY <1>1 DEF FanoutInv, OneAnalystEach
  <2>2. \A v \in Analysts, i \in Jobs :
          Analyses(v, i)' => IF v = w THEN i = j ELSE Analyses(v, i)
    BY <1>3, <1>5 DEF Analyses
  <2>3. \A i \in Jobs : HasVerdict(i)' <=> HasVerdict(i)
    BY <1>8 DEF HasVerdict
  <2>4. ~ HasVerdict(j)
    BY <1>1 DEF FanoutInv, OneVerdictEach
  <2>5. \A i \in Jobs : \A v \in Analysts :
          Analyses(v, i)' => fanout'[i] \notin {"absent", "queued"} /\ ~ HasVerdict(i)'
    BY <1>7, <2>1, <2>2, <2>3, <2>4 DEF FanoutInv, OneAnalystEach
  <2>6. \A i \in Jobs : \A u, v \in Analysts : Analyses(u, i)' /\ Analyses(v, i)' => u = v
    BY <2>1, <2>2 DEF FanoutInv, OneAnalystEach
  <2>7. QED
    BY <2>5, <2>6 DEF OneAnalystEach
<1>13. OneVerdictEach'
  BY <1>1, <1>7, <1>8 DEF FanoutInv, OneVerdictEach, HasVerdict
<1>14. MigrationsFollowVerdicts'
  BY <1>8 DEF FanoutInv, MigrationsFollowVerdicts
<1>15. QED
  BY <1>9, <1>10, <1>11, <1>12, <1>13, <1>14 DEF FanoutInv

\* A worker that stops analysing, or never started, keeps the invariant, also
\* when it fails a job that another worker is analysing.
LEMMA LeavingKeepsFanoutInv ==
  ASSUME FanoutInv, NEW w \in Analysts, NEW analyst \in AnalystState,
         analyst.pc # "analyze",
         analysts' = [analysts EXCEPT ![w] = analyst],
         copies' \in [Jobs -> Nat], fanout' \in [Jobs -> JobStatus],
         \A j \in Jobs : \/ fanout'[j] = fanout[j]
                         \/ fanout[j] = "analyzing" /\ fanout'[j] = "failed",
         UNCHANGED <<page, sources, provider, origins, events, sync, assessments, migrations>>
  PROVE  FanoutInv'
<1>1. /\ analysts' \in [Analysts -> AnalystState]
      /\ \A v \in Analysts : analysts'[v] = IF v = w THEN analyst ELSE analysts[v]
  BY OthersStay DEF FanoutInv
<1>2. SyncInv'
  BY JobsKeepSyncInv DEF FanoutInv
<1>3. FanoutTypes'
  BY <1>1 DEF FanoutInv, FanoutTypes
<1>4. JobsHaveEvents'
  BY DEF FanoutInv, JobsHaveEvents
<1>5. OneAnalystEach'
  <2>1. \A v \in Analysts, i \in Jobs : Analyses(v, i)' => Analyses(v, i)
    BY <1>1 DEF Analyses
  <2>2. \A i \in Jobs : HasVerdict(i)' <=> HasVerdict(i)
    BY DEF HasVerdict
  <2>3. QED
    BY <2>1, <2>2 DEF FanoutInv, OneAnalystEach
<1>6. OneVerdictEach'
  BY DEF FanoutInv, OneVerdictEach, HasVerdict
<1>7. MigrationsFollowVerdicts'
  BY DEF FanoutInv, MigrationsFollowVerdicts
<1>8. QED
  BY <1>2, <1>3, <1>4, <1>5, <1>6, <1>7 DEF FanoutInv

\* The verdict of the one worker that analyses a job is the job's first.
LEMMA CompletingKeepsFanoutInv ==
  ASSUME FanoutInv, FanoutAssumption, NEW w \in Analysts, NEW j \in Jobs, CompleteJob(w, j)
  PROVE  FanoutInv'
<1>1. PICK d \in Snapshots :
        /\ assessments' = assessments \cup {<<j, d>>}
        /\ migrations' = MigrationsAfter(j, d)
  BY DEF CompleteJob
<1>2. /\ Analyses(w, j) /\ ~ HasVerdict(j)
      /\ fanout[j] \notin {"absent", "queued"}
      /\ \A v \in Analysts : Analyses(v, j) => v = w
      /\ fanout \in [Jobs -> JobStatus]
  BY DEF CompleteJob, Analyses, FanoutInv, OneAnalystEach, SyncInv, SyncTypeOK
<1>3. IdleAnalyst \in AnalystState /\ IdleAnalyst.pc = "idle"
  BY DEF IdleAnalyst, AnalystState
<1>4. /\ analysts' = [analysts EXCEPT ![w] = IdleAnalyst]
      /\ UNCHANGED copies
      /\ UNCHANGED <<page, sources, provider, origins, events, sync>>
  BY DEF CompleteJob, Proceed
<1>5. /\ analysts' \in [Analysts -> AnalystState]
      /\ \A v \in Analysts : analysts'[v] = IF v = w THEN IdleAnalyst ELSE analysts[v]
  BY <1>3, <1>4, OthersStay DEF FanoutInv
<1>6. /\ fanout' \in [Jobs -> JobStatus]
      /\ \A i \in Jobs : i # j => fanout'[i] = fanout[i]
      /\ fanout'[j] \notin {"absent", "queued"}
  <2>1. fanout' = Finished(j, "completed")
    BY DEF CompleteJob
  <2>2. "completed" \in JobStatus
    BY DEF JobStatus
  <2>3. QED
    BY <1>2, <2>1, <2>2, OneJobChanges DEF Finished
<1>7. \A i \in Jobs, c \in Snapshots :
        <<i, c>> \in assessments' <=> <<i, c>> \in assessments \/ (i = j /\ c = d)
  BY <1>1
<1>8. SyncInv'
  BY <1>4, <1>6, JobsKeepSyncInv DEF FanoutInv
<1>9. FanoutTypes'
  BY <1>1, <1>4, <1>5 DEF FanoutInv, FanoutTypes, MigrationsAfter
<1>10. JobsHaveEvents'
  BY <1>2, <1>4, <1>6 DEF FanoutInv, JobsHaveEvents
<1>11. OneAnalystEach'
  <2>1. \A v \in Analysts, i \in Jobs : Analyses(v, i)' => v # w /\ Analyses(v, i)
    BY <1>3, <1>5 DEF Analyses
  <2>2. \A v \in Analysts, i \in Jobs : Analyses(v, i)' => i # j
    BY <1>2, <2>1
  <2>3. \A i \in Jobs : i # j => (HasVerdict(i)' <=> HasVerdict(i))
    BY <1>7 DEF HasVerdict
  <2>4. QED
    BY <1>6, <2>1, <2>2, <2>3 DEF FanoutInv, OneAnalystEach
<1>12. OneVerdictEach'
  <2>1. ASSUME NEW i \in Jobs, i # j
        PROVE  /\ fanout'[i] \in {"absent", "queued"} => ~ HasVerdict(i)'
               /\ fanout'[i] = "completed" => HasVerdict(i)'
               /\ \A b, c \in Snapshots :
                    <<i, b>> \in assessments' /\ <<i, c>> \in assessments' => b = c
    BY <1>6, <1>7, <2>1 DEF FanoutInv, OneVerdictEach, HasVerdict
  <2>2. HasVerdict(j)'
    BY <1>7 DEF HasVerdict
  <2>3. \A b, c \in Snapshots :
          <<j, b>> \in assessments' /\ <<j, c>> \in assessments' => b = c
    BY <1>2, <1>7 DEF HasVerdict
  <2>4. QED
    BY <1>6, <2>1, <2>2, <2>3 DEF OneVerdictEach
<1>13. MigrationsFollowVerdicts'
  <2>1. \A i \in Jobs : i \in migrations' <=> i \in migrations \/ (i = j /\ d \in Affecting)
    BY <1>1 DEF MigrationsAfter
  <2>2. Affecting \subseteq Snapshots
    BY DEF FanoutAssumption
  <2>3. QED
    BY <1>7, <2>1, <2>2 DEF FanoutInv, MigrationsFollowVerdicts
<1>14. QED
  BY <1>8, <1>9, <1>10, <1>11, <1>12, <1>13 DEF FanoutInv

\* FanoutInv is inductive.
LEMMA StepsKeepFanoutInv ==
  ASSUME FanoutInv, SyncAssumption, FanoutAssumption, [Next]_vars
  PROVE  FanoutInv'
<1>1. /\ copies \in [Jobs -> Nat] /\ analysts \in [Analysts -> AnalystState]
      /\ fanout \in [Jobs -> JobStatus]
  BY DEF FanoutInv, FanoutTypes, SyncInv, SyncTypeOK
<1>2. \A w \in Analysts :
        /\ analysts[w].job \in SUBSET Jobs
        /\ [analysts[w] EXCEPT !.pc = "failing"] \in AnalystState
        /\ [analysts[w] EXCEPT !.pc = "failing"].pc # "analyze"
  BY <1>1 DEF AnalystState
<1>3. CASE [SyncNext]_syncVars /\ UNCHANGED fanoutVars
  <2>1. SyncInv'
    BY <1>3, SyncStepsKeepSyncInv DEF FanoutInv
  <2>2. QED
    BY <1>1, <1>3, <2>1, SyncStepsQueueOnlyNewJobs, QueueingKeepsFanoutInv DEF fanoutVars
<1>4. ASSUME NEW y \in Syncs, EnqueueAnalysis(y) \/ EnqueueStops(y) PROVE FanoutInv'
  BY <1>4, EnqueueingKeepsFanoutInv
<1>5. ASSUME NEW w \in Analysts, NEW j \in Jobs, ClaimJob(w, j) PROVE FanoutInv'
  BY <1>5, ClaimingKeepsFanoutInv
<1>6. ASSUME NEW w \in Analysts, NEW j \in Jobs, SkipJob(w, j) PROVE FanoutInv'
  <2>1. copies' \in [Jobs -> Nat]
    BY <1>1, <1>6 DEF SkipJob
  <2>2. UNCHANGED <<syncVars, analysts, assessments, migrations>>
    BY <1>6 DEF SkipJob
  <2>3. SyncInv'
    BY <1>1, <2>2, JobsKeepSyncInv DEF FanoutInv, syncVars
  <2>4. QED
    BY <2>1, <2>2, <2>3, QueueingKeepsFanoutInv DEF syncVars
<1>7. ASSUME NEW w \in Analysts, NEW j \in Jobs, ClaimRaises(w, j) PROVE FanoutInv'
  <2> DEFINE analyst == [pc |-> "failing", job |-> {j}]
  <2>1. analyst \in AnalystState /\ analyst.pc # "analyze"
    BY DEF AnalystState
  <2>2. /\ copies' \in [Jobs -> Nat] /\ UNCHANGED <<syncVars, assessments, migrations>>
        /\ analysts' = [analysts EXCEPT ![w] = analyst]
    BY <1>1, <1>7 DEF ClaimRaises, Take
  <2> HIDE DEF analyst
  <2>3. QED
    BY <1>1, <2>1, <2>2, LeavingKeepsFanoutInv DEF syncVars
<1>8. ASSUME NEW w \in Analysts, NEW j \in Jobs, CompleteJob(w, j) PROVE FanoutInv'
  BY <1>8, CompletingKeepsFanoutInv
<1>9. ASSUME NEW w \in Analysts, NEW j \in Jobs, FailJob(w, j) PROVE FanoutInv'
  <2>1. /\ fanout' = Finished(j, "failed")
        /\ analysts' = [analysts EXCEPT ![w] = IdleAnalyst] /\ UNCHANGED copies
        /\ UNCHANGED <<page, sources, provider, origins, events, sync, assessments, migrations>>
    BY <1>9 DEF FailJob, Proceed
  <2>2. "failed" \in JobStatus
    BY DEF JobStatus
  <2>3. /\ fanout' \in [Jobs -> JobStatus]
        /\ \A i \in Jobs : \/ fanout'[i] = fanout[i]
                           \/ fanout[i] = "analyzing" /\ fanout'[i] = "failed"
    BY <1>1, <2>1, <2>2, OneJobChanges DEF Finished
  <2>4. IdleAnalyst \in AnalystState /\ IdleAnalyst.pc # "analyze"
    BY DEF IdleAnalyst, AnalystState
  <2>5. QED
    BY <1>1, <2>1, <2>3, <2>4, LeavingKeepsFanoutInv
<1>10. ASSUME NEW w \in Analysts, AnalysisRaises(w) PROVE FanoutInv'
  <2>1. /\ analysts' = [analysts EXCEPT ![w] = [analysts[w] EXCEPT !.pc = "failing"]]
        /\ UNCHANGED copies /\ UNCHANGED <<syncVars, assessments, migrations>>
    BY <1>10 DEF AnalysisRaises, Proceed
  <2>2. QED
    BY <1>1, <1>2, <2>1, LeavingKeepsFanoutInv DEF syncVars
<1>11. ASSUME NEW w \in Analysts, AnalystDies(w) PROVE FanoutInv'
  <2> DEFINE analyst == [pc |-> "dead", job |-> {}]
  <2>1. analyst \in AnalystState /\ analyst.pc # "analyze"
    BY DEF AnalystState
  <2>2. /\ analysts' = [analysts EXCEPT ![w] = analyst]
        /\ UNCHANGED copies /\ UNCHANGED <<syncVars, assessments, migrations>>
    BY <1>11 DEF AnalystDies, Proceed
  <2> HIDE DEF analyst
  <2>3. QED
    BY <1>1, <2>1, <2>2, LeavingKeepsFanoutInv DEF syncVars
<1>12. CASE UNCHANGED vars
  BY <1>3, <1>12 DEF vars
<1>13. QED
  BY <1>3, <1>4, <1>5, <1>6, <1>7, <1>8, <1>9, <1>10, <1>11, <1>12
     DEF Next, TakeStep, AnalysisStep

\* No job exists yet.
LEMMA InitFanoutInv ==
  ASSUME Init
  PROVE  FanoutInv
<1>1. SyncInv
  BY SyncInitSyncInv DEF Init
<1>2. IdleAnalyst \in AnalystState /\ IdleAnalyst.pc = "idle"
  BY DEF IdleAnalyst, AnalystState
<1>3. FanoutTypes /\ JobsHaveEvents
  BY <1>2 DEF Init, SyncInit, FanoutTypes, JobsHaveEvents
<1>4. OneAnalystEach /\ OneVerdictEach /\ MigrationsFollowVerdicts
  BY <1>2 DEF Init, SyncInit, OneAnalystEach, OneVerdictEach, MigrationsFollowVerdicts,
              Analyses, HasVerdict
<1>5. QED
  BY <1>1, <1>3, <1>4 DEF FanoutInv

\* FanoutInv holds in every reachable state.
LEMMA FanoutInvHolds == Spec => []FanoutInv
<1>1. Init => FanoutInv
  BY InitFanoutInv
<1>2. FanoutInv /\ [Next]_vars => FanoutInv'
  BY StepsKeepFanoutInv, SyncAssumption, FanoutAssumption
<1>3. QED
  BY <1>1, <1>2, PTL DEF Spec

--------------------------------------------------------------------------------

\* Every variable of the pipeline keeps its type.
THEOREM FanoutTypesHold == Spec => []TypeOK
<1>1. FanoutInv => TypeOK
  BY DEF FanoutInv, SyncInv, FanoutTypes, TypeOK
<1>2. QED
  BY <1>1, FanoutInvHolds, PTL

\* However many copies of a job are in the queue, and whatever process dies, a
\* job gets at most one verdict, and none while it is queued.
THEOREM EachJobIsAnalysedOnce == Spec => []AnalysedOnce
<1>1. FanoutInv => AnalysedOnce
  <2> SUFFICES ASSUME FanoutInv, NEW j \in Jobs
      PROVE  LET verdicts == {a \in assessments : a[1] = j} IN
             /\ fanout[j] \in {"absent", "queued"} => verdicts = {}
             /\ fanout[j] = "completed" => verdicts # {}
             /\ \A a, b \in verdicts : a = b
    BY DEF AnalysedOnce
  <2> DEFINE verdicts == {a \in assessments : a[1] = j}
  <2>1. \A a \in verdicts : \E d \in Snapshots : a = <<j, d>>
    BY DEF FanoutInv, FanoutTypes
  <2>2. \A d \in Snapshots : <<j, d>> \in assessments => <<j, d>> \in verdicts
    OBVIOUS
  <2>3. \A a \in verdicts : a \in assessments
    OBVIOUS
  <2> HIDE DEF verdicts
  <2>4. fanout[j] \in {"absent", "queued"} => verdicts = {}
    BY <2>1, <2>3 DEF FanoutInv, OneVerdictEach, HasVerdict
  <2>5. fanout[j] = "completed" => verdicts # {}
    BY <2>2 DEF FanoutInv, OneVerdictEach, HasVerdict
  <2>6. \A a, b \in verdicts : a = b
    BY <2>1, <2>3 DEF FanoutInv, OneVerdictEach
  <2>7. QED
    BY <2>4, <2>5, <2>6 DEF verdicts
<1>2. QED
  BY <1>1, FanoutInvHolds, PTL

\* A repository has a migration for a change exactly when the verdict on this
\* change says that it is affected.
THEOREM MigrationsAreFromVerdicts == Spec => []MigrationsFollowVerdicts
<1>1. FanoutInv => MigrationsFollowVerdicts
  BY DEF FanoutInv
<1>2. QED
  BY <1>1, FanoutInvHolds, PTL

\* Analysing what was ingested changes nothing about ingestion: no change goes
\* unnoticed in the composed system either.
THEOREM NothingIsLostDownstream == Spec => [](HealthIsConsistent /\ NothingChangesUnnoticed)
<1>1. FanoutInv => HealthIsConsistent /\ NothingChangesUnnoticed
  BY DEF FanoutInv, SyncInv
<1>2. QED
  BY <1>1, FanoutInvHolds, PTL

--------------------------------------------------------------------------------
(* The refinement of ChangeVerdict, for every fan-out job *)

Decided(j) == {d \in Snapshots : <<j, d>> \in assessments}

\* Nothing is said of job j in this step.
Rests(j) == fanout'[j] = fanout[j] /\ Decided(j)' = Decided(j)
            /\ (j \in migrations' <=> j \in migrations)

\* What a step may do to one job.
Moves(j) ==
  \/ Rests(j)
  \/ /\ \/ fanout[j] = "absent" /\ fanout'[j] = "queued"
        \/ fanout[j] = "queued" /\ fanout'[j] = "analyzing"
        \/ fanout[j] = "analyzing" /\ fanout'[j] = "failed"
     /\ Decided(j)' = Decided(j) /\ (j \in migrations' <=> j \in migrations)
  \/ \E d \in Snapshots :
       /\ \/ fanout[j] = "analyzing" /\ fanout'[j] = "completed"
          \/ fanout[j] = "failed" /\ fanout'[j] = "failed"
       /\ Decided(j) = {} /\ Decided(j)' = {d}
       /\ (j \in migrations' <=> d \in Affecting)

\* These are the steps of ChangeVerdict.
LEMMA MovesAreVerdicts ==
  ASSUME NEW j \in Jobs, Moves(j)
  PROVE  [Verdict(j)!Next]_(Verdict(j)!verdictVars)
BY DEF Moves, Rests, Decided, Verdict!Next, Verdict!verdictVars, Verdict!Ask, Verdict!TakeUp,
   Verdict!GiveUp, Verdict!Answer

\* The answer of the one worker that analyses a job is its first, and the job is
\* still analyzing or has been given up meanwhile.
LEMMA CompletingAnswers ==
  ASSUME FanoutInv, FanoutAssumption, NEW w \in Analysts, NEW j \in Jobs, CompleteJob(w, j),
         NEW i \in Jobs
  PROVE  Moves(i)
<1>1. PICK d \in Snapshots :
        /\ assessments' = assessments \cup {<<j, d>>}
        /\ migrations' = MigrationsAfter(j, d)
  BY DEF CompleteJob
<1>2. /\ ~ HasVerdict(j) /\ fanout[j] \notin {"absent", "queued"}
      /\ fanout \in [Jobs -> JobStatus]
  BY DEF CompleteJob, Analyses, FanoutInv, OneAnalystEach, SyncInv, SyncTypeOK
<1>3. fanout[j] \in {"analyzing", "failed"}
  BY <1>2 DEF FanoutInv, OneVerdictEach, JobStatus
<1>4. fanout' = Finished(j, "completed")
  BY DEF CompleteJob
<1>5. CASE i # j
  <2>1. fanout'[i] = fanout[i]
    BY <1>2, <1>4, <1>5 DEF Finished
  <2>2. Decided(i)' = Decided(i)
    BY <1>1, <1>5 DEF Decided
  <2>3. i \in migrations' <=> i \in migrations
    BY <1>1, <1>5 DEF MigrationsAfter
  <2>4. QED
    BY <2>1, <2>2, <2>3 DEF Moves, Rests
<1>6. CASE i = j
  <2>1. \/ fanout[j] = "analyzing" /\ fanout'[j] = "completed"
        \/ fanout[j] = "failed" /\ fanout'[j] = "failed"
    BY <1>2, <1>3, <1>4 DEF Finished
  <2>2. Decided(j) = {}
    BY <1>2 DEF Decided, HasVerdict
  <2>3. Decided(j)' = {d}
    BY <1>1, <1>2 DEF Decided, HasVerdict
  <2>4. j \notin migrations
    BY <1>2 DEF FanoutInv, MigrationsFollowVerdicts, HasVerdict, FanoutAssumption
  <2>5. j \in migrations' <=> d \in Affecting
    BY <1>1, <2>4 DEF MigrationsAfter
  <2>6. QED
    BY <1>6, <2>1, <2>2, <2>3, <2>5 DEF Moves
<1>7. QED
  BY <1>5, <1>6

\* Whatever the system does, it does no more to any job than ChangeVerdict.
LEMMA StepsMoveJobs ==
  ASSUME FanoutInv, FanoutAssumption, [Next]_vars, NEW j \in Jobs
  PROVE  Moves(j)
<1>1. fanout \in [Jobs -> JobStatus]
  BY DEF FanoutInv, SyncInv, SyncTypeOK
<1>2. ASSUME UNCHANGED <<assessments, migrations>>,
             \/ fanout'[j] = fanout[j]
             \/ fanout[j] = "absent" /\ fanout'[j] = "queued"
             \/ fanout[j] = "queued" /\ fanout'[j] = "analyzing"
             \/ fanout[j] = "analyzing" /\ fanout'[j] = "failed"
      PROVE  Moves(j)
  BY <1>2 DEF Moves, Rests, Decided
<1>3. CASE [SyncNext]_syncVars /\ UNCHANGED fanoutVars
  BY <1>2, <1>3, SyncStepsQueueOnlyNewJobs DEF fanoutVars
<1>4. ASSUME NEW y \in Syncs, EnqueueAnalysis(y) \/ EnqueueStops(y) PROVE Moves(j)
  BY <1>2, <1>4 DEF EnqueueAnalysis, EnqueueStops, Store
<1>5. ASSUME NEW w \in Analysts, NEW i \in Jobs, TakeStep(w, i) PROVE Moves(j)
  BY <1>1, <1>2, <1>5
     DEF TakeStep, ClaimJob, CanClaimJob, Claimed, SkipJob, ClaimRaises, syncVars
<1>6. ASSUME NEW w \in Analysts, NEW i \in Jobs, FailJob(w, i) PROVE Moves(j)
  BY <1>1, <1>2, <1>6 DEF FailJob, Finished
<1>7. ASSUME NEW w \in Analysts, AnalysisRaises(w) \/ AnalystDies(w) PROVE Moves(j)
  BY <1>2, <1>7 DEF AnalysisRaises, AnalystDies, syncVars
<1>8. CASE UNCHANGED vars
  BY <1>3, <1>8 DEF vars
<1>9. QED
  BY <1>3, <1>4, <1>5, <1>6, <1>7, <1>8, CompletingAnswers DEF Next, AnalysisStep

\* Whatever overlaps, fails or dies between the sync that finds a change and the
\* verdict on it, each repository is asked about it once, answers at most once and
\* has its migration from the moment it answers.
THEOREM PipelineImplementsChangeVerdict == Spec => JobsAreDecidedOnce
<1> DEFINE Follows == \A j \in Jobs : [Verdict(j)!Next]_(Verdict(j)!verdictVars)
<1>1. Init => \A j \in Jobs : Verdict(j)!Init
  BY DEF Init, SyncInit, Verdict!Init
<1>2. FanoutInv /\ [Next]_vars => [Follows]_vars
  BY StepsMoveJobs, MovesAreVerdicts, FanoutAssumption
<1> HIDE DEF Follows
<1>3. Spec => [][Follows]_vars
  BY FanoutInvHolds, <1>2, PTL DEF Spec
<1>4. QED
  BY <1>1, <1>3 DEF Spec, JobsAreDecidedOnce, Follows

--------------------------------------------------------------------------------
(***************************************************************************)
(* JobsAreInHands.  Unless somebody dies, a sync that committed an event   *)
(* keeps it until its batch is in the queue, a copy leaves the queue with  *)
(* a worker, and a worker leaves its job with a verdict or failed.         *)
(***************************************************************************)

\* A job is queued once for each sync: what it is doing is not started again.
JobsStartOnce ==
  \A y \in Syncs :
    /\ sync[y].request = "absent" => sync[y].pc = "none"
    /\ sync[y].requester = "defer" => sync[y].pc = "none" /\ sync[y].request # "absent"

\* A step of a sync, the composed one included, starts it once and keeps in hand
\* what it has to hand on, unless it dies or its batch is in the queue.
LEMMA SyncsHandOn ==
  ASSUME SyncInv, JobsStartOnce, NEW y \in Syncs,
         \/ QueueSync(y) \/ RequestStep(y) \/ RequesterDies(y)
         \/ WorkStep(y) \/ WorkerDies(y) \/ Commit(y)
  PROVE  /\ JobsStartOnce'
         /\ \A z \in Syncs, j \in Jobs :
           HandsOn(z, j) /\ sync'[z].pc # "dead" => HandsOn(z, j)'
<1>1. sync[y] \in SyncState /\ sync \in [Syncs -> SyncState]
  BY DEF SyncInv, SyncTypeOK
<1>2. ASSUME NEW record, Move(y, record)
      PROVE  sync'[y] = record /\ \A z \in Syncs \ {y} : sync'[z] = sync[z]
  BY <1>1, <1>2 DEF Move
<1>3. ASSUME NEW record, Move(y, record),
             record.request = "absent" => record.pc = "none",
             record.requester = "defer" => record.pc = "none" /\ record.request # "absent",
             \/ sync[y].pc \notin {"returned", "defer", "batch"}
             \/ record.pc = "dead"
             \/ record.pc \in {"returned", "defer", "batch"} /\ record.changes = sync[y].changes
      PROVE  /\ JobsStartOnce'
             /\ \A z \in Syncs, j \in Jobs :
                  HandsOn(z, j) /\ sync'[z].pc # "dead" => HandsOn(z, j)'
  <2>1. sync'[y] = record /\ \A z \in Syncs \ {y} : sync'[z] = sync[z]
    BY <1>2, <1>3
  <2>2. JobsStartOnce'
    BY <1>3, <2>1 DEF JobsStartOnce
  <2>3. ASSUME NEW z \in Syncs, NEW j \in Jobs, HandsOn(z, j), sync'[z].pc # "dead"
        PROVE  HandsOn(z, j)'
    <3>1. CASE z = y
      BY <1>3, <2>1, <2>3, <3>1 DEF HandsOn
    <3>2. CASE z # y
      BY <2>1, <2>3, <3>2 DEF HandsOn
    <3>3. QED
      BY <3>1, <3>2
  <2>4. QED
    BY <2>2, <2>3
<1>4. /\ sync[y].request = "absent" => sync[y].pc = "none"
      /\ sync[y].requester = "defer" => sync[y].pc = "none" /\ sync[y].request # "absent"
  BY DEF JobsStartOnce
<1>5. CASE QueueSync(y) \/ RequestStep(y) \/ RequesterDies(y)
  <2>1. CASE QueueSync(y)
    BY <1>1, <1>3, <1>4, <2>1 DEF QueueSync, SyncState
  <2>2. CASE DeferSync(y)
    BY <1>1, <1>3, <1>4, <2>2 DEF DeferSync, SyncState
  <2>3. CASE MarkUnqueued(y)
    BY <1>1, <1>3, <1>4, <2>3 DEF MarkUnqueued, SyncState
  <2>4. CASE RequesterDies(y)
    BY <1>1, <1>3, <1>4, <2>4 DEF RequesterDies, SyncState
  <2>5. QED
    BY <1>5, <2>1, <2>2, <2>3, <2>4 DEF RequestStep
<1>6. CASE StartSync(y)
  BY <1>1, <1>3, <1>4, <1>6 DEF StartSync, SyncState
<1>7. CASE ReadPrevious(y)
  BY <1>1, <1>3, <1>4, <1>7 DEF ReadPrevious, SyncState
<1>8. CASE Fetch(y)
  BY <1>1, <1>3, <1>4, <1>8 DEF Fetch, SyncState
<1>9. CASE Normalize(y)
  BY <1>1, <1>3, <1>4, <1>9 DEF Normalize, SyncState
<1>10. CASE OpenTransaction(y)
  BY <1>1, <1>3, <1>4, <1>10 DEF OpenTransaction, SyncState
<1>11. CASE TransactionRaises(y)
  BY <1>1, <1>3, <1>4, <1>11 DEF TransactionRaises, Closed, SyncState
<1>12. CASE MarkCompleted(y)
  BY <1>1, <1>3, <1>4, <1>12 DEF MarkCompleted, SyncState
<1>13. CASE MarkFailed(y)
  BY <1>1, <1>3, <1>4, <1>13 DEF MarkFailed, SyncState
<1>14. CASE DeferAnalysis(y)
  BY <1>1, <1>3, <1>4, <1>14 DEF DeferAnalysis, SyncState
<1>15. CASE WorkerDies(y)
  BY <1>1, <1>3, <1>4, <1>15 DEF WorkerDies, Closed, SyncState
<1>16. CASE Commit(y)
  BY <1>1, <1>3, <1>4, <1>16
     DEF Commit, RecordNotModified, RecordFailure, CommitChanges, Closed, SyncState
<1>17. QED
  BY <1>5, <1>6, <1>7, <1>8, <1>9, <1>10, <1>11, <1>12, <1>13, <1>14, <1>15, <1>16
     DEF WorkStep

\* A sync that queues a job has it to hand on.
LEMMA QueuedJobsAreHandedOn ==
  ASSUME FanoutInv, [SyncNext]_syncVars, NEW j \in Jobs, fanout'[j] # fanout[j]
  PROVE  fanout'[j] = "queued" /\ \E y \in Syncs : HandsOn(y, j)'
<1>1. fanout' # fanout
  OBVIOUS
<1>2. PICK y \in Syncs : CommitChanges(y)
  BY <1>1 DEF SyncNext, QuietStep, Commit, syncVars, PageChanges, QueueSync, RequestStep,
     DeferSync, MarkUnqueued, RequesterDies, WorkStep, StartSync, ReadPrevious, Fetch, Normalize,
     OpenTransaction, RecordNotModified, RecordFailure, TransactionRaises, MarkCompleted,
     MarkFailed, DeferAnalysis, WorkerDies, Store
<1>3. j[1] \in sync[y].changes /\ fanout'[j] = "queued"
  BY <1>2 DEF CommitChanges, QueuedFanout
<1>4. sync'[y] = Closed(y, "returned")
  BY <1>2 DEF CommitChanges, Move, FanoutInv, SyncInv, SyncTypeOK
<1>5. sync[y] \in SyncState
  BY DEF FanoutInv, SyncInv, SyncTypeOK
<1>6. sync'[y].pc = "returned" /\ sync'[y].changes = sync[y].changes
  BY <1>4, <1>5 DEF Closed, SyncState
<1>7. QED
  BY <1>3, <1>6 DEF HandsOn

HandsInv == JobsStartOnce /\ \A j \in Jobs : InHands(j)

\* A step of ingestion puts down no job.
LEMMA SyncStepsKeepHands ==
  ASSUME FanoutInv, HandsInv, Undisturbed', [SyncNext]_syncVars, UNCHANGED fanoutVars
  PROVE  HandsInv'
<1>1. JobsStartOnce' /\ \A z \in Syncs, j \in Jobs : HandsOn(z, j) => HandsOn(z, j)'
  <2>1. CASE UNCHANGED sync
    BY <2>1 DEF HandsInv, JobsStartOnce, HandsOn
  <2>2. CASE ~ UNCHANGED sync
    <3>1. PICK y \in Syncs : \/ QueueSync(y) \/ RequestStep(y) \/ RequesterDies(y)
                             \/ WorkStep(y) \/ WorkerDies(y) \/ Commit(y)
      BY <2>2 DEF SyncNext, QuietStep, PageChanges, syncVars
    <3>2. QED
      BY <3>1, SyncsHandOn DEF FanoutInv, HandsInv, Undisturbed
  <2>3. QED
    BY <2>1, <2>2
<1>2. ASSUME NEW j \in Jobs PROVE InHands(j)'
  <2>1. CASE fanout'[j] = fanout[j]
    BY <1>1, <2>1 DEF HandsInv, InHands, fanoutVars
  <2>2. CASE fanout'[j] # fanout[j]
    BY <2>2, QueuedJobsAreHandedOn DEF InHands
  <2>3. QED
    BY <2>1, <2>2
<1>3. QED
  BY <1>1, <1>2 DEF HandsInv

\* A batch is in hand until all of it is in the queue.
LEMMA EnqueueingKeepsHands ==
  ASSUME FanoutInv, HandsInv, Undisturbed', NEW y \in Syncs,
         EnqueueAnalysis(y) \/ EnqueueStops(y)
  PROVE  HandsInv'
<1>1. sync \in [Syncs -> SyncState] /\ copies \in [Jobs -> Nat]
  BY DEF FanoutInv, FanoutTypes, SyncInv, SyncTypeOK
<1>2. EnqueueAnalysis(y)
  <2>1. CASE EnqueueStops(y)
    <3>1. sync'[y].pc = "dead"
      BY <1>1, <2>1 DEF EnqueueStops, Move, SyncState
    <3>2. QED
      BY <3>1 DEF Undisturbed
  <2>2. QED
    BY <2>1
<1>3. /\ copies' = WithCopies(QueuedJobs(sync[y].changes))
      /\ sync' = [sync EXCEPT ![y] = [sync[y] EXCEPT !.pc = "ended"]]
      /\ UNCHANGED <<fanout, analysts>>
  BY <1>2 DEF EnqueueAnalysis, Move, Store
<1>4. /\ sync[y].pc = "batch" /\ sync[y] \in SyncState
      /\ \A z \in Syncs \ {y} : sync'[z] = sync[z]
      /\ sync'[y].request = sync[y].request /\ sync'[y].requester = sync[y].requester
  BY <1>1, <1>2, <1>3 DEF EnqueueAnalysis, SyncState
<1>5. JobsStartOnce'
  BY <1>4 DEF HandsInv, JobsStartOnce
<1>6. ASSUME NEW j \in Jobs PROVE InHands(j)'
  <2>1. copies'[j] >= copies[j] /\ copies'[j] \in Nat
    BY <1>1, <1>3 DEF WithCopies
  <2>2. ASSUME fanout[j] = "queued", HandsOn(y, j) PROVE copies'[j] > 0
    BY <1>1, <1>3, <2>2 DEF WithCopies, QueuedJobs, HandsOn
  <2>3. ASSUME NEW z \in Syncs, z # y, HandsOn(z, j) PROVE HandsOn(z, j)'
    BY <1>4, <2>3 DEF HandsOn
  <2>4. copies[j] > 0 => copies'[j] > 0
    BY <1>1, <2>1
  <2>5. QED
    BY <1>3, <2>2, <2>3, <2>4 DEF HandsInv, InHands
<1>7. QED
  BY <1>5, <1>6 DEF HandsInv

\* A worker takes a job into its hands, and leaves it answered or failed.
LEMMA WorkersKeepHands ==
  ASSUME FanoutInv, HandsInv, Undisturbed', NEW w \in Analysts,
         (\E j \in Jobs : TakeStep(w, j)) \/ AnalysisStep(w) \/ AnalystDies(w)
  PROVE  HandsInv'
<1>1. /\ copies \in [Jobs -> Nat] /\ analysts \in [Analysts -> AnalystState]
      /\ fanout \in [Jobs -> JobStatus]
  BY DEF FanoutInv, FanoutTypes, SyncInv, SyncTypeOK
<1>2. UNCHANGED sync
  BY DEF TakeStep, ClaimJob, SkipJob, ClaimRaises, AnalysisStep, CompleteJob, FailJob,
         AnalysisRaises, AnalystDies, syncVars
<1>3. JobsStartOnce' /\ \A y \in Syncs, j \in Jobs : HandsOn(y, j)' <=> HandsOn(y, j)
  BY <1>2 DEF HandsInv, JobsStartOnce, HandsOn
\* What a step leaves in hand of the jobs it is not about.
<1>4. ASSUME NEW i \in Jobs, fanout'[i] = fanout[i], copies'[i] = copies[i],
             \A v \in Analysts \ {w} : analysts'[v] = analysts[v],
             \/ analysts[w].job # {i} \/ analysts[w].pc = "idle"
             \/ analysts'[w].pc \in {"analyze", "failing"} /\ analysts'[w].job = {i}
      PROVE  InHands(i)'
  BY <1>3, <1>4 DEF HandsInv, InHands
<1>5. ASSUME NEW j \in Jobs, ClaimJob(w, j) PROVE HandsInv'
  <2>1. PICK pc \in {"analyze", "failing"} : Take(w, j, pc)
    BY <1>5 DEF ClaimJob
  <2>2. /\ \A v \in Analysts \ {w} : analysts'[v] = analysts[v]
        /\ analysts[w].pc = "idle" /\ analysts'[w] = [pc |-> pc, job |-> {j}]
        /\ \A i \in Jobs \ {j} : copies'[i] = copies[i] /\ fanout'[i] = fanout[i]
        /\ fanout'[j] = "analyzing"
    BY <1>1, <1>5, <2>1 DEF ClaimJob, Claimed, Take
  <2>3. InHands(j)'
    BY <1>1, <2>2 DEF InHands
  <2>4. \A i \in Jobs \ {j} : InHands(i)'
    BY <1>4, <2>2
  <2>5. QED
    BY <1>3, <2>3, <2>4 DEF HandsInv
<1>6. ASSUME NEW j \in Jobs, SkipJob(w, j) PROVE HandsInv'
  <2>1. /\ UNCHANGED <<fanout, analysts>> /\ fanout[j] # "queued"
        /\ \A i \in Jobs \ {j} : copies'[i] = copies[i]
    BY <1>1, <1>6 DEF SkipJob, CanClaimJob, syncVars
  <2>2. \A i \in Jobs : InHands(i)'
    BY <1>3, <2>1 DEF HandsInv, InHands
  <2>3. QED
    BY <1>3, <2>2 DEF HandsInv
<1>7. ASSUME NEW j \in Jobs, ClaimRaises(w, j) PROVE HandsInv'
  <2>1. /\ \A v \in Analysts \ {w} : analysts'[v] = analysts[v]
        /\ analysts[w].pc = "idle" /\ analysts'[w] = [pc |-> "failing", job |-> {j}]
        /\ \A i \in Jobs \ {j} : copies'[i] = copies[i]
        /\ fanout' = fanout
    BY <1>1, <1>7 DEF ClaimRaises, Take, syncVars
  <2>2. analysts'[w].pc = "failing" /\ analysts'[w].job = {j}
    BY <1>1, <2>1
  <2>3. fanout[j] = "analyzing"
    BY <2>1, <2>2 DEF Undisturbed
  <2>4. InHands(j)'
    BY <2>1, <2>2, <2>3 DEF InHands
  <2>5. \A i \in Jobs \ {j} : InHands(i)'
    BY <1>4, <2>1
  <2>6. QED
    BY <1>3, <2>4, <2>5 DEF HandsInv
<1>8. ASSUME NEW j \in Jobs, CompleteJob(w, j) \/ FailJob(w, j) PROVE HandsInv'
  <2>1. PICK status \in {"completed", "failed"} : fanout' = Finished(j, status)
    BY <1>8 DEF CompleteJob, FailJob
  <2>2. /\ \A v \in Analysts \ {w} : analysts'[v] = analysts[v]
        /\ analysts[w].job = {j} /\ copies' = copies
    BY <1>1, <1>8 DEF CompleteJob, FailJob, Proceed
  <2>3. /\ \A i \in Jobs \ {j} : fanout'[i] = fanout[i]
        /\ fanout'[j] # "analyzing"
        /\ fanout'[j] = "queued" => fanout[j] = "queued"
    BY <1>1, <2>1 DEF Finished
  <2>4. InHands(j)'
    BY <1>3, <2>2, <2>3 DEF HandsInv, InHands
  <2>5. \A i \in Jobs \ {j} : InHands(i)'
    BY <1>4, <2>2, <2>3
  <2>6. QED
    BY <1>3, <2>4, <2>5 DEF HandsInv
<1>9. CASE AnalysisRaises(w)
  <2>1. /\ \A v \in Analysts \ {w} : analysts'[v] = analysts[v]
        /\ analysts'[w].pc = "failing" /\ analysts'[w].job = analysts[w].job
        /\ UNCHANGED <<fanout, copies>>
    BY <1>1, <1>9 DEF AnalysisRaises, Proceed, AnalystState, syncVars
  <2>2. \A i \in Jobs : InHands(i)'
    BY <1>4, <2>1
  <2>3. QED
    BY <1>3, <2>2 DEF HandsInv
<1>10. CASE AnalystDies(w)
  <2>1. analysts'[w].pc = "dead"
    BY <1>1, <1>10 DEF AnalystDies, Proceed
  <2>2. QED
    BY <2>1 DEF Undisturbed
<1>11. QED
  BY <1>5, <1>6, <1>7, <1>8, <1>9, <1>10 DEF TakeStep, AnalysisStep

\* As long as no process dies and no claim raises before it ran, every job that is
\* queued or analyzing is in the hands of somebody, for any number of syncs,
\* batches, copies of a job and workers.
THEOREM NoJobIsPutDown == Spec => JobsAreInHands
<1> DEFINE AllInHands == \A j \in Jobs : InHands(j)
<1>1. Init => HandsInv
  BY DEF Init, SyncInit, NewSync, HandsInv, JobsStartOnce, InHands
<1>2. FanoutInv /\ HandsInv /\ Undisturbed' /\ [Next]_vars => HandsInv'
  <2>1. SUFFICES ASSUME FanoutInv, HandsInv, Undisturbed', [Next]_vars PROVE HandsInv'
    OBVIOUS
  <2>2. CASE [SyncNext]_syncVars /\ UNCHANGED fanoutVars
    BY <2>1, <2>2, SyncStepsKeepHands
  <2>3. CASE UNCHANGED vars
    BY <2>2, <2>3 DEF vars
  <2>4. QED
    BY <2>1, <2>2, <2>3, EnqueueingKeepsHands, WorkersKeepHands DEF Next
<1>3. HandsInv => AllInHands
  BY DEF HandsInv
<1> HIDE DEF AllInHands
<1>4. Spec /\ []Undisturbed => []AllInHands
  BY FanoutInvHolds, <1>1, <1>2, <1>3, PTL DEF Spec
<1>5. QED
  BY <1>4, PTL DEF JobsAreInHands, AllInHands

================================================================================
