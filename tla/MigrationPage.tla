------------------------------ MODULE MigrationPage ------------------------------
(***************************************************************************)
(* The migration detail page of the frontend (MigrationDetailView and      *)
(* ActionPanel of MigrationWorkspace.tsx, lib/migrations.ts) over the rows *)
(* of MigrationStore: what the page has read, when, and which commands it  *)
(* offers on it, while workers and other tabs move the migration.          *)
(*                                                                         *)
(* A GET of the migration is two statements (get_migration), so its answer *)
(* may mix two states; it lands later still.  React runs an effect and the *)
(* cleanup of the last one (the abort of its fetches) with the render that *)
(* triggers them, so both are part of the step that sets the state.  Which *)
(* attempt is inspected is left out: no command depends on it.  Keys       *)
(* bounds the commands ever sent; MaxPolls the refreshes under way.        *)
(***************************************************************************)
EXTENDS MigrationStore, FiniteSets

CONSTANT MaxPolls

ASSUME MaxPollsAssumption == MaxPolls \in Nat

VARIABLES
  page,      \* the state hooks of MigrationDetailView and ActionPanel
  fetches,   \* GETs under way: 0 is the initial load, the others are polls
  command,   \* the POST under way, at most one (busy)
  usedKeys   \* idempotency keys drawn (crypto.randomUUID)

pageVars == <<page, fetches, command, usedKeys>>
vars == <<storeVars, pageVars>>

Polls == 1 .. MaxPolls
Fetches == 0 .. MaxPolls

activeStatuses == {"planning", "generating", "verifying", "pr_opening"}

\* What the page keeps of an attempt: whether its evidence can be published.
EvidenceClasses == {"absent", "none", "publishable", "other"}

Evidence(row) ==
  CASE row.status = "absent" -> "absent"
    [] row.status \notin {"absent", "completed"} -> "none"
    [] row.status = "completed" /\ row.recommendation = "approve" /\ row.passed ->
         "publishable"
    [] OTHER -> "other"

EvidenceNow == [a \in AttemptIds |-> Evidence(attempts[a])]

NothingShown == [a \in AttemptIds |-> "absent"]
NoRow == [status |-> "unknown", version |-> 0, current |-> 0]

Row == [status : MigrationStates \cup {"unknown"}, version : Nat, current : AttemptIdOrNull]
View == [AttemptIds -> EvidenceClasses]

NoFetch == [state |-> "idle", row |-> NoRow, attempts |-> NothingShown]
NoCommand ==
  [state |-> "idle", action |-> "publish", expected |-> 0,
   reply |-> NoRow]

FreshPage ==
  [loading |-> TRUE, error |-> FALSE, row |-> NoRow, attempts |-> NothingShown,
   pending |-> "none", echo |-> FALSE]

Loading == [s \in Fetches |-> IF s = 0 THEN [NoFetch EXCEPT !.state = "sent"] ELSE NoFetch]

Init ==
  /\ StoreInit
  /\ page = FreshPage
  /\ fetches = Loading
  /\ command = NoCommand
  /\ usedKeys = {}

--------------------------------------------------------------------------------
(* GET /migrations/{id}: get_migration *)

\* The row, served from its data JSON.
RowNow ==
  [status |-> migration.data.status, version |-> migration.data.version,
   current |-> migration.data.current]

\* Mutation: the attempts are read before the row.
NextStatement_AttemptsFirst(f) ==
  IF f.state = "sent" THEN [f EXCEPT !.state = "half", !.attempts = EvidenceNow]
  ELSE [f EXCEPT !.state = "answered", !.row = RowNow]

NextStatement(f) ==
  IF f.state = "sent" THEN [f EXCEPT !.state = "half", !.row = RowNow]
  ELSE [f EXCEPT !.state = "answered", !.attempts = EvidenceNow]

Read(s) ==
  /\ fetches[s].state \in {"sent", "half"}
  /\ fetches' = [fetches EXCEPT ![s] = NextStatement(fetches[s])]
  /\ UNCHANGED <<storeVars, page, command, usedKeys>>

--------------------------------------------------------------------------------
(* MigrationDetailView: the initial load and the five-second refresh *)

\* The browser reloads or comes back to the page: every answer still to come is lost,
\* but a command already sent is still handled.
Reload ==
  /\ page' = FreshPage
  /\ fetches' = Loading
  /\ command' = IF command.state = "sent" THEN [command EXCEPT !.state = "orphaned"]
                ELSE IF command.state = "orphaned" THEN command ELSE NoCommand
  /\ UNCHANGED <<storeVars, usedKeys>>

\* A status change replaces the polling effect, whose cleanup aborts its fetches.
PollsAfter(old, new) ==
  [s \in Fetches |-> IF s # 0 /\ old # new THEN NoFetch ELSE fetches[s]]

\* setMigration; the change and the publication are fetched next, and the page stays
\* hidden until they are there.
LandLoad ==
  LET f == fetches[0]
  IN  /\ f.state = "answered"
      /\ page' = [page EXCEPT !.row = f.row, !.attempts = f.attempts, !.echo = FALSE]
      /\ fetches' = [PollsAfter(page.row.status, f.row.status) EXCEPT
                       ![0] = [NoFetch EXCEPT !.state = "publication"]]
      /\ UNCHANGED <<storeVars, command, usedKeys>>

\* The change and the publication (404 is no publication) are there.  What they show
\* is left out: nothing on the page depends on it.
LandPublication ==
  /\ fetches[0].state = "publication"
  /\ page' = [page EXCEPT !.error = FALSE, !.loading = FALSE]
  /\ fetches' = [fetches EXCEPT ![0] = NoFetch]
  /\ UNCHANGED <<storeVars, command, usedKeys>>

\* Any fetch may fail: the page then says so instead of showing the migration.  A read
\* changes no row, so a failure may be taken to come after the reads.
FetchFails(s) ==
  /\ fetches[s].state \in {"answered", "publication"}
  /\ page' = [page EXCEPT !.error = TRUE,
                          !.loading = IF s = 0 THEN FALSE ELSE @]
  /\ fetches' = [fetches EXCEPT ![s] = NoFetch]
  /\ UNCHANGED <<storeVars, command, usedKeys>>

\* Mutation: the page stops refreshing once an attempt is being generated.
Refreshing_UntilGenerating == page.row.status \in {"planning", "verifying", "pr_opening"}

Refreshing == page.row.status \in activeStatuses

Poll(s) ==
  /\ Refreshing
  /\ fetches[s].state = "idle"
  /\ fetches' = [fetches EXCEPT ![s].state = "sent"]
  /\ UNCHANGED <<storeVars, page, command, usedKeys>>

LandPoll(s) ==
  LET f == fetches[s]
  IN  /\ f.state = "answered"
      /\ page' = [page EXCEPT !.row = f.row, !.attempts = f.attempts, !.echo = FALSE]
      /\ fetches' = [PollsAfter(page.row.status, f.row.status) EXCEPT ![s] = NoFetch]
      /\ UNCHANGED <<storeVars, command, usedKeys>>

Shown == ~ page.loading /\ ~ page.error /\ page.row # NoRow

--------------------------------------------------------------------------------
(* ActionPanel *)

CurrentEvidence ==
  IF page.row.current = 0 THEN "absent" ELSE page.attempts[page.row.current]

hasPublishableEvidence == CurrentEvidence = "publishable"

canDecide == page.row.status \in {"ready", "pr_opened"}

canGenerate ==
  \/ page.row.status \in {"queued", "needs_revision"}
  \/ page.row.status = "blocked" /\ ~ hasPublishableEvidence

\* Mutation: a blocked migration can be published whatever its evidence.
canPublish_Blocked == page.row.status \in {"ready", "blocked"}

canPublish ==
  \/ page.row.status = "ready"
  \/ page.row.status = "blocked" /\ hasPublishableEvidence

FormActions == {"revise", "snooze", "decline"}

OpenForm(action) ==
  /\ Shown /\ canDecide
  /\ page' = [page EXCEPT !.pending = action]
  /\ UNCHANGED <<storeVars, fetches, command, usedKeys>>

CancelForm ==
  /\ Shown /\ page.pending # "none"
  /\ page' = [page EXCEPT !.pending = "none"]
  /\ UNCHANGED <<storeVars, fetches, command, usedKeys>>

\* A button, or the submission of the form that is open, whatever the status is by
\* then.
Offered(action) ==
  \/ action = "publish" /\ canPublish
  \/ action = "generate" /\ canGenerate
  \/ action = "approve" /\ page.row.status = "pr_opened"
  \/ action \in FormActions /\ page.pending = action

PendingAfter(ok) == IF ok THEN "none" ELSE page.pending

\* execute: a fresh idempotency key and the version on screen.
SendCommand(action) ==
  /\ Shown
  /\ command.state = "idle"
  /\ Offered(action)
  /\ usedKeys # Keys
  /\ command' = [NoCommand EXCEPT !.state = "sent", !.action = action,
                                  !.expected = page.row.version]
  /\ UNCHANGED <<storeVars, page, fetches, usedKeys>>

CanCommit(action, key, expected) ==
  CASE action = "generate" -> CanQueueAttempt(key, expected)
    [] action = "publish" -> CanQueuePublication(key, expected)
    [] OTHER -> CanApplyDeveloperAction(action, key, expected)

Commit(action, key, expected) ==
  CASE action = "generate" -> QueueAttempt(key, expected)
    [] action = "publish" -> QueuePublication(key, expected)
    [] OTHER -> ApplyDeveloperAction(action, key, expected)

FreshKey == CHOOSE key \in Keys \ usedKeys : TRUE

\* The fields of the answer that the page has too.  A generation answers with the
\* migration's new status; a publication with the publication's, "queued"; a decision
\* with the migration's row.  NoRow stands for an answer that is not 2xx.
Reply(action) ==
  CASE action = "generate" ->
         [status |-> "planning", version |-> migration'.version, current |-> 0]
    [] action = "publish" ->
         [status |-> "queued", version |-> migration'.version, current |-> 0]
    [] OTHER ->
         [status |-> migration'.data.status, version |-> migration'.data.version,
          current |-> migration'.data.current]

Answered(reply) ==
  IF command.state = "orphaned" THEN NoCommand
  ELSE [command EXCEPT !.state = "answered", !.expected = 0, !.reply = reply]

\* The server takes the command.
CommandCommits ==
  /\ command.state \in {"sent", "orphaned"}
  /\ usedKeys # Keys
  /\ Commit(command.action, FreshKey, command.expected)
  /\ usedKeys' = usedKeys \cup {FreshKey}
  /\ command' = Answered(Reply(command.action))
  /\ UNCHANGED <<page, fetches>>

\* 409, publishing disabled, or GitHub did not answer: no row changes.
CommandRefused ==
  /\ command.state \in {"sent", "orphaned"}
  /\ command' = Answered(NoRow)
  /\ UNCHANGED <<storeVars, page, fetches, usedKeys>>

\* { ...current, ...value }
Merged(row, reply) ==
  [status |-> reply.status, version |-> reply.version,
   current |-> IF reply.current = 0 THEN row.current ELSE reply.current]

\* The answer is merged over what is shown: its attempts stay those last read.  An
\* answer lost on the way is a message, like a refusal.
LandReply(delivered) ==
  LET ok  == delivered /\ command.reply # NoRow
      row == IF ok THEN Merged(page.row, command.reply) ELSE page.row
  IN  /\ command.state = "answered"
      /\ page' = [page EXCEPT !.row = row, !.pending = PendingAfter(ok),
                              !.echo = IF ok THEN command.action = "publish" ELSE @]
      /\ fetches' = PollsAfter(page.row.status, row.status)
      /\ command' = NoCommand
      /\ UNCHANGED <<storeVars, usedKeys>>

--------------------------------------------------------------------------------
(* Everyone else: another tab with the current version, and the workers, in any  *)
(* order the store allows                                                        *)

OtherTab(action) ==
  /\ usedKeys # Keys
  /\ Commit(action, FreshKey, migration.version)
  /\ usedKeys' = usedKeys \cup {FreshKey}
  /\ UNCHANGED <<page, fetches, command>>

GenerationStarts(a) == ClaimAttempt(a) /\ UNCHANGED pageVars

GenerationEnds(a, recommendation, passed) ==
  CompleteAttempt(a, recommendation, passed) /\ UNCHANGED pageVars

GenerationFails(a) ==
  /\ attempts[a].status \in {"planning", "generating"}
  /\ FailAttempt(a)
  /\ UNCHANGED pageVars

PublicationStarts == ClaimPublication /\ UNCHANGED pageVars

PublicationEnds(a) == CompletePublication(a, a, a, 1) /\ UNCHANGED pageVars

PublicationFails ==
  /\ publication.status = "publishing"
  /\ FailPublication
  /\ UNCHANGED pageVars

--------------------------------------------------------------------------------

Next ==
  \/ Reload \/ LandLoad \/ LandPublication \/ CancelForm
  \/ \E s \in Fetches : Read(s) \/ FetchFails(s)
  \/ \E s \in Polls : Poll(s) \/ LandPoll(s)
  \/ \E action \in FormActions : OpenForm(action)
  \/ \E action \in Operations : SendCommand(action) \/ OtherTab(action)
  \/ CommandCommits \/ CommandRefused
  \/ \E delivered \in BOOLEAN : LandReply(delivered)
  \/ \E a \in AttemptIds : GenerationStarts(a) \/ GenerationFails(a) \/ PublicationEnds(a)
  \/ \E a \in AttemptIds, recommendation \in Recommendations \ {"none"},
        passed \in BOOLEAN : GenerationEnds(a, recommendation, passed)
  \/ PublicationStarts \/ PublicationFails

Workers ==
  \/ \E a \in AttemptIds : GenerationStarts(a) \/ GenerationFails(a) \/ PublicationEnds(a)
  \/ \E a \in AttemptIds, recommendation \in Recommendations \ {"none"},
        passed \in BOOLEAN : GenerationEnds(a, recommendation, passed)
  \/ PublicationStarts \/ PublicationFails

\* The interval fires, the API answers, of infinitely many answers one arrives, and the
\* workers go on with what they were given.
Fairness ==
  /\ WF_vars(Workers)
  /\ \A s \in Polls : /\ WF_vars(Poll(s))
                      /\ WF_vars(Read(s))
                      /\ SF_vars(LandPoll(s))

Spec == Init /\ [][Next]_vars
FairSpec == Spec /\ Fairness

--------------------------------------------------------------------------------
(* Properties *)

\* The variables have their types.
PageTypeOK ==
  /\ page \in [loading : BOOLEAN, error : BOOLEAN, row : Row, attempts : View,
               pending : FormActions \cup {"none"}, echo : BOOLEAN]
  /\ fetches \in [Fetches -> [state : {"idle", "sent", "half", "answered", "publication"},
                              row : Row, attempts : View]]
  /\ command \in [state : {"idle", "sent", "orphaned", "answered"}, action : Operations,
                  expected : Nat, reply : Row]
  /\ usedKeys \subseteq Keys

\* The page's own rules and the server's tables agree: on the current version, every
\* command the page offers or would submit is one the server takes, in the status
\* and with the evidence it judges them by.  It compares the page's rules, its
\* snapshot of two reads and the merge of a command's answer with the tables of
\* control_plane/state.py; "echo" leaves out what a publication's answer puts on the
\* screen (see StatusOnScreen).
OffersAreLegal ==
  Shown /\ ~ page.echo /\ page.row.version = migration.version =>
    \A action \in Operations : Offered(action) =>
      CASE action = "generate" -> "planning" \in MIGRATION_TRANSITIONS[migration.status]
        [] action = "publish" -> /\ "pr_opening" \in MIGRATION_TRANSITIONS[migration.status]
                                 /\ migration.current # 0
                                 /\ Publishable(migration.current)
        [] OTHER -> ACTION_STATES[action] \in MIGRATION_TRANSITIONS[migration.status]

\* A decision is taken on what its developer saw: when the server commits a
\* publication, approval, revision, snooze or decline that this page sent, the status
\* and the current attempt on the screen, and the evidence of every attempt there, are
\* those of the server at that moment, although they were read by two statements, at
\* another time, and parts of them came from the answers of commands.
DecisionsAreInformed ==
  [][ CommandCommits /\ command.state = "sent" /\ command.action # "generate" =>
        /\ page.row.status = migration.status
        /\ page.row.current = migration.current
        /\ page.attempts = EvidenceNow ]_vars

\* A page that shows work in progress does not show it for ever: a refresh fails, is
\* read just before a change, or overlaps the initial load or a command, and the
\* workers still end what the page waits for.
ProgressEnds == page.row.status \in activeStatuses ~> page.row.status \notin activeStatuses

\* docs/architecture/phase-6-migration-inbox.md: the progress rail shows the state of
\* the migration and active details are refreshed.  Refuted: the answer to a
\* publication carries the publication's status, "queued", and the page takes it for
\* the migration's: it offers to generate, and never refreshes.
StatusOnScreen ==
  Shown /\ page.row.version = migration.version => page.row.status = migration.status

================================================================================
