-------------------------- MODULE MigrationPageProofs --------------------------
(***************************************************************************)
(* The migration page never offers what the server would refuse on the     *)
(* version it shows, and never decides on anything but what it shows, for  *)
(* every number of attempts, commands and refreshes under way.             *)
(***************************************************************************)
EXTENDS MigrationPage, MigrationStoreProofs

\* The statuses that only a GET of the migration puts on the page, with its attempts:
\* no command answers with one of them.
ReadStatuses == {"ready", "blocked", "pr_opened"}

\* A row the page may hold: of an older version, or what the server has now.
FetchType ==
  [state : {"idle", "sent", "half", "answered", "publication"}, row : Row, attempts : View]

PageType ==
  [loading : BOOLEAN, error : BOOLEAN, row : Row, attempts : View,
   pending : FormActions \cup {"none"}, echo : BOOLEAN]

CommandType ==
  [state : {"idle", "sent", "orphaned", "answered"}, action : Operations,
   expected : Nat, reply : Row]

\* What a GET has read is older than the server's version, or is what the server has:
\* the row after its first statement, the evidence too after its second.
SafeFetches ==
  {f \in FetchType :
     /\ f.state \in {"half", "answered"} => f.row.version <= migration.version
     /\ f.state \in {"half", "answered"} /\ f.row.version = migration.version
          => f.row = RowNow
     /\ f.state = "answered" /\ f.row.version = migration.version
          => f.attempts = EvidenceNow}

\* So is what the page shows, but for the answer of a publication ("echo"), whose
\* status is not the migration's, and for the evidence beside a command's answer.
SafePages ==
  {p \in PageType :
     /\ p.row.version <= migration.version
     /\ p.row.version = migration.version /\ ~ p.echo => p.row.status = migration.status
     /\ p.row.version = migration.version /\ ~ p.echo /\ p.row.status \in ReadStatuses
          => p.row.current = migration.current /\ p.attempts = EvidenceNow
     /\ p.echo => p.row.status = "queued"
     /\ p.pending # "none" => ~ p.loading /\ p.row.status \in {"ready", "pr_opened"}}

\* The answer of a command is older than the server's version, or has its status.
SafeCommands ==
  {c \in CommandType :
     c.state = "answered" /\ c.reply # NoRow =>
       /\ c.reply.version <= migration.version
       /\ c.reply.version = migration.version /\ c.action # "publish"
            => c.reply.status = migration.status
       /\ c.reply.status \notin ReadStatuses
       /\ c.action = "publish" => c.reply.status = "queued"}

\* While a command is under way nothing else changes what the page shows: no fetch is.
CommandInv ==
  command.state = "sent" =>
    /\ page.row.version = command.expected
    /\ page.row.status \notin activeStatuses
    /\ ~ page.loading
    /\ command.action # "generate" => page.row.status \in ReadStatuses

\* A refresh is under way only while the page shows work in progress, the initial load
\* only while nothing is shown.
FetchInv ==
  /\ \A s \in Polls : fetches[s].state # "idle" => page.row.status \in activeStatuses
  /\ fetches[0].state # "idle" => page.loading

PageInv ==
  /\ StoreInv /\ migration.version # 0
  /\ page \in SafePages
  /\ fetches \in [Fetches -> SafeFetches]
  /\ command \in SafeCommands
  /\ usedKeys \subseteq Keys
  /\ CommandInv
  /\ FetchInv

--------------------------------------------------------------------------------
(* What the transactions do to what was read *)

\* A transaction leaves the migration and the evidence of its attempts as they were, or
\* gives the migration a new version.
RowsMove ==
  /\ StoreInv' /\ RowsAdvance
  /\ migration' = migration => EvidenceNow' = EvidenceNow

\* A step that leaves the rows, or only moves the publication.
LEMMA RowsStay ==
  ASSUME StoreInv', UNCHANGED <<migration, attempts, records>>
  PROVE  RowsMove
  BY RowsStand DEF RowsMove, EvidenceNow

\* A transaction that moves the migration.
LEMMA NewVersion ==
  ASSUME StoreInv, StoreInv', RowsAdvance, migration'.version # migration.version
  PROVE  RowsMove
  BY DEF RowsMove

\* A command commits on the version its client read, and gives the migration a new one;
\* none of them answers with a status that only a GET shows.
LEMMA CommitMoves ==
  ASSUME StoreInv, NEW action \in Operations, NEW key \in Keys, NEW expected \in Nat,
         Commit(action, key, expected)
  PROVE  /\ RowsMove
         /\ expected = migration.version /\ migration'.version > migration.version
         /\ action = "generate" => migration'.status = "planning"
         /\ action \notin {"generate", "publish"}
              => migration'.status \in MigrationStates \ ReadStatuses
  <1>1. migration.version \in Nat
    BY DEF StoreInv, StoreTypeOK, MigrationRow
  <1>2. CASE action = "generate"
    <2>1. QueueAttempt(key, expected)
      BY <1>2 DEF Commit
    <2>2. /\ migration'.version = migration.version + 1
          /\ migration'.status = "planning" /\ expected = migration.version
      BY <2>1 DEF QueueAttempt, CanQueueAttempt, ValidTransition, MovedMigration
    <2>3. StoreInv' /\ RowsAdvance
      BY <2>1, QueueAttemptInv, QueueAttemptAdvances
    <2> QED
      BY <1>1, <1>2, <2>2, <2>3, NewVersion
  <1>3. CASE action = "publish"
    <2>1. QueuePublication(key, expected)
      BY <1>3 DEF Commit
    <2>2. /\ migration'.version = migration.version + 1 /\ expected = migration.version
      BY <2>1 DEF QueuePublication, CanQueuePublication, ValidTransition, MovedMigration
    <2>3. StoreInv' /\ RowsAdvance
      BY <2>1, QueuePublicationInv, QueuePublicationAdvances
    <2> QED
      BY <1>1, <1>3, <2>2, <2>3, NewVersion
  <1>4. CASE action \notin {"generate", "publish"}
    <2>1. ApplyDeveloperAction(action, key, expected) /\ action \in DeveloperActions
      BY <1>4 DEF Commit, Operations
    <2>2. /\ RowsAdvance /\ migration'.version > migration.version
          /\ expected = migration.version
          /\ migration'.status = ACTION_STATES[action]
      BY <2>1, ApplyDeveloperActionAdvances
    <2>3. ACTION_STATES[action] \in MigrationStates \ ReadStatuses
      BY <2>1 DEF DeveloperActions, ACTION_STATES, MigrationStates, ReadStatuses
    <2>4. StoreInv'
      BY <2>1, ApplyDeveloperActionInv
    <2>5. migration'.version # migration.version
      BY <1>1, <2>2, <2>4 DEF StoreInv, StoreTypeOK, MigrationRow
    <2> QED
      BY <1>4, <2>2, <2>3, <2>4, <2>5, NewVersion
  <1> QED
    BY <1>2, <1>3, <1>4

\* The generation worker moves the migration, or fails an attempt whose evidence could
\* not be published before and cannot now.
LEMMA GenerationMoves ==
  ASSUME StoreInv, NEW a \in AttemptIds,
         \/ ClaimAttempt(a)
         \/ \E recommendation \in DeveloperActions, passed \in BOOLEAN :
              CompleteAttempt(a, recommendation, passed)
         \/ FailAttempt(a)
  PROVE  RowsMove
  <1>1. /\ migration.version \in Nat /\ attempts \in [AttemptIds -> AttemptRow]
    BY DEF StoreInv, StoreTypeOK, MigrationRow
  <1>2. RowsAdvance
    BY GenerationAdvances
  <1>3. CASE ClaimAttempt(a)
    <2>1. StoreInv'
      BY <1>3, ClaimAttemptInv
    <2>2. migration'.version = migration.version + 1
      BY <1>3 DEF ClaimAttempt, MovedMigration
    <2> QED
      BY <1>1, <1>2, <2>1, <2>2, NewVersion
  <1>4. CASE \E recommendation \in DeveloperActions, passed \in BOOLEAN :
               CompleteAttempt(a, recommendation, passed)
    <2>1. PICK recommendation \in DeveloperActions, passed \in BOOLEAN :
            CompleteAttempt(a, recommendation, passed)
      BY <1>4
    <2>2. StoreInv'
      BY <2>1, CompleteAttemptInv
    <2>3. migration'.version = migration.version + 2
      BY <2>1 DEF CompleteAttempt, MovedMigration
    <2> QED
      BY <1>1, <1>2, <2>2, <2>3, NewVersion
  <1>5. CASE FailAttempt(a)
    <2>1. StoreInv'
      BY <1>5, FailAttemptInv
    <2>2. EvidenceNow' = EvidenceNow
      <3>1. CASE UNCHANGED storeVars
        BY <3>1 DEF storeVars, EvidenceNow
      <3>2. CASE ~ UNCHANGED storeVars
        <4>1. /\ attempts[a].status # "absent"
              /\ "failed" \in AttemptTable[attempts[a].status]
              /\ attempts' = [attempts EXCEPT ![a] = MovedAttempt(attempts[a], "failed", 1)]
          BY <1>5, <3>2 DEF FailAttempt
        <4>2. attempts[a].status \notin {"absent", "completed"}
          BY <1>1, <4>1, AttemptEdges DEF AttemptRow
        <4>3. attempts'[a].status = "failed"
              /\ \A b \in AttemptIds \ {a} : attempts'[b] = attempts[b]
          BY <1>1, <4>1 DEF MovedAttempt, AttemptRow
        <4>4. \A b \in AttemptIds : Evidence(attempts'[b]) = Evidence(attempts[b])
          BY <4>2, <4>3 DEF Evidence
        <4> QED
          BY <4>4 DEF EvidenceNow
      <3> QED
        BY <3>1, <3>2
    <2> QED
      BY <1>2, <2>1, <2>2 DEF RowsMove
  <1> QED
    BY <1>3, <1>4, <1>5

\* The publication worker ends a publication, and moves the migration or leaves it.
LEMMA PublicationMoves ==
  ASSUME StoreInv,
         \/ ClaimPublication
         \/ FailPublication
         \/ \E a \in AttemptIds : CompletePublication(a, a, a, 1)
  PROVE  RowsMove
  <1>1. CASE ClaimPublication
    BY <1>1, ClaimPublicationInv, RowsStay DEF ClaimPublication
  <1>2. CASE FailPublication
    <2>1. StoreInv' /\ RowsAdvance
      BY <1>2, FailPublicationInv, PublicationAdvances
    <2>2. attempts' = attempts
      BY <1>2 DEF FailPublication, storeVars
    <2> QED
      BY <2>1, <2>2 DEF RowsMove, EvidenceNow
  <1>3. CASE \E a \in AttemptIds : CompletePublication(a, a, a, 1)
    <2>1. PICK a \in AttemptIds : CompletePublication(a, a, a, 1)
      BY <1>3
    <2>2. a \in AttemptIdOrNull /\ 1 \in Nat
      BY MaxAttemptsAssumption DEF AttemptIds, AttemptIdOrNull
    <2>3. StoreInv' /\ RowsAdvance
      BY <2>1, <2>2, CompletePublicationInv, PublicationAdvances
    <2>4. attempts' = attempts
      BY <2>1 DEF CompletePublication
    <2> QED
      BY <2>3, <2>4 DEF RowsMove, EvidenceNow
  <1> QED
    BY <1>1, <1>2, <1>3

\* What was read before a transaction is as good after it: the migration has a newer
\* version, or is still what it was.
LEMMA ReadsStand ==
  ASSUME StoreInv, migration.version # 0, RowsMove
  PROVE  /\ migration'.version # 0
         /\ \A f \in SafeFetches : f \in SafeFetches'
         /\ \A p \in SafePages : p \in SafePages'
         /\ \A c \in SafeCommands : c \in SafeCommands'
  <1>1. migration.version \in Nat /\ migration'.version \in Nat
    BY DEF StoreInv, StoreTypeOK, MigrationRow, RowsMove
  <1>2. CASE migration' = migration
    <2>1. RowNow' = RowNow /\ EvidenceNow' = EvidenceNow
      BY <1>2 DEF RowsMove, RowNow
    <2> QED
      BY <1>2, <2>1 DEF SafeFetches, SafePages, SafeCommands
  <1>3. CASE migration' # migration
    <2>1. migration'.version > migration.version
      BY <1>3 DEF RowsMove, RowsAdvance
    <2>2. \A v \in Nat : v <= migration.version =>
            v <= migration'.version /\ v # migration'.version
      BY <1>1, <2>1
    <2>3. \A f \in SafeFetches : f \in FetchType /\ f.row.version \in Nat
      BY DEF SafeFetches, FetchType, Row
    <2>4. \A p \in SafePages : p \in PageType /\ p.row.version \in Nat
      BY DEF SafePages, PageType, Row
    <2>5. \A c \in SafeCommands : c \in CommandType /\ c.reply.version \in Nat
      BY DEF SafeCommands, CommandType, Row
    <2>6. \A f \in SafeFetches : f \in SafeFetches'
      BY <2>2, <2>3 DEF SafeFetches
    <2>7. \A p \in SafePages : p \in SafePages'
      BY <2>2, <2>4 DEF SafePages
    <2>8. \A c \in SafeCommands : c \in SafeCommands'
      BY <2>2, <2>5 DEF SafeCommands
    <2> QED
      BY <1>1, <2>1, <2>6, <2>7, <2>8
  <1> QED
    BY <1>2, <1>3

--------------------------------------------------------------------------------
(* The page's own steps *)

\* A step that leaves the rows leaves what is safe.
LEMMA PageStep ==
  ASSUME PageInv, UNCHANGED storeVars,
         page' \in SafePages, fetches' \in [Fetches -> SafeFetches],
         command' \in SafeCommands, usedKeys' = usedKeys, CommandInv', FetchInv'
  PROVE  PageInv'
  <1>1. StoreInv' /\ migration'.version # 0
    BY StoreUnchangedInv DEF PageInv, storeVars
  <1>2. SafePages' = SafePages /\ SafeFetches' = SafeFetches /\ SafeCommands' = SafeCommands
    BY DEF storeVars, SafePages, SafeFetches, SafeCommands, RowNow, EvidenceNow
  <1> QED
    BY <1>1, <1>2 DEF PageInv

\* No fetch but the one that is named ever changes, other than to be aborted.
LEMMA IdleFetch == NoFetch \in SafeFetches /\ NoRow \in Row /\ NothingShown \in View
  <1>1. NoRow \in Row
    BY MaxAttemptsAssumption DEF NoRow, Row, AttemptIdOrNull
  <1>2. NothingShown \in View
    BY DEF NothingShown, View, EvidenceClasses
  <1> QED
    BY <1>1, <1>2 DEF NoFetch, SafeFetches, FetchType

\* A fetch at rest or just sent shows nothing that could be stale.
LEMMA SentFetch ==
  ASSUME NEW f \in FetchType, f.state \in {"idle", "sent", "publication"}
  PROVE  f \in SafeFetches
  BY DEF SafeFetches

\* What is on screen and under way at first, and after a reload.
LEMMA FreshIsSafe ==
  ASSUME StoreInv, migration.version # 0
  PROVE  /\ FreshPage \in SafePages /\ Loading \in [Fetches -> SafeFetches]
         /\ NoCommand \in SafeCommands
         /\ FreshPage.loading /\ \A s \in Polls : Loading[s].state = "idle"
  <1>1. migration.version \in Nat
    BY DEF StoreInv, StoreTypeOK, MigrationRow
  <1>2. FreshPage \in SafePages
    BY <1>1, IdleFetch DEF FreshPage, SafePages, PageType, NoRow
  <1>3. [NoFetch EXCEPT !.state = "sent"] \in SafeFetches
    BY IdleFetch, SentFetch DEF NoFetch, FetchType
  <1>4. Loading \in [Fetches -> SafeFetches]
    BY <1>3, IdleFetch DEF Loading
  <1>5. NoCommand \in SafeCommands
    BY IdleFetch DEF NoCommand, SafeCommands, CommandType, Operations
  <1>6. \A s \in Polls : Loading[s].state = "idle"
    BY DEF Loading, Polls, Fetches, NoFetch
  <1> QED
    BY <1>2, <1>4, <1>5, <1>6 DEF FreshPage

\* The fetches that a new status leaves: none but the initial load.
LEMMA PollsAfterSafe ==
  ASSUME PageInv, NEW old, NEW new
  PROVE  /\ PollsAfter(old, new) \in [Fetches -> SafeFetches]
         /\ PollsAfter(old, new)[0] = fetches[0]
         /\ \A s \in Polls : /\ s \in Fetches /\ s # 0
                             /\ PollsAfter(old, new)[s].state # "idle"
                                  => old = new /\ fetches[s].state # "idle"
  <1>1. 0 \in Fetches /\ \A s \in Polls : s \in Fetches /\ s # 0
    BY MaxPollsAssumption DEF Fetches, Polls
  <1>2. PollsAfter(old, new) \in [Fetches -> SafeFetches]
    BY IdleFetch DEF PageInv, PollsAfter
  <1>3. PollsAfter(old, new)[0] = fetches[0]
    BY <1>1 DEF PollsAfter
  <1>4. \A s \in Polls : PollsAfter(old, new)[s].state # "idle"
                           => old = new /\ fetches[s].state # "idle"
    BY <1>1 DEF PollsAfter, NoFetch
  <1> QED
    BY <1>1, <1>2, <1>3, <1>4

\* get_migration's next statement reads what there is now.
LEMMA ReadInv ==
  ASSUME PageInv, NEW s \in Fetches, Read(s)
  PROVE  PageInv'
  <1> DEFINE f == fetches[s]
             g == NextStatement(f)
  <1>1. /\ f \in SafeFetches /\ f \in FetchType /\ f.state \in {"sent", "half"}
    BY DEF Read, PageInv, SafeFetches
  <1>2. /\ migration.version \in Nat /\ RowNow \in Row /\ RowNow.version = migration.version
    BY DEF PageInv, StoreInv, StoreTypeOK, MigrationRow, DataMirrorsColumns, RowNow, Row
  <1>3. EvidenceNow \in View
    BY DEF EvidenceNow, View, Evidence, EvidenceClasses
  <1>4. g \in SafeFetches /\ g.state # "idle"
    <2>1. CASE f.state = "sent"
      <3>1. g = [f EXCEPT !.state = "half", !.row = RowNow]
        BY <2>1 DEF NextStatement
      <3>2. g \in FetchType /\ g.state = "half" /\ g.row = RowNow
        BY <1>1, <1>2, <3>1 DEF FetchType
      <3> HIDE DEF g
      <3> QED
        BY <1>2, <3>2 DEF SafeFetches
    <2>2. CASE f.state = "half"
      <3>1. g = [f EXCEPT !.state = "answered", !.attempts = EvidenceNow]
        BY <2>2 DEF NextStatement
      <3>2. g \in FetchType /\ g.state = "answered" /\ g.row = f.row
            /\ g.attempts = EvidenceNow
        BY <1>1, <1>3, <3>1 DEF FetchType
      <3> HIDE DEF g
      <3> QED
        BY <1>1, <2>2, <3>2 DEF SafeFetches
    <2> QED
      BY <1>1, <2>1, <2>2
  <1>5. /\ fetches' = [fetches EXCEPT ![s] = g]
        /\ UNCHANGED <<storeVars, page, command, usedKeys>>
    BY DEF Read
  <1>6. f.state # "idle"
    BY <1>1
  <1> HIDE DEF g
  <1>7. fetches' \in [Fetches -> SafeFetches]
    BY <1>4, <1>5 DEF PageInv
  <1>8. FetchInv'
    <2>1. \A r \in Fetches : fetches'[r].state # "idle" => fetches[r].state # "idle"
      BY <1>4, <1>5, <1>6 DEF PageInv
    <2>2. 0 \in Fetches /\ Polls \subseteq Fetches
      BY MaxPollsAssumption DEF Fetches, Polls
    <2> QED
      BY <1>5, <2>1, <2>2 DEF PageInv, FetchInv
  <1> QED
    BY <1>5, <1>7, <1>8, PageStep DEF PageInv, CommandInv

\* A reload shows nothing and forgets what was to come.
LEMMA ReloadInv ==
  ASSUME PageInv, Reload
  PROVE  PageInv'
  <1>1. /\ page' = FreshPage /\ fetches' = Loading /\ UNCHANGED <<storeVars, usedKeys>>
    BY DEF Reload
  <1>2. command' \in SafeCommands /\ command'.state # "sent"
    <2>1. CASE command.state = "sent"
      BY <2>1 DEF Reload, PageInv, SafeCommands, CommandType
    <2>2. CASE command.state # "sent"
      BY <2>2, FreshIsSafe DEF Reload, PageInv, NoCommand
    <2> QED
      BY <2>1, <2>2
  <1>3. CommandInv' /\ FetchInv'
    BY <1>1, <1>2, FreshIsSafe DEF CommandInv, FetchInv, PageInv
  <1> QED
    BY <1>1, <1>2, <1>3, FreshIsSafe, PageStep DEF PageInv

\* What a GET has read, put on the screen.
LEMMA LandedPage ==
  ASSUME PageInv, NEW s \in Fetches, fetches[s].state = "answered",
         page.pending = "none",
         page' = [page EXCEPT !.row = fetches[s].row, !.attempts = fetches[s].attempts,
                              !.echo = FALSE]
  PROVE  /\ page' \in SafePages /\ page'.loading = page.loading
         /\ page'.row = fetches[s].row
  <1>1. fetches[s] \in FetchType /\ page \in PageType /\ fetches[s] \in SafeFetches
    BY DEF PageInv, SafeFetches, SafePages
  <1>2. /\ page' \in PageType /\ page'.row = fetches[s].row
        /\ page'.attempts = fetches[s].attempts /\ ~ page'.echo
        /\ page'.pending = "none" /\ page'.loading = page.loading
    BY <1>1 DEF PageType, FetchType
  <1>3. /\ RowNow.version = migration.version /\ RowNow.status = migration.status
        /\ RowNow.current = migration.current
    BY DEF PageInv, StoreInv, DataMirrorsColumns, RowNow
  <1>4. page' \in SafePages
    BY <1>1, <1>2, <1>3 DEF SafePages, SafeFetches
  <1> QED
    BY <1>2, <1>4

\* The initial load lands on a page where nothing is decided yet.
LEMMA LandLoadInv ==
  ASSUME PageInv, LandLoad
  PROVE  PageInv'
  <1> DEFINE f == fetches[0]
             pub == [NoFetch EXCEPT !.state = "publication"]
             after == PollsAfter(page.row.status, f.row.status)
  <1>1. /\ 0 \in Fetches /\ f.state = "answered"
        /\ page' = [page EXCEPT !.row = f.row, !.attempts = f.attempts, !.echo = FALSE]
        /\ fetches' = [after EXCEPT ![0] = pub]
        /\ UNCHANGED <<storeVars, command, usedKeys>>
    BY MaxPollsAssumption DEF LandLoad, Fetches
  <1>2. page.loading /\ page.pending = "none" /\ command.state # "sent"
    BY <1>1 DEF PageInv, FetchInv, CommandInv, SafePages
  <1>3. page' \in SafePages /\ page'.loading /\ page'.row = f.row
    BY <1>1, <1>2, LandedPage
  <1>4. pub \in SafeFetches
    BY IdleFetch, SentFetch DEF NoFetch, FetchType
  <1>5. /\ after \in [Fetches -> SafeFetches]
        /\ \A s \in Polls : /\ s \in Fetches /\ s # 0
                            /\ after[s].state # "idle"
                                 => /\ page.row.status = f.row.status
                                    /\ fetches[s].state # "idle"
    BY PollsAfterSafe
  <1> HIDE DEF after, pub
  <1>6. fetches' \in [Fetches -> SafeFetches]
    BY <1>1, <1>4, <1>5
  <1>7. FetchInv'
    BY <1>1, <1>3, <1>5 DEF PageInv, FetchInv
  <1> QED
    BY <1>1, <1>2, <1>3, <1>6, <1>7, PageStep DEF PageInv, CommandInv

\* The fetches when one of them ends and the others stay.
LEMMA FetchEnds ==
  ASSUME PageInv, NEW s \in Fetches, fetches' = [fetches EXCEPT ![s] = NoFetch],
         page'.row = page.row, s # 0 => page'.loading = page.loading
  PROVE  fetches' \in [Fetches -> SafeFetches] /\ FetchInv'
  <1>1. fetches' \in [Fetches -> SafeFetches]
    BY IdleFetch DEF PageInv
  <1>2. 0 \in Fetches /\ Polls \subseteq Fetches
    BY MaxPollsAssumption DEF Fetches, Polls
  <1>3. \A r \in Fetches : fetches'[r].state # "idle" => r # s /\ fetches[r].state # "idle"
    BY DEF PageInv, NoFetch
  <1> QED
    BY <1>1, <1>2, <1>3 DEF PageInv, FetchInv

\* The change and the publication are there: the page shows what it has.
LEMMA LandPublicationInv ==
  ASSUME PageInv, LandPublication
  PROVE  PageInv'
  <1>1. /\ 0 \in Fetches /\ fetches[0].state = "publication"
        /\ page' = [page EXCEPT !.error = FALSE, !.loading = FALSE]
        /\ fetches' = [fetches EXCEPT ![0] = NoFetch]
        /\ UNCHANGED <<storeVars, command, usedKeys>>
    BY MaxPollsAssumption DEF LandPublication, Fetches
  <1>2. page.loading /\ page.pending = "none" /\ command.state # "sent"
    BY <1>1 DEF PageInv, FetchInv, CommandInv, SafePages
  <1>3. page' \in SafePages /\ page'.row = page.row
    BY <1>1, <1>2 DEF PageInv, SafePages, PageType
  <1>4. fetches' \in [Fetches -> SafeFetches] /\ FetchInv'
    BY <1>1, <1>3, FetchEnds
  <1> QED
    BY <1>1, <1>2, <1>3, <1>4, PageStep DEF PageInv, CommandInv

\* A fetch that fails leaves what was read and puts a message over it.
LEMMA FetchFailsInv ==
  ASSUME PageInv, NEW s \in Fetches, FetchFails(s)
  PROVE  PageInv'
  <1>1. /\ fetches[s].state # "idle"
        /\ page' = [page EXCEPT !.error = TRUE, !.loading = IF s = 0 THEN FALSE ELSE @]
        /\ fetches' = [fetches EXCEPT ![s] = NoFetch]
        /\ UNCHANGED <<storeVars, command, usedKeys>>
    BY DEF FetchFails
  <1>2. page \in PageType
    BY DEF PageInv, SafePages
  <1>3. /\ page' \in PageType /\ page'.row = page.row /\ page'.attempts = page.attempts
        /\ page'.pending = page.pending /\ page'.echo = page.echo
        /\ page'.loading = IF s = 0 THEN FALSE ELSE page.loading
    BY <1>1, <1>2 DEF PageType
  <1>4. page' \in SafePages
    BY <1>3 DEF PageInv, SafePages
  <1>5. fetches' \in [Fetches -> SafeFetches] /\ FetchInv'
    BY <1>1, <1>3, FetchEnds
  <1>6. CommandInv'
    BY <1>1, <1>3 DEF PageInv, CommandInv
  <1> QED
    BY <1>1, <1>4, <1>5, <1>6, PageStep DEF PageInv

\* A refresh starts while the page shows work in progress.
LEMMA PollInv ==
  ASSUME PageInv, NEW s \in Polls, Poll(s)
  PROVE  PageInv'
  <1> DEFINE g == [fetches[s] EXCEPT !.state = "sent"]
  <1>1. /\ page.row.status \in activeStatuses /\ s \in Fetches /\ s # 0
        /\ fetches' = [fetches EXCEPT ![s] = g]
        /\ UNCHANGED <<storeVars, page, command, usedKeys>>
    BY MaxPollsAssumption DEF Poll, Refreshing, Polls, Fetches
  <1>2. g \in FetchType /\ g.state = "sent"
    BY <1>1 DEF PageInv, SafeFetches, FetchType
  <1>3. g \in SafeFetches
    BY <1>2, SentFetch
  <1> HIDE DEF g
  <1>4. fetches' \in [Fetches -> SafeFetches]
    BY <1>1, <1>3 DEF PageInv
  <1>5. FetchInv'
    <2>1. \A r \in Fetches \ {s} : fetches'[r] = fetches[r]
      BY <1>1 DEF PageInv
    <2>2. 0 \in Fetches /\ Polls \subseteq Fetches
      BY MaxPollsAssumption DEF Fetches, Polls
    <2> QED
      BY <1>1, <2>1, <2>2 DEF PageInv, FetchInv
  <1> QED
    BY <1>1, <1>4, <1>5, PageStep DEF PageInv, CommandInv

\* A refresh lands: only a page that shows work in progress has one, and that page has
\* no command under way and no form open.
LEMMA LandPollInv ==
  ASSUME PageInv, NEW s \in Polls, LandPoll(s)
  PROVE  PageInv'
  <1> DEFINE f == fetches[s]
             after == PollsAfter(page.row.status, f.row.status)
  <1>1. /\ s \in Fetches /\ s # 0 /\ f.state = "answered"
        /\ page' = [page EXCEPT !.row = f.row, !.attempts = f.attempts, !.echo = FALSE]
        /\ fetches' = [after EXCEPT ![s] = NoFetch]
        /\ UNCHANGED <<storeVars, command, usedKeys>>
    BY MaxPollsAssumption DEF LandPoll, Polls, Fetches
  <1>2. page.row.status \in activeStatuses
    BY <1>1 DEF PageInv, FetchInv
  <1>3. page.pending = "none" /\ command.state # "sent"
    BY <1>2 DEF PageInv, CommandInv, SafePages, activeStatuses
  <1>4. page' \in SafePages /\ page'.loading = page.loading /\ page'.row = f.row
    BY <1>1, <1>3, LandedPage
  <1>5. /\ after \in [Fetches -> SafeFetches] /\ after[0] = fetches[0]
        /\ \A r \in Polls : /\ r \in Fetches /\ r # 0
                            /\ after[r].state # "idle"
                                 => /\ page.row.status = f.row.status
                                    /\ fetches[r].state # "idle"
    BY PollsAfterSafe
  <1> HIDE DEF after
  <1>6. fetches' \in [Fetches -> SafeFetches]
    BY <1>1, <1>5, IdleFetch
  <1>7. FetchInv'
    <2>1. fetches'[0] = fetches[0]
      BY <1>1, <1>5, MaxPollsAssumption DEF Fetches
    <2>2. \A r \in Polls : fetches'[r].state # "idle" => after[r].state # "idle"
      BY <1>1, <1>5 DEF NoFetch
    <2> QED
      BY <1>2, <1>4, <1>5, <2>1, <2>2 DEF PageInv, FetchInv
  <1> QED
    BY <1>1, <1>3, <1>4, <1>6, <1>7, PageStep DEF PageInv, CommandInv

\* A form opens on a page where the developer can decide, and closes.
LEMMA FormInv ==
  ASSUME PageInv, CancelForm \/ \E action \in FormActions : OpenForm(action)
  PROVE  PageInv'
  <1>1. PICK pending \in FormActions \cup {"none"} :
          /\ page' = [page EXCEPT !.pending = pending]
          /\ pending # "none" => Shown /\ canDecide
          /\ UNCHANGED <<storeVars, fetches, command, usedKeys>>
    <2>1. CASE CancelForm
      BY <2>1 DEF CancelForm
    <2>2. CASE \E action \in FormActions : OpenForm(action)
      BY <2>2 DEF OpenForm
    <2> QED
      BY <2>1, <2>2
  <1>2. page \in PageType
    BY DEF PageInv, SafePages
  <1>3. /\ page' \in PageType /\ page'.row = page.row /\ page'.attempts = page.attempts
        /\ page'.pending = pending /\ page'.echo = page.echo
        /\ page'.loading = page.loading
    BY <1>1, <1>2 DEF PageType
  <1>4. page' \in SafePages
    BY <1>1, <1>3 DEF PageInv, SafePages, Shown, canDecide
  <1>5. CommandInv' /\ FetchInv'
    BY <1>1, <1>3 DEF PageInv, CommandInv, FetchInv
  <1> QED
    BY <1>1, <1>4, <1>5, PageStep DEF PageInv

--------------------------------------------------------------------------------
(* Commands *)

\* A command is offered where nothing is in progress, and a decision only on a status
\* that was read with the attempts.
LEMMA OfferedWhere ==
  ASSUME PageInv, NEW action \in Operations, Offered(action)
  PROVE  /\ page.row.status \notin activeStatuses
         /\ action # "generate" => page.row.status \in ReadStatuses
  <1>1. action \in FormActions /\ page.pending = action
          => page.row.status \in {"ready", "pr_opened"}
    BY DEF PageInv, SafePages, FormActions
  <1> QED
    BY <1>1 DEF Offered, canPublish, canGenerate, activeStatuses, ReadStatuses

\* execute sends the version on screen.
LEMMA SendCommandInv ==
  ASSUME PageInv, NEW action \in Operations, SendCommand(action)
  PROVE  PageInv'
  <1>1. /\ command' = [NoCommand EXCEPT !.state = "sent", !.action = action,
                                        !.expected = page.row.version]
        /\ ~ page.loading /\ Offered(action)
        /\ UNCHANGED <<storeVars, page, fetches, usedKeys>>
    BY DEF SendCommand, Shown
  <1>2. page.row.version \in Nat
    BY DEF PageInv, SafePages, PageType, Row
  <1>3. /\ command' \in CommandType /\ command'.state = "sent"
        /\ command'.action = action /\ command'.expected = page.row.version
    BY <1>1, <1>2, IdleFetch DEF NoCommand, CommandType
  <1>4. command' \in SafeCommands
    BY <1>3 DEF SafeCommands
  <1>5. CommandInv'
    BY <1>1, <1>3, OfferedWhere DEF CommandInv
  <1> QED
    BY <1>1, <1>4, <1>5, PageStep DEF PageInv, FetchInv

\* A refusal is answered with no row.
LEMMA CommandRefusedInv ==
  ASSUME PageInv, CommandRefused
  PROVE  PageInv'
  <1>1. command' = Answered(NoRow) /\ UNCHANGED <<storeVars, page, fetches, usedKeys>>
    BY DEF CommandRefused
  <1>2. command' \in SafeCommands /\ command'.state # "sent"
    <2>1. CASE command.state = "orphaned"
      BY <1>1, <2>1, FreshIsSafe DEF Answered, PageInv, NoCommand
    <2>2. CASE command.state # "orphaned"
      <3>1. command' = [command EXCEPT !.state = "answered", !.expected = 0,
                                       !.reply = NoRow]
        BY <1>1, <2>2 DEF Answered
      <3>2. command \in CommandType
        BY DEF PageInv, SafeCommands
      <3>3. /\ command' \in CommandType /\ command'.state = "answered"
            /\ command'.reply = NoRow
        BY <3>1, <3>2, IdleFetch DEF CommandType
      <3> QED
        BY <3>3 DEF SafeCommands
    <2> QED
      BY <2>1, <2>2
  <1> QED
    BY <1>1, <1>2, PageStep DEF PageInv, CommandInv, FetchInv

\* The answer of a command is merged over what is shown; a lost one is a message.
LEMMA LandReplyInv ==
  ASSUME PageInv, NEW delivered \in BOOLEAN, LandReply(delivered)
  PROVE  PageInv'
  <1> DEFINE ok == delivered /\ command.reply # NoRow
             row == IF ok THEN Merged(page.row, command.reply) ELSE page.row
             after == PollsAfter(page.row.status, row.status)
  <1>1. /\ command.state = "answered"
        /\ page' = [page EXCEPT !.row = row, !.pending = PendingAfter(ok),
                                !.echo = IF ok THEN command.action = "publish" ELSE @]
        /\ fetches' = after /\ command' = NoCommand
        /\ UNCHANGED <<storeVars, usedKeys>>
    BY DEF LandReply
  <1>2. page \in PageType /\ command \in CommandType
    BY DEF PageInv, SafePages, SafeCommands
  <1>3. row \in Row
    BY <1>2 DEF Merged, PageType, CommandType, Row
  <1>4. /\ page' \in PageType /\ page'.row = row /\ page'.loading = page.loading
        /\ page'.attempts = page.attempts /\ page'.pending = PendingAfter(ok)
        /\ page'.echo = IF ok THEN command.action = "publish" ELSE page.echo
    <2>1. PendingAfter(ok) \in FormActions \cup {"none"}
      BY <1>2 DEF PendingAfter, PageType
    <2>2. (IF ok THEN command.action = "publish" ELSE page.echo) \in BOOLEAN
      BY <1>2 DEF PageType
    <2> HIDE DEF ok, row
    <2> QED
      BY <1>1, <1>2, <1>3, <2>1, <2>2 DEF PageType
  <1>5. page' \in SafePages
    <2>1. CASE ok
      <3>1. /\ page'.row.version = command.reply.version
            /\ page'.row.status = command.reply.status
            /\ page'.pending = "none" /\ page'.echo = (command.action = "publish")
        BY <1>4, <2>1 DEF Merged, PendingAfter
      <3>2. /\ command.reply.version <= migration.version
            /\ command.reply.version = migration.version /\ command.action # "publish"
                 => command.reply.status = migration.status
            /\ command.reply.status \notin ReadStatuses
            /\ command.action = "publish" => command.reply.status = "queued"
        BY <1>1, <2>1 DEF PageInv, SafeCommands
      <3> QED
        BY <1>4, <3>1, <3>2 DEF SafePages
    <2>2. CASE ~ ok
      <3>1. /\ page'.row = page.row /\ page'.pending = page.pending
            /\ page'.echo = page.echo
        BY <1>4, <2>2 DEF PendingAfter
      <3> QED
        BY <1>4, <3>1 DEF PageInv, SafePages
    <2> QED
      BY <2>1, <2>2
  <1>6. fetches' \in [Fetches -> SafeFetches] /\ FetchInv'
    <2>1. /\ after \in [Fetches -> SafeFetches] /\ after[0] = fetches[0]
          /\ \A s \in Polls : after[s].state # "idle"
                                => /\ page.row.status = row.status
                                   /\ fetches[s].state # "idle"
      BY PollsAfterSafe
    <2> HIDE DEF after, row
    <2> QED
      BY <1>1, <1>4, <2>1 DEF PageInv, FetchInv
  <1>7. command' \in SafeCommands /\ command'.state # "sent"
    BY <1>1, FreshIsSafe DEF PageInv, NoCommand
  <1> QED
    BY <1>1, <1>5, <1>6, <1>7, PageStep DEF CommandInv

\* An idempotency key that was not drawn yet.
LEMMA FreshKeyIsAKey ==
  ASSUME PageInv, usedKeys # Keys
  PROVE  FreshKey \in Keys
  <1>1. \E key \in Keys \ usedKeys : TRUE
    BY DEF PageInv
  <1> QED
    BY <1>1 DEF FreshKey

\* The server takes a command: its answer is the migration as it is now.
LEMMA CommandCommitsInv ==
  ASSUME PageInv, CommandCommits
  PROVE  PageInv'
  <1> DEFINE action == command.action
             reply == Reply(action)
  <1>1. /\ usedKeys # Keys /\ Commit(action, FreshKey, command.expected)
        /\ usedKeys' = usedKeys \cup {FreshKey} /\ command' = Answered(reply)
        /\ UNCHANGED <<page, fetches>>
    BY DEF CommandCommits
  <1>2. /\ command \in CommandType /\ action \in Operations
        /\ command.expected \in Nat /\ FreshKey \in Keys
    BY <1>1, FreshKeyIsAKey DEF PageInv, SafeCommands, CommandType
  <1>3. /\ RowsMove /\ migration'.version > migration.version
        /\ action = "generate" => migration'.status = "planning"
        /\ action \notin {"generate", "publish"}
             => migration'.status \in MigrationStates \ ReadStatuses
    BY <1>1, <1>2, CommitMoves DEF PageInv
  <1>4. StoreInv' /\ migration'.version # 0
    BY <1>3, ReadsStand DEF PageInv, RowsMove
  <1>5. page' \in SafePages' /\ fetches' \in [Fetches -> SafeFetches']
    BY <1>1, <1>3, ReadsStand DEF PageInv
  <1>6. /\ migration'.version \in Nat
        /\ migration'.data.status = migration'.status
        /\ migration'.data.version = migration'.version
        /\ migration'.data.current = migration'.current
        /\ migration'.current \in AttemptIdOrNull
    BY <1>4 DEF StoreInv, StoreTypeOK, MigrationRow, DataMirrorsColumns
  <1>7. /\ reply \in Row /\ reply.version = migration'.version
        /\ action # "publish" => reply.status = migration'.status
        /\ action = "publish" => reply.status = "queued"
        /\ reply.status \notin ReadStatuses
    <2>1. 0 \in AttemptIdOrNull
      BY MaxAttemptsAssumption DEF AttemptIdOrNull
    <2>2. CASE action = "generate"
      BY <1>3, <1>6, <2>1, <2>2 DEF Reply, Row, MigrationStates, ReadStatuses
    <2>3. CASE action = "publish"
      BY <1>6, <2>1, <2>3 DEF Reply, Row, MigrationStates, ReadStatuses
    <2>4. CASE action \notin {"generate", "publish"}
      BY <1>3, <1>6, <2>4 DEF Reply, Row
    <2> QED
      BY <2>2, <2>3, <2>4
  <1> HIDE DEF reply
  <1>8. command' \in SafeCommands' /\ command'.state # "sent"
    <2>1. CASE command.state = "orphaned"
      <3>1. command' = NoCommand
        BY <1>1, <2>1 DEF Answered
      <3>2. NoCommand \in CommandType /\ NoCommand.state = "idle"
        BY IdleFetch DEF NoCommand, CommandType, Operations
      <3> QED
        BY <3>1, <3>2 DEF SafeCommands
    <2>2. CASE command.state # "orphaned"
      <3>1. command' = [command EXCEPT !.state = "answered", !.expected = 0,
                                       !.reply = reply]
        BY <1>1, <2>2 DEF Answered
      <3>2. /\ command' \in CommandType /\ command'.state = "answered"
            /\ command'.reply = reply /\ command'.action = action
        BY <1>2, <1>7, <3>1 DEF CommandType
      <3>3. reply.version <= migration'.version
        BY <1>6, <1>7
      <3> QED
        BY <1>7, <3>2, <3>3 DEF SafeCommands
    <2> QED
      BY <2>1, <2>2
  <1>9. CommandInv' /\ FetchInv' /\ usedKeys' \subseteq Keys
    BY <1>1, <1>2, <1>8 DEF PageInv, CommandInv, FetchInv
  <1> QED
    BY <1>4, <1>5, <1>8, <1>9 DEF PageInv

\* Another tab, or a worker: the rows move and the page stays.
LEMMA OthersInv ==
  ASSUME PageInv, RowsMove, UNCHANGED <<page, fetches, command>>, usedKeys' \subseteq Keys
  PROVE  PageInv'
  <1>1. StoreInv' /\ migration'.version # 0
    BY ReadsStand DEF PageInv, RowsMove
  <1>2. /\ page' \in SafePages' /\ fetches' \in [Fetches -> SafeFetches']
        /\ command' \in SafeCommands'
    BY ReadsStand DEF PageInv
  <1> QED
    BY <1>1, <1>2 DEF PageInv, CommandInv, FetchInv

\* The other tab's command and the six transactions of the workers.
LEMMA ServerStepInv ==
  ASSUME PageInv, Workers \/ \E action \in Operations : OtherTab(action)
  PROVE  PageInv'
  <1>1. CASE \E action \in Operations : OtherTab(action)
    <2>1. PICK action \in Operations : OtherTab(action)
      BY <1>1
    <2>2. FreshKey \in Keys /\ migration.version \in Nat
      BY <2>1, FreshKeyIsAKey DEF OtherTab, PageInv, StoreInv, StoreTypeOK, MigrationRow
    <2>3. RowsMove
      BY <2>1, <2>2, CommitMoves DEF OtherTab, PageInv
    <2> QED
      BY <2>1, <2>2, <2>3, OthersInv DEF OtherTab, PageInv
  <1>2. CASE Workers
    <2>1. UNCHANGED pageVars
      BY <1>2 DEF Workers, GenerationStarts, GenerationFails, GenerationEnds,
                  PublicationStarts, PublicationEnds, PublicationFails
    <2>2. RowsMove
      <3>1. ASSUME NEW a \in AttemptIds, GenerationStarts(a) \/ GenerationFails(a)
            PROVE  RowsMove
        BY <3>1, GenerationMoves DEF GenerationStarts, GenerationFails, PageInv
      <3>2. ASSUME NEW a \in AttemptIds, NEW recommendation \in Recommendations \ {"none"},
                   NEW passed \in BOOLEAN, GenerationEnds(a, recommendation, passed)
            PROVE  RowsMove
        <4>1. recommendation \in DeveloperActions
          BY DEF Recommendations, DeveloperActions
        <4>2. CompleteAttempt(a, recommendation, passed)
          BY <3>2 DEF GenerationEnds
        <4> QED
          BY <4>1, <4>2, GenerationMoves DEF PageInv
      <3>3. ASSUME NEW a \in AttemptIds, PublicationEnds(a)
            PROVE  RowsMove
        BY <3>3, PublicationMoves DEF PublicationEnds, PageInv
      <3>4. ASSUME PublicationStarts \/ PublicationFails
            PROVE  RowsMove
        BY <3>4, PublicationMoves DEF PublicationStarts, PublicationFails, PageInv
      <3> QED
        BY <1>2, <3>1, <3>2, <3>3, <3>4 DEF Workers
    <2> QED
      BY <2>1, <2>2, OthersInv DEF pageVars, PageInv
  <1> QED
    BY <1>1, <1>2

--------------------------------------------------------------------------------
(* Theorems *)

\* The initial state of the page.
LEMMA PageInitInv == Init => PageInv
  <1> SUFFICES ASSUME Init PROVE PageInv
    OBVIOUS
  <1>1. StoreInv /\ migration.version # 0
    BY StoreInitInv DEF Init, StoreInit
  <1> QED
    BY <1>1, FreshIsSafe DEF Init, PageInv, CommandInv, FetchInv, NoCommand

\* Every step of the page, the server, the other tab and the workers.
LEMMA PageNextInv == PageInv /\ [Next]_vars => PageInv'
  <1> SUFFICES ASSUME PageInv, [Next]_vars PROVE PageInv'
    OBVIOUS
  <1>1. CASE UNCHANGED vars
    <2>1. UNCHANGED <<storeVars, page, fetches, command, usedKeys>>
      BY <1>1 DEF vars, pageVars
    <2> QED
      BY <2>1, PageStep DEF PageInv, CommandInv, FetchInv
  <1>2. CASE Reload \/ LandLoad \/ LandPublication \/ CancelForm
    BY <1>2, ReloadInv, LandLoadInv, LandPublicationInv, FormInv
  <1>3. CASE \E s \in Fetches : Read(s) \/ FetchFails(s)
    BY <1>3, ReadInv, FetchFailsInv
  <1>4. CASE \E s \in Polls : Poll(s) \/ LandPoll(s)
    BY <1>4, PollInv, LandPollInv
  <1>5. CASE \E action \in FormActions : OpenForm(action)
    BY <1>5, FormInv
  <1>6. CASE \E action \in Operations : SendCommand(action)
    BY <1>6, SendCommandInv
  <1>7. CASE CommandCommits \/ CommandRefused
    BY <1>7, CommandCommitsInv, CommandRefusedInv
  <1>8. CASE \E delivered \in BOOLEAN : LandReply(delivered)
    BY <1>8, LandReplyInv
  <1>9. CASE Workers \/ \E action \in Operations : OtherTab(action)
    BY <1>9, ServerStepInv
  <1>10. Next => \/ Reload \/ LandLoad \/ LandPublication \/ CancelForm
                 \/ \E s \in Fetches : Read(s) \/ FetchFails(s)
                 \/ \E s \in Polls : Poll(s) \/ LandPoll(s)
                 \/ \E action \in FormActions : OpenForm(action)
                 \/ \E action \in Operations : SendCommand(action)
                 \/ CommandCommits \/ CommandRefused
                 \/ \E delivered \in BOOLEAN : LandReply(delivered)
                 \/ Workers \/ \E action \in Operations : OtherTab(action)
    BY DEF Next, Workers
  <1> QED
    BY <1>1, <1>2, <1>3, <1>4, <1>5, <1>6, <1>7, <1>8, <1>9, <1>10

\* What the page holds is older than the server's row, or is the server's row.
THEOREM PageHoldsAMoment == Spec => []PageInv
  BY PageInitInv, PageNextInv, PTL DEF Spec

\* The hooks of the page, its fetches and its command have their types.
THEOREM PageTypeCorrect == Spec => []PageTypeOK
  <1>1. PageInv => PageTypeOK
    <2> SUFFICES ASSUME PageInv PROVE PageTypeOK
      OBVIOUS
    <2>1. SafeFetches \subseteq FetchType
      BY DEF SafeFetches
    <2>2. page \in PageType /\ command \in CommandType /\ fetches \in [Fetches -> FetchType]
      BY <2>1 DEF PageInv, SafePages, SafeCommands
    <2> QED
      BY <2>2 DEF PageInv, PageTypeOK, PageType, CommandType, FetchType
  <1> QED
    BY <1>1, PageHoldsAMoment, PTL

\* The row on screen is the server's while it has the server's version.
LEMMA ShownRow ==
  ASSUME PageInv, ~ page.echo, page.row.version = migration.version
  PROVE  /\ page.row.status = migration.status
         /\ page.row.status \in ReadStatuses
              => page.row.current = migration.current /\ page.attempts = EvidenceNow
         /\ page.pending # "none" => page.row.status \in {"ready", "pr_opened"}
  BY DEF PageInv, SafePages

\* The rules of ActionPanel and the tables of the server agree: on the server's version,
\* the page offers no command that the server would refuse.
THEOREM OffersAreTaken == Spec => []OffersAreLegal
  <1>1. PageInv => OffersAreLegal
    <2> SUFFICES ASSUME PageInv, ~ page.echo, page.row.version = migration.version,
                        NEW action \in Operations, Offered(action)
                 PROVE  CASE action = "generate" ->
                               "planning" \in MIGRATION_TRANSITIONS[migration.status]
                          [] action = "publish" ->
                               /\ "pr_opening" \in MIGRATION_TRANSITIONS[migration.status]
                               /\ migration.current # 0
                               /\ Publishable(migration.current)
                          [] OTHER ->
                               ACTION_STATES[action]
                                 \in MIGRATION_TRANSITIONS[migration.status]
      BY DEF OffersAreLegal
    <2>1. /\ migration.status \in MigrationStates /\ migration.current \in AttemptIdOrNull
          /\ CurrentAttemptExplainsMigration
      BY DEF PageInv, StoreInv, StoreTypeOK, MigrationRow
    <2>2. /\ page.row.status = migration.status
          /\ page.row.status \in ReadStatuses
               => page.row.current = migration.current /\ page.attempts = EvidenceNow
          /\ page.pending # "none" => page.row.status \in {"ready", "pr_opened"}
      BY ShownRow
    <2>3. CASE action = "generate"
      <3>1. migration.status \in {"queued", "needs_revision", "blocked"}
        BY <2>2, <2>3 DEF Offered, canGenerate, FormActions
      <3> QED
        BY <2>1, <2>3, <3>1, MigrationEdges
    <2>4. CASE action = "publish"
      <3>1. \/ migration.status = "ready"
            \/ migration.status = "blocked" /\ hasPublishableEvidence
        BY <2>2, <2>4 DEF Offered, canPublish, FormActions
      <3>2. "pr_opening" \in MIGRATION_TRANSITIONS[migration.status]
        BY <2>1, <3>1, MigrationEdges
      <3>3. page.row.current = migration.current /\ page.attempts = EvidenceNow
        BY <2>2, <3>1 DEF ReadStatuses
      <3>4. CASE migration.status = "ready"
        BY <2>1, <2>4, <3>2, <3>4 DEF CurrentAttemptExplainsMigration, Explains, Publishable
      <3>5. CASE migration.status = "blocked" /\ hasPublishableEvidence
        <4>1. migration.current # 0 /\ EvidenceNow[migration.current] = "publishable"
          BY <3>3, <3>5 DEF hasPublishableEvidence, CurrentEvidence
        <4>2. migration.current \in AttemptIds
          BY <2>1, <4>1, MaxAttemptsAssumption DEF AttemptIds, AttemptIdOrNull
        <4>3. Evidence(attempts[migration.current]) = "publishable"
          BY <4>1, <4>2 DEF EvidenceNow
        <4>4. Publishable(migration.current)
          BY <4>3 DEF Evidence, Publishable
        <4> QED
          BY <2>4, <3>2, <4>1, <4>4
      <3> QED
        BY <3>1, <3>4, <3>5
    <2>5. CASE action \notin {"generate", "publish"}
      <3>1. /\ action \in {"approve", "revise", "snooze", "decline"}
            /\ action = "approve" => migration.status = "pr_opened"
            /\ action # "approve" => migration.status \in {"ready", "pr_opened"}
        BY <2>2, <2>5 DEF Offered, Operations, DeveloperActions, FormActions
      <3>2. ACTION_STATES[action] \in MIGRATION_TRANSITIONS[migration.status]
        BY <2>1, <3>1, MigrationEdges DEF ACTION_STATES
      <3> QED
        BY <2>5, <3>2
    <2> QED
      BY <2>3, <2>4, <2>5
  <1> QED
    BY <1>1, PageHoldsAMoment, PTL

\* A publication or a decision that this page sent commits on the status, the current
\* attempt and the evidence that its developer saw.
THEOREM DecisionsAreOnWhatIsShown == Spec => DecisionsAreInformed
  <1>1. PageInv /\ [Next]_vars =>
          [ CommandCommits /\ command.state = "sent" /\ command.action # "generate" =>
              /\ page.row.status = migration.status
              /\ page.row.current = migration.current
              /\ page.attempts = EvidenceNow ]_vars
    <2> SUFFICES ASSUME PageInv, CommandCommits, command.state = "sent",
                        command.action # "generate"
                 PROVE  /\ page.row.status = migration.status
                        /\ page.row.current = migration.current
                        /\ page.attempts = EvidenceNow
      OBVIOUS
    <2>1. /\ command.action \in Operations /\ command.expected \in Nat /\ FreshKey \in Keys
          /\ Commit(command.action, FreshKey, command.expected)
      BY FreshKeyIsAKey DEF CommandCommits, PageInv, SafeCommands, CommandType
    <2>2. command.expected = migration.version
      BY <2>1, CommitMoves DEF PageInv
    <2>3. page.row.version = migration.version /\ page.row.status \in ReadStatuses
      BY <2>2 DEF PageInv, CommandInv
    <2>4. ~ page.echo
      BY <2>3 DEF PageInv, SafePages, ReadStatuses
    <2> QED
      BY <2>3, <2>4, ShownRow
  <1> QED
    BY <1>1, PageHoldsAMoment, PTL DEF Spec, DecisionsAreInformed

--------------------------------------------------------------------------------
(* The rows under the page still follow their lifecycle *)

\* A command is one of the transactions.
LEMMA CommitFollows ==
  ASSUME StoreInv, RowsCountFromZero, NEW action \in Operations, NEW key \in Keys,
         NEW expected \in Nat, Commit(action, key, expected)
  PROVE  EntitiesMove
  <1>1. CASE action = "generate"
    BY <1>1, QueueAttemptFollows DEF Commit
  <1>2. CASE action = "publish"
    BY <1>2, PublicationFollows DEF Commit
  <1>3. CASE action \notin {"generate", "publish"}
    BY <1>3, ApplyDeveloperActionFollows DEF Commit, Operations
  <1> QED
    BY <1>1, <1>2, <1>3

\* Whatever the page, the other tab and the workers do, the rows move along their tables
\* or not at all.
LEMMA PageMoves ==
  ASSUME PageInv, RowsCountFromZero, [Next]_vars
  PROVE  EntitiesMove
  <1>1. /\ StoreInv /\ migration.version \in Nat
        /\ command.action \in Operations /\ command.expected \in Nat
    BY DEF PageInv, StoreInv, StoreTypeOK, MigrationRow, SafeCommands, CommandType
  <1>2. CASE CommandCommits
    <2>1. usedKeys # Keys /\ Commit(command.action, FreshKey, command.expected)
      BY <1>2 DEF CommandCommits
    <2> QED
      BY <1>1, <2>1, FreshKeyIsAKey, CommitFollows DEF PageInv
  <1>3. ASSUME NEW action \in Operations, OtherTab(action)
        PROVE  EntitiesMove
    BY <1>1, <1>3, FreshKeyIsAKey, CommitFollows DEF OtherTab, PageInv
  <1>4. ASSUME NEW a \in AttemptIds,
               GenerationStarts(a) \/ GenerationFails(a) \/ PublicationEnds(a)
        PROVE  EntitiesMove
    <2>1. a \in AttemptIdOrNull /\ 1 \in Nat
      BY MaxAttemptsAssumption DEF AttemptIds, AttemptIdOrNull
    <2> QED
      BY <1>1, <1>4, <2>1, GenerationFollows, PublicationFollows
         DEF GenerationStarts, GenerationFails, PublicationEnds
  <1>5. ASSUME NEW a \in AttemptIds, NEW recommendation \in Recommendations \ {"none"},
               NEW passed \in BOOLEAN, GenerationEnds(a, recommendation, passed)
        PROVE  EntitiesMove
    <2>1. recommendation \in DeveloperActions
      BY DEF Recommendations, DeveloperActions
    <2> QED
      BY <1>1, <1>5, <2>1, GenerationFollows DEF GenerationEnds
  <1>6. CASE PublicationStarts \/ PublicationFails
    BY <1>1, <1>6, PublicationFollows DEF PublicationStarts, PublicationFails
  <1>7. CASE UNCHANGED storeVars
    BY <1>7, NothingMoves DEF storeVars
  <1>8. [Next]_vars => \/ UNCHANGED storeVars \/ CommandCommits
                       \/ \E action \in Operations : OtherTab(action)
                       \/ \E a \in AttemptIds :
                            \/ GenerationStarts(a) \/ GenerationFails(a) \/ PublicationEnds(a)
                            \/ \E recommendation \in Recommendations \ {"none"},
                                  passed \in BOOLEAN : GenerationEnds(a, recommendation, passed)
                       \/ PublicationStarts \/ PublicationFails
    BY DEF Next, vars, Reload, LandLoad, LandPublication, CancelForm, Read, FetchFails, Poll,
           LandPoll, OpenForm, SendCommand, CommandRefused, LandReply
  <1> QED
    BY <1>2, <1>3, <1>4, <1>5, <1>6, <1>7, <1>8

LEMMA PageAlwaysMoves == Spec => []RowsCountFromZero /\ [][EntitiesMove]_vars
  <1>1. Init => RowsCountFromZero
    BY StoreStarts DEF Init
  <1>2. RowsCountFromZero /\ PageInv /\ [Next]_vars => RowsCountFromZero'
    BY PageMoves DEF EntitiesMove
  <1> QED
    BY PageHoldsAMoment, PageMoves, <1>1, <1>2, PTL DEF Spec

\* Two tabs that decide on what they were shown drive the migration along the lifecycle
\* of its table: a version on the screen is one moment of it.
THEOREM PagesFollowTheLifecycle == Spec => MigrationIsVersioned
  <1>1. Init => MigrationEntity!Init
    BY StoreStarts DEF Init
  <1>2. [EntitiesMove]_vars => [MigrationEntity!Next]_(MigrationEntity!vars)
    BY EntitiesStep DEF vars
  <1> QED
    BY PageAlwaysMoves, <1>1, <1>2, PTL
       DEF Spec, MigrationIsVersioned, MigrationEntity!Spec

================================================================================
