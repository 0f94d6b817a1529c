------------------------------- MODULE MigrationInbox -------------------------------
(***************************************************************************)
(* The migration inbox (MigrationInbox of MigrationWorkspace.tsx,          *)
(* fetchMigrations) over the keyset pages of control_plane: a row stands   *)
(* for its key (created_at, id), and a cursor for the key of the last row  *)
(* of its page.  A row gets its created_at when its transaction begins and *)
(* is seen when it commits, so new rows may appear anywhere in the order.  *)
(* The tabs and searches, which only hide rows on the screen, are left out.*)
(***************************************************************************)
EXTENDS Naturals, Sequences, FiniteSets

CONSTANTS
  MaxKey,      \* bound: keys
  PageSize     \* the limit of GET /migrations

ASSUME InboxAssumption ==
  /\ MaxKey \in Nat
  /\ PageSize \in Nat \ {0}

VARIABLES
  rows,        \* the migrations of the workspace
  inbox,       \* the state hooks of the page; its list as a sequence of pages
  inboxGet,    \* the GET under way
  opened       \* history: the rows there were when the first page was read

inboxVars == <<rows, inbox, inboxGet, opened>>

RowKeys == 1 .. MaxKey
NoCursor == 0

InboxInit ==
  /\ rows = {}
  /\ inbox = [pages |-> <<>>, cursor |-> NoCursor, loading |-> TRUE, loadingMore |-> FALSE,
              error |-> FALSE]
  /\ inboxGet = "first"
  /\ opened = {}

--------------------------------------------------------------------------------
(* control_plane: list_records *)

\* The keys that are the largest n of a set.
Largest(n, keys) == {k \in keys : Cardinality({j \in keys : j > k}) < n}

Below(cursor) == IF cursor = NoCursor THEN rows ELSE {k \in rows : k < cursor}

Page(cursor) == Largest(PageSize, Below(cursor))

Last(keys) == CHOOSE k \in keys : \A j \in keys : k <= j

\* Mutation: the cursor is the row that was read to see whether there are more.
NextCursor_Extra(cursor) ==
  IF Cardinality(Below(cursor)) > PageSize
  THEN Last(Largest(PageSize + 1, Below(cursor))) ELSE NoCursor

NextCursor(cursor) ==
  IF Cardinality(Below(cursor)) > PageSize THEN Last(Page(cursor)) ELSE NoCursor

RowCommits(k) ==
  /\ k \in RowKeys \ rows
  /\ rows' = rows \cup {k}
  /\ UNCHANGED <<inbox, inboxGet, opened>>

--------------------------------------------------------------------------------
(* The page *)

LandFirstPage ==
  /\ inboxGet = "first"
  /\ inbox' = [inbox EXCEPT !.pages = <<Page(NoCursor)>>, !.cursor = NextCursor(NoCursor),
                            !.loading = FALSE]
  /\ opened' = rows
  /\ inboxGet' = "none"
  /\ UNCHANGED rows

FirstPageFails ==
  /\ inboxGet = "first"
  /\ inbox' = [inbox EXCEPT !.error = TRUE, !.loading = FALSE]
  /\ inboxGet' = "none"
  /\ UNCHANGED <<rows, opened>>

\* "Load more migrations", which is disabled while it is under way.
LoadMore ==
  /\ inbox.cursor # NoCursor /\ ~ inbox.loading /\ ~ inbox.error /\ ~ inbox.loadingMore
  /\ inbox' = [inbox EXCEPT !.loadingMore = TRUE]
  /\ inboxGet' = "more"
  /\ UNCHANGED <<rows, opened>>

LandMore ==
  /\ inboxGet = "more"
  /\ inbox' = [inbox EXCEPT !.pages = Append(@, Page(inbox.cursor)),
                            !.cursor = NextCursor(inbox.cursor), !.loadingMore = FALSE]
  /\ inboxGet' = "none"
  /\ UNCHANGED <<rows, opened>>

MoreFails ==
  /\ inboxGet = "more"
  /\ inbox' = [inbox EXCEPT !.error = TRUE, !.loadingMore = FALSE]
  /\ inboxGet' = "none"
  /\ UNCHANGED <<rows, opened>>

InboxNext ==
  \/ \E k \in RowKeys : RowCommits(k)
  \/ LandFirstPage \/ FirstPageFails \/ LoadMore \/ LandMore \/ MoreFails

InboxSpec == InboxInit /\ [][InboxNext]_inboxVars

--------------------------------------------------------------------------------
(* Properties *)

InboxTypeOK ==
  /\ rows \subseteq RowKeys /\ opened \subseteq rows
  /\ inbox \in [pages : Seq(SUBSET RowKeys), cursor : RowKeys \cup {NoCursor},
                loading : BOOLEAN, loadingMore : BOOLEAN, error : BOOLEAN]
  /\ inboxGet \in {"none", "first", "more"}

Listed == UNION {inbox.pages[i] : i \in 1 .. Len(inbox.pages)}

\* Pages are read one by one while migrations are created, with transactions that
\* commit out of the order of their rows.  No migration is listed twice or out of
\* order, and none that was there when the list was opened is skipped: those above the
\* cursor are listed, all of them once there is no cursor.
InboxListsEverything ==
  /\ \A i, j \in 1 .. Len(inbox.pages) :
       i < j => \A k \in inbox.pages[i], l \in inbox.pages[j] : k > l
  /\ \A k \in opened : k \in Listed \/ (inbox.cursor # NoCursor /\ k < inbox.cursor)

================================================================================
